---------------------------- MODULE AccountCalls ----------------------------
(***************************************************************************)
(* The commands that change what the agent keeps in a cloud account, and   *)
(* the calls they are sequences of (model/provider.go CloudProvider).      *)
(***************************************************************************)
EXTENDS Sequences

\* The first three set up what the agent needs.
AllCommands == {"bootstrap", "run", "local", "user", "trust", "delete"}

Setups == {"bootstrap", "run", "local"}

(***************************************************************************)
(* A look is replaced by the calls that follow what it found; the other    *)
(* calls change the account.  A deletion that only warns goes on with the  *)
(* next one, leaving out as many as "skips" says.                          *)
(***************************************************************************)
Make(p) == [do |-> "make", part |-> p]
Look(p, found, missing) ==
    [do |-> "look", part |-> p, found |-> found, missing |-> missing]
Remove(S) == [do |-> "remove", parts |-> S]
Try(S, skips) == [do |-> "try", parts |-> S, skips |-> skips]
Truncate(kind, skips) == [do |-> "truncate", kind |-> kind, skips |-> skips]
UpdatePolicy == [do |-> "update"]

GetOrMake(p) == Look(p, <<>>, <<Make(p)>>)
=============================================================================
