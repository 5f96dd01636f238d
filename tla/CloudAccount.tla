---------------------------- MODULE CloudAccount ----------------------------
(***************************************************************************)
(* The sessions of the agent that set up a cloud account, AWS or Google    *)
(* Cloud, give it a service account and delete it.                         *)
(*                                                                         *)
(* Everything is a series of calls to the cloud, each of which may fail,   *)
(* and a session may end between any two of them or have another at its    *)
(* side.  Much of what exists is not made again: a role that is found is   *)
(* returned as it is.  So it matters what a session that was broken off    *)
(* has left undone, and which session after it repairs that.               *)
(*                                                                         *)
(* A session is the sequence of the calls it has yet to make; AwsAccount   *)
(* and GoogleAccount have the parts of an account and the calls.           *)
(***************************************************************************)
EXTENDS Naturals, FiniteSets, AccountCalls

CONSTANTS
    Sessions,       \* sessions that may be there at the same time
    Commands,       \* the commands they run, a subset of AllCommands
    Scopes,         \* bound: the sets of parts an account is looked at by
    Layouts,        \* what pages of the bucket's listing may hold (see pages)
    MaxVersions,    \* versions AWS keeps of a policy, five in the code
    MaxTroubles     \* bound: calls that fail and sessions that are killed

Aws == INSTANCE AwsAccount
Google == INSTANCE GoogleAccount

Kind(c) == CASE c \in Setups -> "setup"
             [] c \in {"user", "trust"} -> "account"
             [] c = "delete" -> "delete"

\* What a page of the bucket's listing may have.
Pages == (SUBSET {"version", "marker"}) \ {{}}

ASSUME CommandsAssumption == Commands \subseteq AllCommands
ASSUME LayoutsAssumption == Layouts \subseteq Seq(Pages)
ASSUME VersionsAssumption == MaxVersions \in Nat \ {0}
ASSUME TroublesAssumption == MaxTroubles \in Nat

-----------------------------------------------------------------------------
\* The parts of either account; no part has the name of one of the other.
Part == Aws!Part \cup Google!Part

Schedules == {"schedule", "agentSchedule"}

Owners == Aws!Owners \cup DOMAIN Google!With

Family ==
    [o \in Owners |-> IF o \in Aws!Owners THEN Aws!Family[o] ELSE Google!With[o]]

Needs(p) == Aws!Needs(p) \cup Google!Needs(p)

Contents(p) == Aws!Contents(p) \cup Google!Contents(p)

MadeOnce == Aws!MadeOnce \cup Google!MadeOnce

\* Of one account; what is made needs parts of the same scope only, and is there
\* with its whole family and the part it belongs to.  The role of a schedule is
\* only looked for along with the schedule.
ASSUME ScopesAssumption ==
    \A S \in Scopes :
        /\ S \subseteq Aws!Part \/ S \subseteq Google!Part
        /\ \A p \in S : Needs(p) \subseteq S
        /\ \A o \in Owners \cap S : Family[o] \subseteq S
        /\ \A o \in Owners : Family[o] \cap S # {} => o \in S
        /\ "scheduleRole" \in S => "schedule" \in S

VARIABLES
    scope,          \* the parts looked at; calls about others are left out
    parts,          \* the parts that exist
    pages,          \* the pages of the listing of the bucket's objects: has a
                    \* page versions of objects, has it delete markers
    saVersions,     \* versions of the policy of the service account
    command,        \* of each session, "none" between two
    todo,           \* the calls a session has yet to make
    takes,          \* history: the parts a session is asked to delete
    warned,         \* of a delete: has it warned
    troubles,       \* calls that failed and sessions killed so far
    unfinished,     \* history: parts left undone by a session that was broken
                    \* off, or deleted without the part they belong to
    refused,        \* history: parts whose deletion AWS refused a session
    failed,         \* history: has a call of the session failed
    overlapped,     \* history: the kinds of the sessions at the side of one
    listing         \* history: the pages when a delete began

vars == <<scope, parts, pages, saVersions, command, todo, takes, warned, troubles,
          unfinished, refused, failed, overlapped, listing>>

TypeOK ==
    /\ scope \in Scopes
    /\ parts \subseteq scope
    /\ pages \in Seq(Pages)
    /\ saVersions \in 0..MaxVersions
    /\ command \in [Sessions -> Commands \cup {"none"}]
    /\ takes \in [Sessions -> SUBSET Part]
    /\ warned \in [Sessions -> BOOLEAN]
    /\ troubles \in 0..MaxTroubles
    /\ unfinished \subseteq scope \ parts
    /\ refused \in [Sessions -> SUBSET Part]
    /\ failed \in [Sessions -> BOOLEAN]
    /\ overlapped \in [Sessions -> SUBSET {"setup", "account", "delete"}]
    /\ listing \in [Sessions -> Seq(Pages)]

Init ==
    /\ scope \in Scopes
    /\ parts = {}
    /\ pages = <<>>
    /\ saVersions = 0
    /\ command = [s \in Sessions |-> "none"]
    /\ todo = [s \in Sessions |-> <<>>]
    /\ takes = [s \in Sessions |-> {}]
    /\ warned = [s \in Sessions |-> FALSE]
    /\ troubles = 0
    /\ unfinished = {}
    /\ refused = [s \in Sessions |-> {}]
    /\ failed = [s \in Sessions |-> FALSE]
    /\ overlapped = [s \in Sessions |-> {}]
    /\ listing = [s \in Sessions |-> <<>>]

-----------------------------------------------------------------------------
Running == {s \in Sessions : command[s] # "none"}

\* The parts the calls of a session are about to make.
UnderWay(s) ==
    {todo[s][i].part : i \in {j \in DOMAIN todo[s] : todo[s][j].do = "make"}}

OfGoogle == scope \subseteq Google!Part

\* Is a call about parts of the scope?
InScope(call) ==
    \/ call.do \in {"make", "look"} /\ call.part \in scope
    \/ call.do \in {"remove", "try"} /\ call.parts \subseteq scope
    \/ call.do = "truncate" /\ "bucket" \in scope
    \/ call.do = "update" /\ "saPolicy" \in scope

\* A session goes on with the first of the calls that is about the scope.
GoesOn(s, calls) ==
    \E n \in 0..Len(calls) :
        /\ \A i \in 1..n : ~InScope(calls[i])
        /\ n < Len(calls) => InScope(calls[n + 1])
        /\ todo' = [todo EXCEPT ![s] = SubSeq(calls, n + 1, Len(calls))]

\* A session begins with the given calls; those in taken are to go.
Begin(s, c, calls, taken) ==
    /\ c \in Commands
    /\ command[s] = "none"
    /\ GoesOn(s, calls)
    /\ todo'[s] # <<>>
    /\ command' = [command EXCEPT ![s] = c]
    /\ takes' = [takes EXCEPT ![s] = taken \cap scope]
    /\ listing' = [listing EXCEPT ![s] = IF c = "delete" THEN pages ELSE <<>>]
    /\ overlapped' = [t \in Sessions |->
         CASE t = s -> {Kind(command[u]) : u \in Running}
           [] t \in Running -> overlapped[t] \cup {Kind(c)}
           [] OTHER -> {}]
    /\ UNCHANGED <<scope, parts, pages, saVersions, warned, troubles, unfinished,
                   refused, failed>>

BeginSetup(s) ==
    \E c \in {"bootstrap", "run", "local"}, cron \in BOOLEAN :
        Begin(s, c, IF OfGoogle THEN Google!Setup(c, cron) ELSE Aws!Setup(c, cron),
              IF cron \/ c = "local" THEN {} ELSE Schedules)

BeginServiceAccount(s) ==
    \E c \in {"user", "trust"}, flag \in BOOLEAN :
        Begin(s, c, IF OfGoogle THEN Google!CreateServiceAccount(c, flag, flag)
                                ELSE Aws!CreateServiceAccount(c, flag, flag),
              CASE ~flag -> {}
                [] c = "user" -> {"saKey", "userKey"}
                [] c = "trust" -> {"saUser", "userKey"} \cup Family["saUser"])

\* NewDeleter.  With neither a bucket nor a configuration there are no steps,
\* and the flags are dropped; a bucket without a configuration is an error.
BeginDelete(s) ==
    \E config, deleteBucket, deleteServiceAccount \in BOOLEAN :
        LET found == parts \cap {"bucket", "storage"} # {}
            steps == config \/ parts \cap {"config", "storedConfig"} # {}
            bucket == (steps \/ found) /\ deleteBucket
            account == (steps \/ found) /\ deleteServiceAccount
        IN  /\ steps \/ ~found
            /\ \/ /\ OfGoogle
                  /\ Begin(s, "delete", Google!Delete(steps, bucket, account),
                           Google!Taken(steps, bucket, account))
               \/ /\ ~OfGoogle
                  /\ Begin(s, "delete", Aws!Delete(found, steps, bucket, account),
                           Aws!Taken(steps, bucket, account))

\* The calls after the first, but for as many as are skipped.
Skip(calls, n) == SubSeq(calls, n + 2, Len(calls))

Call(s) == Head(todo[s])
Calls(s, what) == todo[s] # <<>> /\ Call(s).do = what

\* A look, answered by what is there now.
LookUp(s) ==
    /\ Calls(s, "look")
    /\ GoesOn(s, (IF Call(s).part \in parts THEN Call(s).found ELSE Call(s).missing)
                 \o Tail(todo[s]))
    /\ UNCHANGED <<scope, parts, pages, saVersions, command, takes, warned, troubles,
                   unfinished, refused, failed, overlapped, listing>>

Entries(pgs) ==
    Cardinality({e \in (DOMAIN pgs) \X {"version", "marker"} : e[2] \in pgs[e[1]]})

\* Objects of the agent's are on the last page.
WithVersion(pgs) ==
    IF \E i \in DOMAIN pgs : "version" \in pgs[i] THEN pgs
    ELSE Append(pgs, {"version"})

\* What the call makes with the part; a delete that makes a target has no
\* service account to give it.
WithPart(s, p) ==
    IF p \in DOMAIN Google!With \ parts THEN Google!With[p] ELSE {}

MadeWith(s, p) == IF command[s] = "delete" THEN {} ELSE WithPart(s, p)

\* A part is made, or is there already.  CreateBucket of a bucket that another
\* session has made sees to its lifecycle and policy only.
MakePart(s) ==
    /\ Calls(s, "make")
    /\ LET p == Call(s).part
       IN  /\ ~(p \in MadeOnce /\ p \in parts)
           /\ Needs(p) \subseteq parts
           /\ parts' = parts \cup {p} \cup MadeWith(s, p)
           /\ unfinished' = (unfinished \ parts') \cup (WithPart(s, p) \ parts')
           /\ pages' = IF p \in {"dummyZip", "config"} THEN WithVersion(pages) ELSE pages
           /\ saVersions' = IF p = "saPolicy" /\ p \notin parts THEN 1 ELSE saVersions
           /\ GoesOn(s, Skip(todo[s], IF p = "bucket" /\ p \in parts THEN 2 ELSE 0))
    /\ UNCHANGED <<scope, command, takes, warned, troubles, refused, failed,
                   overlapped, listing>>

\* The oldest version goes when there are too many.
WithNewVersion(n) == IF n < MaxVersions THEN n + 1 ELSE n

\* A new version of the policy, when its statements have changed.
UpdateSAPolicy(s) ==
    /\ Calls(s, "update")
    /\ "saPolicy" \in parts
    /\ GoesOn(s, Tail(todo[s]))
    /\ saVersions' \in {saVersions, WithNewVersion(saVersions)}
    /\ UNCHANGED <<scope, parts, pages, command, takes, warned, troubles, unfinished,
                   refused, failed, overlapped, listing>>

\* What has to be repaired by hand once the given parts are gone.
LeftWithout(gone) ==
    (unfinished \ UNION {Family[o] : o \in Owners \cap gone})
    \cup {p \in gone : \E o \in Owners : p \in Family[o] /\ o \in parts \ gone}

Delete1(gone) ==
    /\ parts' = parts \ gone
    /\ unfinished' = LeftWithout(gone \cap parts)
    /\ saVersions' = IF "saPolicy" \in gone THEN 0 ELSE saVersions

RefusedParts(S) ==
    {p \in S \cap parts :
        \/ \E q \in parts \ Contents(p) : p \in Needs(q)
        \/ p = "saPolicy" /\ saVersions > 1
        \/ p = "bucket" /\ pages # <<>>}

\* A deletion; what is not found is no error.
RemovePart(s) ==
    /\ Calls(s, "remove") \/ Calls(s, "try")
    /\ RefusedParts(Call(s).parts) = {}
    /\ Delete1(Call(s).parts \cup UNION {Contents(p) : p \in Call(s).parts})
    /\ GoesOn(s, Tail(todo[s]))
    /\ UNCHANGED <<scope, pages, command, takes, warned, troubles, refused, failed,
                   overlapped, listing>>

\* AWS refuses the deletion, which is a warning.
RemovalRefused(s) ==
    /\ Calls(s, "try")
    /\ RefusedParts(Call(s).parts) # {}
    /\ refused' = [refused EXCEPT ![s] = @ \cup RefusedParts(Call(s).parts)]
    /\ warned' = [warned EXCEPT ![s] = TRUE]
    /\ GoesOn(s, Skip(todo[s], Call(s).skips))
    /\ UNCHANGED <<scope, parts, pages, saVersions, command, takes, troubles, unfinished,
                   failed, overlapped, listing>>

\* The call fails, having removed some of the parts it is about.
RemovalFails(s) ==
    /\ Calls(s, "try")
    /\ troubles < MaxTroubles
    /\ \E gone \in SUBSET (Call(s).parts \cap parts) :
          /\ gone # Call(s).parts
          /\ RefusedParts(gone) = {}
          /\ Delete1(gone)
    /\ troubles' = troubles + 1
    /\ failed' = [failed EXCEPT ![s] = TRUE]
    /\ warned' = [warned EXCEPT ![s] = TRUE]
    /\ GoesOn(s, Skip(todo[s], Call(s).skips))
    /\ UNCHANGED <<scope, pages, command, takes, refused, overlapped, listing>>

\* Up to which page entries of a kind are deleted: the first without any.
Reach(pgs, kind) ==
    CHOOSE n \in 0..Len(pgs) :
        /\ \A i \in 1..n : kind \in pgs[i]
        /\ n < Len(pgs) => kind \notin pgs[n + 1]

\* The pages but the entries of a kind on the first n, and of these what is empty.
Without(pgs, kind, n) ==
    LET left == [i \in DOMAIN pgs |-> IF i <= n THEN pgs[i] \ {kind} ELSE pgs[i]]
        kept == {i \in DOMAIN pgs : left[i] # {}}
        order == CHOOSE f \in [1..Cardinality(kept) -> kept] :
                    \A i, j \in DOMAIN f : i < j => f[i] < f[j]
    IN  [i \in DOMAIN order |-> left[order[i]]]

\* truncateObjectVersions and truncateDeleteMarkers; of the agent's objects
\* those on the pages go, all of them when no version is left.
Truncated(s, n) ==
    /\ pages' = Without(pages, Call(s).kind, n)
    /\ \E gone \in SUBSET ({"dummyZip", "config"} \cap parts) :
          /\ gone # {} => n > 0 /\ Call(s).kind = "version"
          /\ (\A i \in DOMAIN pages' : "version" \notin pages'[i])
                => gone = {"dummyZip", "config"} \cap parts
          /\ Delete1(gone)

TruncateBucket(s) ==
    /\ Calls(s, "truncate")
    /\ IF "bucket" \in parts
         THEN /\ Truncated(s, Reach(pages, Call(s).kind))
              /\ GoesOn(s, Tail(todo[s]))
         ELSE /\ GoesOn(s, Skip(todo[s], Call(s).skips))
              /\ UNCHANGED <<scope, parts, unfinished, saVersions, pages>>
    /\ UNCHANGED <<scope, command, takes, warned, troubles, refused, failed,
                   overlapped, listing>>

TruncateFails(s) ==
    /\ Calls(s, "truncate")
    /\ "bucket" \in parts
    /\ troubles < MaxTroubles
    /\ \E n \in 0..Reach(pages, Call(s).kind) : n < Len(pages) /\ Truncated(s, n)
    /\ troubles' = troubles + 1
    /\ failed' = [failed EXCEPT ![s] = TRUE]
    /\ warned' = [warned EXCEPT ![s] = TRUE]
    /\ GoesOn(s, Skip(todo[s], Call(s).skips))
    /\ UNCHANGED <<scope, command, takes, refused, overlapped, listing>>

Forgotten(s) ==
    /\ takes' = [takes EXCEPT ![s] = {}]
    /\ warned' = [warned EXCEPT ![s] = FALSE]
    /\ refused' = [refused EXCEPT ![s] = {}]
    /\ failed' = [failed EXCEPT ![s] = FALSE]
    /\ overlapped' = [overlapped EXCEPT ![s] = {}]
    /\ listing' = [listing EXCEPT ![s] = <<>>]

Ends(s) ==
    /\ command' = [command EXCEPT ![s] = "none"]
    /\ todo' = [todo EXCEPT ![s] = <<>>]
    /\ Forgotten(s)

\* The session is through.
End(s) ==
    /\ command[s] # "none"
    /\ todo[s] = <<>>
    /\ Ends(s)
    /\ UNCHANGED <<scope, parts, pages, saVersions, troubles, unfinished>>

\* It ends before, leaving undone what it was about to make for what exists.
LeavesUndone(s) ==
    unfinished' = unfinished \cup
        {p \in UnderWay(s) \ parts : \E o \in Owners \cap parts : p \in Family[o]}

\* A call returns an error, or the process is killed; an update may then have
\* deleted the oldest version and not made the new one.
BreaksOff(s) ==
    /\ command[s] # "none"
    /\ todo[s] # <<>>
    /\ troubles < MaxTroubles
    /\ troubles' = troubles + 1
    /\ LeavesUndone(s)
    /\ Ends(s)
    /\ \/ UNCHANGED saVersions
       \/ /\ Calls(s, "update")
          /\ saVersions = MaxVersions
          /\ saVersions' = saVersions - 1
    /\ UNCHANGED <<scope, parts, pages>>

\* What it wants to make was made, or what it needs deleted, since it looked.
Collides(s) ==
    /\ Calls(s, "make")
    /\ \/ Call(s).part \in MadeOnce \cap parts
       \/ ~(Needs(Call(s).part) \subseteq parts)
    /\ LeavesUndone(s)
    /\ Ends(s)
    /\ UNCHANGED <<scope, parts, pages, saVersions, troubles>>

UpdateCollides(s) ==
    /\ Calls(s, "update")
    /\ "saPolicy" \notin parts
    /\ LeavesUndone(s)
    /\ Ends(s)
    /\ UNCHANGED <<scope, parts, pages, saVersions, troubles>>

\* Runs of the agent have written and deleted files in a versioned bucket.
FilesChange ==
    /\ "dummyZip" \in parts
    /\ Running = {}
    /\ pages = <<{"version"}>>
    /\ pages' \in Layouts
    /\ UNCHANGED <<scope, parts, saVersions, command, todo, takes, warned, troubles,
                   unfinished, refused, failed, overlapped, listing>>

SessionStep(s) ==
    \/ BeginSetup(s) \/ BeginServiceAccount(s) \/ BeginDelete(s)
    \/ LookUp(s) \/ MakePart(s) \/ UpdateSAPolicy(s)
    \/ RemovePart(s) \/ RemovalRefused(s) \/ RemovalFails(s)
    \/ TruncateBucket(s) \/ TruncateFails(s)
    \/ End(s) \/ BreaksOff(s) \/ Collides(s) \/ UpdateCollides(s)

Next == FilesChange \/ \E s \in Sessions : SessionStep(s)

Spec == Init /\ [][Next]_vars
-----------------------------------------------------------------------------
Promised(c, cron) == Aws!Promised(c, cron) \cup Google!Promised(c, cron)

\* What every setup repairs.
Repaired == Aws!Repaired \cup Google!Repaired

Through(s) == command[s] # "none" /\ todo[s] = <<>>

(***************************************************************************)
(* A part that is only made together with the one it belongs to is missing *)
(* there only if a session was broken off before it made it, if it was     *)
(* deleted without the other, or if a session is about to make it: no      *)
(* order of sessions and of their looks at the account loses one           *)
(* otherwise (createBuildRole, createPipelineRole, createScheduleRole,     *)
(* CreateBucket, createServiceUser, createServiceRole, createTarget).      *)
(***************************************************************************)
MissingWasLeftUndone ==
    \A o \in Owners \cap parts : \A p \in Family[o] \ parts :
        p \in unfinished \/ \E s \in Sessions : p \in UnderWay(s)

(***************************************************************************)
(* A setup that ends well, with no delete at its side, leaves all it is    *)
(* for, but for what was left undone before it or is under way elsewhere;  *)
(* lifecycle and policy of AWS's bucket, the roles of Google's service     *)
(* account and the configuration are there whatever happened before        *)
(* (SetupResources, BucketExists, createServiceAccount).                   *)
(***************************************************************************)
SetupCompletes ==
    \A s \in Sessions :
        Through(s) /\ command[s] \in Setups /\ "delete" \notin overlapped[s] =>
            \A p \in (Promised(command[s], takes[s] \cap Schedules = {}) \cap scope)
                        \ parts :
                \/ /\ p \notin Repaired
                   /\ \/ p \in unfinished
                      \/ \E t \in Sessions : p \in UnderWay(t)
                \/ p \in Schedules /\ "setup" \in overlapped[s]

(***************************************************************************)
(* A delete that warned of nothing, with no other session at its side,     *)
(* leaves nothing but what its flags spare, whatever half made account it  *)
(* began with (DeleteResources only logs what it could not delete).        *)
(***************************************************************************)
DeleteLeavesNothing ==
    \A s \in Sessions :
        Through(s) /\ command[s] = "delete" /\ overlapped[s] = {} /\ ~warned[s] =>
            parts \cap takes[s] = {}

(***************************************************************************)
(* A delete does not stand in its own way: what the cloud refuses to       *)
(* delete, while no call fails and nobody else is there, is never          *)
(* something whose attachments, keys, files or role come later in its      *)
(* order, but a policy with versions of its own, or a bucket with pages    *)
(* that the emptying did not reach; of those it has emptied some, so that  *)
(* repeating it helps (deleteIAMRoles, truncateBucket, GStorage.Delete).   *)
(***************************************************************************)
DeleteInOrder ==
    \A s \in Sessions :
        command[s] = "delete" /\ overlapped[s] = {} /\ ~failed[s] =>
            /\ refused[s] \subseteq {"saPolicy", "bucket"}
            /\ "saPolicy" \in refused[s] => saVersions > 1
            /\ "bucket" \in refused[s] =>
                 Len(listing[s]) > 1 /\ Entries(pages) < Entries(listing[s])
=============================================================================
