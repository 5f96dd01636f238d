--------------------------- MODULE MCLocalPipeline ---------------------------
(***************************************************************************)
(* LocalPipeline for TLC.                                                  *)
(***************************************************************************)
EXTENDS LocalPipeline

Plan(added, changed, destroyed) ==
  [noChanges |-> FALSE, imported |-> FALSE, added |-> added,
   changed |-> changed, destroyed |-> destroyed]
SomePlans == {Nothing, Plan(TRUE, FALSE, FALSE), Plan(FALSE, FALSE, TRUE)}

SomeApprovals == {[approve |-> "minor", run |-> "", update |-> ""],
                  [approve |-> "", run |-> "reject", update |-> "removes"]}
==============================================================================
