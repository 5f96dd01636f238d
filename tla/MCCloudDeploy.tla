---------------------------- MODULE MCCloudDeploy ----------------------------
(***************************************************************************)
(* CloudDeploy for TLC.                                                    *)
(***************************************************************************)
EXTENDS CloudDeploy

Plan(added, changed, destroyed) ==
  [noChanges |-> FALSE, imported |-> FALSE, added |-> added,
   changed |-> changed, destroyed |-> destroyed]
SomePlans == {Nothing, Plan(TRUE, FALSE, FALSE), Plan(TRUE, TRUE, FALSE), Plan(FALSE, FALSE, TRUE)}

Deprecated(approve) == [approve |-> approve, run |-> "", update |-> ""]
ByCommand(run, update) == [approve |-> "", run |-> run, update |-> update]
SomeApprovals == {Deprecated("minor"), Deprecated("reject"), ByCommand("changes", "removes")}
==============================================================================
