---------------------------- MODULE MCCodePipeline ----------------------------
(***************************************************************************)
(* CodePipeline for TLC.                                                   *)
(***************************************************************************)
EXTENDS CodePipeline

Plan(added, changed, destroyed) ==
  [noChanges |-> FALSE, imported |-> FALSE, added |-> added,
   changed |-> changed, destroyed |-> destroyed]
Additions == Plan(TRUE, FALSE, FALSE)
Updates == Plan(TRUE, TRUE, FALSE)
Removals == Plan(FALSE, FALSE, TRUE)
OutputsOnly == Plan(FALSE, FALSE, FALSE)
AllPlans == {Nothing, OutputsOnly, Additions, Updates, Removals}
FourPlans == AllPlans \ {OutputsOnly}
OnePlan == {Removals}

Deprecated(approve) == [approve |-> approve, run |-> "", update |-> ""]
ByCommand(run, update) == [approve |-> "", run |-> run, update |-> update]
\* A step has one kind of approval properties or the other (config.go:721).
AllApprovals ==
  {Deprecated(a) : a \in {"", "minor", "never", "force"}}
    \cup {ByCommand("always", ""), ByCommand("removes", "changes")}
SomeApprovals == {ByCommand("removes", ""), ByCommand("", "never"), Deprecated("reject")}
OneApproval == {ByCommand("always", "never")}
==============================================================================
