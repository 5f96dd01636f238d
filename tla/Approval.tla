------------------------------ MODULE Approval ------------------------------
(***************************************************************************)
(* Who decides on a plan: what the pipelines of all providers ask with the *)
(* changes their plan has found (util/util.go), and what the documentation *)
(* says of it.                                                             *)
(***************************************************************************)

ApproveTypes == {"", "minor", "major", "always", "never", "force", "reject"}
ManualApproveTypes == {"", "always", "changes", "removes", "never", "reject"}
StepProperties == [approve : ApproveTypes, run : ManualApproveTypes,
                   update : ManualApproveTypes]

PipelineChanges == [noChanges : BOOLEAN, imported : BOOLEAN, added : BOOLEAN,
                    changed : BOOLEAN, destroyed : BOOLEAN]
Nothing == [noChanges |-> TRUE, imported |-> FALSE, added |-> FALSE,
            changed |-> FALSE, destroyed |-> FALSE]

ManualApproval(properties, command) ==
  IF properties.approve # "" \/ (properties.run = "" /\ properties.update = "") THEN ""
  ELSE IF command = "run"
       THEN IF properties.run = "" THEN "changes" ELSE properties.run
       ELSE IF properties.update = "" THEN "removes" ELSE properties.update

\* getModuleVersion, getAutoApprove: what autoApprove of a step may be.
AutoApproves(approve) ==
  IF approve \in {"never", "force"} THEN {TRUE}
  ELSE IF approve \in {"major", "minor"} THEN BOOLEAN ELSE {FALSE}

RejectsPlans(approve, manual) == approve = "reject" \/ manual = "reject"

ShouldStop(found, approve, manual) == RejectsPlans(approve, manual) \/ found.noChanges

\* Mutant: what is removed counts as changed.
ApprovesRemovals(found, approve, autoApprove, manual) ==
  \/ approve = "force" \/ manual = "never"
  \/ /\ ~found.imported
     /\ \/ ~found.added /\ ~found.changed /\ ~found.destroyed
        \/ manual = "changes" /\ ~found.changed /\ ~found.destroyed
        \/ manual = "removes" /\ ~found.destroyed
        \/ manual = "" /\ (found.changed \/ found.destroyed => autoApprove)

ShouldApprove(found, approve, autoApprove, manual) ==
  \/ approve = "force" \/ manual = "never"
  \/ /\ ~found.imported
     /\ \/ ~found.added /\ ~found.changed /\ ~found.destroyed
        \/ manual = "changes" /\ ~found.changed /\ ~found.destroyed
        \/ manual = "removes" /\ ~found.destroyed
        \/ manual = "" /\ ~found.destroyed /\ (found.changed => autoApprove)

\* Whom README.md:527-536 lets decide on what a plan has found.
NeedsPerson(found, approve, autoApprove, manual) ==
  CASE manual = "always"  -> found.added \/ found.changed \/ found.destroyed
    [] manual = "changes" -> found.changed \/ found.destroyed
    [] manual = "removes" -> found.destroyed
    [] manual = "never" \/ approve = "force" -> FALSE
    [] manual = "reject" \/ approve = "reject" -> TRUE
    [] approve = "never" -> found.destroyed
    [] approve \in {"major", "minor"} -> found.destroyed \/ (found.changed /\ ~autoApprove)
    [] OTHER -> found.changed \/ found.destroyed
==============================================================================
