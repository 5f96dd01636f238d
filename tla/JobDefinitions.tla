--------------------------- MODULE JobDefinitions ---------------------------
(***************************************************************************)
(* The two Cloud Run jobs of a step, which all sessions of the agent       *)
(* share: whose definition of them a session has executed (gcloud/job.go). *)
(* CloudDeploy has the sessions.                                           *)
(***************************************************************************)
CONSTANT
  Sessions     \* sessions that run the step

Stages == {"plan", "apply"}

VARIABLES
  execution,   \* session -> stage -> its execution of the job
  ran,         \* session -> stage -> whose definition it executed
  late         \* sessions whose rollout a person approved, or the target let begin,
               \* when they had ended (history)

\* Sessions that come one after the other execute the jobs as they defined
\* them, although all use the same two jobs; only a rollout that a person
\* approved, or that began, when its session had ended can have put back an
\* older definition (waitForPlanRollout, waitForApplyRollout, executeJob).
DefinitionsAreOwn ==
  \A s \in Sessions, stage \in Stages :
    execution[s][stage] # "none" => ran[s][stage] \in {s} \cup late
==============================================================================
