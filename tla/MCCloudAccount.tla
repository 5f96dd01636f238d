--------------------------- MODULE MCCloudAccount ---------------------------
(***************************************************************************)
(* The values TLC gives the constants of CloudAccount.                     *)
(***************************************************************************)
EXTENDS CloudAccount, TLC

\* Of either account the parts that are made or deleted one after the other:
\* the bucket with what is left to it, what runs the pipelines, the steps,
\* the service account.
Chapters ==
    {{"bucket", "config"} \cup Aws!BucketParts,
     {"buildRole", "logGroup", "logStream"} \cup Family["buildRole"],
     {"pipelineRole", "runProject", "runPipeline"} \cup Family["pipelineRole"],
     {"scheduleRole", "schedule"} \cup Family["scheduleRole"],
     {"schedule", "updateProject", "updatePipeline"},
     {"table", "linkedRole"} \cup Aws!StepParts,
     Aws!ServiceAccountParts,
     {"storage", "storedConfig", "apiServices"} \cup Google!AgentParts,
     {"agentSchedule", "agentRunJob", "agentUpdateJob"},
     Google!TargetParts,
     Google!StepParts,
     Google!ServiceAccountParts}

\* Sessions differ in nothing.
AnySession == Permutations(Sessions)

\* The emptying stops at once, or on the second of three pages.
FewLayouts ==
    {<<{"marker"}, {"version"}>>,
     <<{"version"}, {"marker"}, {"version", "marker"}>>}

\* What the history of a session still has to say: nothing of a service
\* account; of a delete, or of a setup with a delete at its side, no property
\* asks more than that there was another session.
Told(s) ==
    CASE command[s] \in Setups /\ "delete" \notin overlapped[s] ->
           <<takes[s], "setup" \in overlapped[s]>>
      [] command[s] = "delete" /\ overlapped[s] = {} ->
           <<takes[s], warned[s], refused[s], failed[s], listing[s]>>
      [] OTHER -> <<>>

\* The state but for that and for the calls that are not about the scope:
\* they are never made, so that states that differ in them only behave alike.
Seen ==
    <<scope, parts, pages, saVersions, command,
      [s \in Sessions |-> SelectSeq(todo[s], InScope)], troubles, unfinished,
      [s \in Sessions |-> Told(s)]>>
=============================================================================
