--------------------------- MODULE GoogleAccount ----------------------------
(***************************************************************************)
(* What the agent keeps in a Google Cloud project, and the calls by which  *)
(* its commands set that up, give it a service account and delete it:      *)
(* gcloudService (gcloud/gcloud.go) with the clients it calls (storage.go, *)
(* iam.go, scheduler.go, apiusage.go, deploy.go, job.go), the agent's own  *)
(* jobs (service/agent.go) and the deleter (service/delete.go).            *)
(* CloudAccount has the sessions that make them.                           *)
(***************************************************************************)
EXTENDS AccountCalls

(***************************************************************************)
(* The parts of the project.                                               *)
(***************************************************************************)

\* Parts that are made by the very call that makes the part they are listed
\* at: the service account that a target's executions are run as.
With ==
    [planTarget |-> {"planTargetAccount"},
     applyTarget |-> {"applyTargetAccount"}]

TargetParts == DOMAIN With \cup UNION {With[t] : t \in DOMAIN With}

ServiceAccountParts ==
    {"userAccount", "userAccountRoles", "userProjectRoles", "userKey", "trust"}

StepParts ==
    {"deliveryPipeline", "planJob", "applyJob", "planDestroyJob", "applyDestroyJob"}

AgentParts == {"agentAccount", "accountRoles", "projectRoles"}

Part ==
    {"apiServices", "storage", "storedConfig", "agentSchedule", "agentRunJob",
     "agentUpdateJob"}
    \cup TargetParts \cup AgentParts \cup ServiceAccountParts \cup StepParts

\* What Google wants to be there when a part is made.
Needs(p) ==
    CASE p = "storedConfig" -> {"storage"}
      [] p \in {"accountRoles", "projectRoles"} -> {"agentAccount"}
      [] p \in ServiceAccountParts \ {"userAccount"} -> {"userAccount"}
      [] OTHER -> {}

\* What goes with a part that is deleted.
Contents(p) ==
    CASE p = "agentAccount" -> AgentParts
      [] p = "userAccount" -> ServiceAccountParts
      [] p \in DOMAIN With -> With[p]
      [] OTHER -> {}

\* Parts whose creation is an error when they are there already, or whose
\* creator then waits for an operation that is nil.
MadeOnce ==
    {"storage", "agentAccount", "userAccount", "planTarget", "applyTarget",
     "agentSchedule", "agentRunJob", "agentUpdateJob", "planDestroyJob",
     "applyDestroyJob"}

-----------------------------------------------------------------------------
EnableApiServices == <<Make("apiServices")>>

CreateBucket == GetOrMake("storage")

SetupMinimalResources == EnableApiServices \o <<CreateBucket>>

\* Mutant: an account that is found is taken to have its roles.
CreateAgentAccountOnce ==
    <<Look("agentAccount", <<>>,
           <<Make("agentAccount"), Make("accountRoles"), Make("projectRoles")>>)>>

\* The account's roles are added whether it was there or not.
CreateAgentAccount ==
    <<GetOrMake("agentAccount"), Make("accountRoles"), Make("projectRoles")>>

CreateTargets == <<GetOrMake("planTarget"), GetOrMake("applyTarget")>>

CreateSchedule(cron) ==
    IF cron THEN GetOrMake("agentSchedule")
            ELSE Look("agentSchedule", <<Remove({"agentSchedule"})>>, <<>>)

\* SetupResources; a local pipeline needs the bucket only.
SetupResources(local, cron) ==
    EnableApiServices \o <<CreateBucket>>
    \o IF local THEN <<>>
       ELSE CreateAgentAccount \o CreateTargets \o <<CreateSchedule(cron)>>

\* Agent.CreatePipeline; CreateAgentPipelines makes nothing.
CreateAgent == <<GetOrMake("agentRunJob"), GetOrMake("agentUpdateJob")>>

\* CreateProject and CreatePipeline; Cloud Deploy makes the other two jobs.
CreateStep ==
    <<GetOrMake("planDestroyJob"), GetOrMake("applyDestroyJob"),
      Make("deliveryPipeline"), Make("planJob"), Make("applyJob")>>

\* Bootstrap and the runner.
Setup(command, cron) ==
    SetupMinimalResources
    \o CASE command = "bootstrap" ->
              <<Make("storedConfig")>> \o SetupResources(FALSE, cron) \o CreateAgent
         [] command = "run" ->
              SetupResources(FALSE, cron) \o <<Make("storedConfig")>> \o CreateStep
         [] command = "local" -> SetupResources(TRUE, FALSE) \o <<Make("storedConfig")>>

\* CreateServiceAccount: keys, or the impersonation by a principal.
CreateServiceAccount(command, rotate, removeUser) ==
    LET roles == <<Make("userAccountRoles"), Make("userProjectRoles")>>
        created == <<Make(IF command = "user" THEN "userKey" ELSE "trust")>>
        exists ==
            CASE command = "user" /\ rotate -> <<Remove({"userKey"}), Make("userKey")>>
              [] command = "user" /\ ~rotate -> <<>>
              [] command = "trust" /\ removeUser ->
                   <<Remove({"userKey"}), GetOrMake("trust")>>
              [] command = "trust" /\ ~removeUser -> <<GetOrMake("trust")>>
    IN  <<Look("userAccount", roles \o exists,
               <<Make("userAccount")>> \o roles \o created)>>

\* DeleteTargets ends at its first error.
DeleteTargets == <<Try({"planTarget"}, 1), Try({"applyTarget"}, 0)>>

\* GStorage.Delete: every version of every object, then the bucket.
DeleteBucket == <<Try({"storedConfig"}, 1), Try({"storage"}, 0)>>

DeleteResources(deleteBucket, deleteServiceAccount) ==
    <<Try({"agentSchedule"}, 0), Try({"agentRunJob"}, 0), Try({"agentUpdateJob"}, 0)>>
    \o DeleteTargets \o <<Try({"agentAccount"}, 0)>>
    \o (IF deleteServiceAccount THEN <<Try({"userAccount"}, 0)>> ELSE <<>>)
    \o (IF deleteBucket THEN DeleteBucket ELSE <<>>)

\* DeletePipeline, and DeleteProject which ends at its first error.
DeleteStep ==
    <<Try({"deliveryPipeline"}, 0), Try({"planJob"}, 3), Try({"applyJob"}, 2),
      Try({"planDestroyJob"}, 1), Try({"applyDestroyJob"}, 0)>>

\* NewDeleter, whose resources make the targets that are missing, then
\* Deleter.Delete.
Delete(steps, deleteBucket, deleteServiceAccount) ==
    CreateTargets
    \o (IF steps THEN DeleteStep ELSE <<>>)
    \o DeleteResources(deleteBucket, deleteServiceAccount)

\* What is to go with a delete.
Taken(steps, deleteBucket, deleteServiceAccount) ==
    Part \ ({"apiServices"}
            \cup (IF steps THEN {} ELSE StepParts)
            \cup (IF deleteServiceAccount THEN {} ELSE ServiceAccountParts)
            \cup (IF deleteBucket THEN {} ELSE {"storage", "storedConfig"}))

\* What a setup is for.
Promised(command, cron) ==
    {"apiServices", "storage", "storedConfig"}
    \cup (IF command = "local" THEN {} ELSE AgentParts \cup TargetParts)
    \cup (IF cron /\ command # "local" THEN {"agentSchedule"} ELSE {})
    \cup (IF command = "bootstrap" THEN {"agentRunJob", "agentUpdateJob"} ELSE {})
    \cup (IF command = "run" THEN StepParts ELSE {})

\* What every setup repairs.
Repaired == {"storedConfig", "accountRoles", "projectRoles"}
=============================================================================
