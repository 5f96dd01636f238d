----------------------------- MODULE AwsAccount -----------------------------
(***************************************************************************)
(* What the agent keeps in an AWS account, and the calls by which its      *)
(* commands set that up, give it a service account and delete it:          *)
(* awsService (aws/aws.go) with the clients it calls (s3.go, iam.go,       *)
(* dynamodb.go, cloudwatch.go, scheduler.go, codebuild.go), the agent's    *)
(* own projects and pipelines (service/agent.go) and the deleter           *)
(* (service/delete.go).  CloudAccount has the sessions that make them.     *)
(***************************************************************************)
EXTENDS AccountCalls

(***************************************************************************)
(* The parts of the account.                                               *)
(***************************************************************************)
BucketParts == {"tags", "versioning", "lifecycle", "sslPolicy", "dummyZip"}

\* The parts that are only made right after the part they are listed at.
Family ==
    [bucket |-> BucketParts,
     buildRole |-> {"buildAdmin", "buildPolicy", "buildAttached"},
     pipelineRole |-> {"pipelinePolicy", "pipelineAttached"},
     scheduleRole |-> {"schedulePolicy", "scheduleAttached"},
     saUser |-> {"saUserAttached", "saKey"},
     saRole |-> {"saRoleAttached"}]

Owners == DOMAIN Family

ServiceAccountParts ==
    {"saPolicy", "saUser", "saUserAttached", "saKey", "saRole", "saRoleAttached"}

StepParts == {"stepProject", "stepPipeline", "stepDestroyPipeline"}

Part == Owners \cup (UNION {Family[o] : o \in Owners})
        \cup {"config", "table", "linkedRole", "logGroup", "logStream",
              "schedule", "runProject", "updateProject", "runPipeline",
              "updatePipeline", "saPolicy"} \cup StepParts

\* What AWS wants to be there when a part is made.
Needs(p) ==
    CASE p \in BucketParts \cup {"config"} -> {"bucket"}
      [] p = "logStream" -> {"logGroup"}
      [] p = "buildAdmin" -> {"buildRole"}
      [] p = "buildAttached" -> {"buildRole", "buildPolicy"}
      [] p = "pipelineAttached" -> {"pipelineRole", "pipelinePolicy"}
      [] p = "scheduleAttached" -> {"scheduleRole", "schedulePolicy"}
      [] p = "saUserAttached" -> {"saUser", "saPolicy"}
      [] p = "saRoleAttached" -> {"saRole", "saPolicy"}
      [] p = "saKey" -> {"saUser"}
      [] OTHER -> {}

\* What goes with a part that is deleted; of any other part that something
\* needs AWS refuses the deletion.
Contents(p) ==
    CASE p = "bucket" -> BucketParts \cup {"config"}
      [] p = "logGroup" -> {"logStream"}
      [] OTHER -> {}

\* Parts whose creation fails when they are there already, or whose creator
\* then returns nil for a role or a user, which the caller dereferences.
MadeOnce ==
    {"buildRole", "pipelineRole", "scheduleRole", "saRole", "saUser", "schedule",
     "runProject", "updateProject", "runPipeline", "updatePipeline"}

-----------------------------------------------------------------------------
\* BucketExists of a bucket that is there repairs what it checks.
BucketExists == <<Make("lifecycle"), Make("sslPolicy")>>

CreateBucket ==
    Look("bucket", BucketExists,
         <<Make("bucket"), Make("tags"), Make("versioning"), Make("lifecycle"),
           Make("sslPolicy"), Make("dummyZip")>>)

\* Mutant: the policy is made and not attached.
CreateBuildRoleUnattached ==
    Look("buildRole", <<>>,
         <<Make("buildRole"), Make("buildAdmin"), Make("buildPolicy")>>)

CreateBuildRole ==
    Look("buildRole", <<>>,
         <<Make("buildRole"), Make("buildAdmin"), Make("buildPolicy"),
           Make("buildAttached")>>)

CreatePipelineRole ==
    Look("pipelineRole", <<>>,
         <<Make("pipelineRole"), Make("pipelinePolicy"), Make("pipelineAttached")>>)

CreateScheduleRole ==
    Look("scheduleRole", <<>>,
         <<Make("scheduleRole"), Make("schedulePolicy"), Make("scheduleAttached")>>)

CreateSchedule(cron) ==
    IF cron
      THEN Look("schedule", <<CreateScheduleRole>>,
                <<CreateScheduleRole, Make("schedule")>>)
      ELSE Look("schedule", <<Remove({"schedule"})>>, <<>>)

\* SetupResources; a local pipeline needs the bucket and the table only.
SetupResources(local, cron) ==
    <<CreateBucket, GetOrMake("table"), Make("linkedRole")>>
    \o IF local THEN <<>>
       ELSE <<GetOrMake("logGroup"), GetOrMake("logStream"), CreateBuildRole,
              CreatePipelineRole, CreateSchedule(cron)>>

CreateAgentPipelines == <<GetOrMake("updatePipeline"), GetOrMake("runPipeline")>>

\* Agent.CreatePipeline.
CreateAgent ==
    <<GetOrMake("runProject"), GetOrMake("updateProject")>> \o CreateAgentPipelines

\* The bucket alone, to read the configuration.
SetupMinimalResources == <<CreateBucket>>

\* Bootstrap and the runner, which look for the bucket twice.
Setup(command, cron) ==
    SetupMinimalResources
    \o CASE command = "bootstrap" ->
              <<Make("config")>> \o SetupResources(FALSE, cron) \o CreateAgent
         [] command = "run" ->
              SetupResources(FALSE, cron)
              \o <<Make("config"), Make("stepProject"), Make("stepPipeline"),
                   Make("stepDestroyPipeline")>>
         [] command = "local" -> SetupResources(TRUE, FALSE) \o <<Make("config")>>

\* Mutant: the user before its keys.
DeleteUserBeforeKeys ==
    <<Try({"saUserAttached"}, 0), Try({"saUser"}, 0), Try({"saKey"}, 0)>>

DeleteServiceUser ==
    <<Try({"saUserAttached"}, 0), Try({"saKey"}, 0), Try({"saUser"}, 0)>>

\* CreateServiceAccount with its two ends.
CreateServiceAccount(command, rotate, removeUser) ==
    <<Look("saPolicy", <<UpdatePolicy>>, <<Make("saPolicy")>>)>>
    \o IF command = "user"
         THEN <<Look("saUser", IF rotate THEN <<Remove({"saKey"}), Make("saKey")>>
                                         ELSE <<>>,
                     <<Make("saUser"), Make("saUserAttached"), Make("saKey")>>)>>
         ELSE <<Look("saUser", IF removeUser THEN DeleteServiceUser ELSE <<>>, <<>>),
                Look("saRole", <<>>, <<Make("saRole"), Make("saRoleAttached")>>)>>

\* Mutant: the policy of the schedule's role is left.
DeleteMostIAMRoles ==
    <<Try({"buildAdmin", "buildAttached"}, 0), Try({"buildRole"}, 0),
      Try({"buildPolicy"}, 0),
      Try({"pipelineAttached"}, 0), Try({"pipelineRole"}, 0),
      Try({"pipelinePolicy"}, 0),
      Try({"scheduleAttached"}, 0), Try({"scheduleRole"}, 0)>>

DeleteIAMRoles ==
    <<Try({"buildAdmin", "buildAttached"}, 0), Try({"buildRole"}, 0),
      Try({"buildPolicy"}, 0),
      Try({"pipelineAttached"}, 0), Try({"pipelineRole"}, 0),
      Try({"pipelinePolicy"}, 0),
      Try({"scheduleAttached"}, 0), Try({"scheduleRole"}, 0),
      Try({"schedulePolicy"}, 0)>>

DeleteServiceAccount ==
    <<Try({"saRoleAttached"}, 0), Try({"saRole"}, 0)>> \o DeleteServiceUser
    \o <<Try({"saPolicy"}, 0)>>

\* S3.Delete, which ends at its first error.
DeleteBucket ==
    <<Truncate("version", 2), Truncate("marker", 1), Try({"bucket"}, 0)>>

DeleteResources(deleteBucket, deleteServiceAccount) ==
    <<Try({"schedule"}, 0), Try({"runPipeline"}, 0), Try({"runProject"}, 0),
      Try({"updatePipeline"}, 0), Try({"updateProject"}, 0), Try({"table"}, 0),
      Try({"logStream"}, 0), Try({"logGroup"}, 0)>>
    \o DeleteIAMRoles
    \o (IF deleteServiceAccount THEN DeleteServiceAccount ELSE <<>>)
    \o (IF deleteBucket THEN DeleteBucket ELSE <<>>)

DeletePipeline == <<Try({"stepPipeline"}, 1), Try({"stepDestroyPipeline"}, 0)>>

\* NewDeleter, then Deleter.Delete: the pipelines and projects of the steps,
\* then the rest.
Delete(found, steps, deleteBucket, deleteServiceAccount) ==
    (IF found THEN BucketExists ELSE <<>>)
    \o (IF steps THEN DeletePipeline \o <<Try({"stepProject"}, 0)>> ELSE <<>>)
    \o DeleteResources(deleteBucket, deleteServiceAccount)

\* What is to go with a delete.
Taken(steps, deleteBucket, deleteServiceAccount) ==
    Part \ ({"linkedRole"}
            \cup (IF steps THEN {} ELSE StepParts)
            \cup (IF deleteServiceAccount THEN {} ELSE ServiceAccountParts)
            \cup (IF deleteBucket THEN {} ELSE {"bucket", "config"} \cup BucketParts))

\* What a setup is for.
Promised(command, cron) ==
    {"bucket", "config", "table", "linkedRole"} \cup BucketParts
    \cup (IF command = "local" THEN {}
          ELSE {"logGroup", "logStream", "buildRole", "pipelineRole"}
               \cup Family["buildRole"] \cup Family["pipelineRole"])
    \cup (IF cron /\ command # "local"
            THEN {"schedule", "scheduleRole"} \cup Family["scheduleRole"]
            ELSE {})
    \cup (IF command = "bootstrap"
            THEN {"runProject", "updateProject", "runPipeline", "updatePipeline"} ELSE {})
    \cup (IF command = "run" THEN StepParts ELSE {})

\* What every setup repairs.
Repaired == {"lifecycle", "sslPolicy", "config"}
=============================================================================
