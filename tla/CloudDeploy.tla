----------------------------- MODULE CloudDeploy -----------------------------
(***************************************************************************)
(* The pipeline of a step at Google Cloud (gcloud/deploy.go, job.go): the  *)
(* manifests of two Cloud Run jobs are put into the bucket, a release is   *)
(* made of them, a rollout of it to a target brings the definition of a    *)
(* job up to date, and then the job is executed: first plan, then, if it   *)
(* is approved, apply. A session of the agent is one run of the pipeline.  *)
(* Jobs, targets and the file in the bucket are those of the step, shared  *)
(* by all sessions.                                                        *)
(***************************************************************************)
EXTENDS Naturals, Approval, JobDefinitions

CONSTANTS
  Nobody,         \* no session
  NoPlan,         \* before a plan has been made
  Overlap,        \* a session may begin while another one runs
  StepApprovals,  \* the approval properties the step may have
  Plans           \* what a plan may find

ASSUME SessionsAssumption == Nobody \notin Sessions /\ Overlap \in BOOLEAN
ASSUME StepAssumption == StepApprovals \subseteq StepProperties
ASSUME PlansAssumption == Plans \subseteq PipelineChanges /\ NoPlan \notin PipelineChanges

RolloutStates == {"none", "pendingApproval", "pending", "inProgress", "succeeded",
                  "failed", "rejected"}

VARIABLES
  bundle,      \* whose manifests are in the bucket
  exists,      \* the delivery pipeline exists
  release,     \* session -> whose manifests its release is made of
  render,      \* session -> render state of its release
  rollout,     \* session -> stage -> state of its rollout
  approvedBy,  \* session -> who approved its rollout to the apply target
  job,         \* stage -> whose definition the job has
  found,       \* session -> what its plan found
  step,        \* the approval properties of the step
  pc,          \* session -> the call it makes next
  cmd, auto,   \* session -> its command, and autoApprove for the step
  notified,    \* session -> a person has been asked and has not answered
  result       \* session -> what it returned

release_vars == <<bundle, exists, release, render>>
rollout_vars == <<rollout, approvedBy, job, late>>
job_vars == <<execution, ran, found>>
vars == <<release_vars, rollout_vars, job_vars, notified, step, pc, cmd, auto, result>>

Calls == {"idle", "put", "deliver", "release", "render", "planRollout", "planWait",
          "planJob", "planning", "decide", "applyRollout", "applyWait", "approve",
          "applyJob", "applying", "over"}

TypeOK ==
  /\ bundle \in Sessions \cup {Nobody} /\ exists \in BOOLEAN
  /\ release \in [Sessions -> Sessions \cup {Nobody}]
  /\ render \in [Sessions -> {"none", "inProgress", "succeeded", "failed"}]
  /\ rollout \in [Sessions -> [Stages -> RolloutStates]]
  /\ approvedBy \in [Sessions -> {"nobody", "agent", "person"}]
  /\ job \in [Stages -> Sessions \cup {Nobody}]
  /\ execution \in [Sessions -> [Stages -> {"none", "running", "succeeded", "failed"}]]
  /\ ran \in [Sessions -> [Stages -> Sessions \cup {Nobody}]]
  /\ found \in [Sessions -> PipelineChanges \cup {NoPlan}]
  /\ step \in StepApprovals /\ pc \in [Sessions -> Calls]
  /\ cmd \in [Sessions -> {"run", "update"}] /\ auto \in [Sessions -> BOOLEAN]
  /\ notified \in [Sessions -> BOOLEAN]
  /\ result \in [Sessions -> {"none", "nil", "error"}] /\ late \subseteq Sessions

Init ==
  /\ bundle = Nobody /\ exists = FALSE
  /\ release = [s \in Sessions |-> Nobody] /\ render = [s \in Sessions |-> "none"]
  /\ rollout = [s \in Sessions |-> [stage \in Stages |-> "none"]]
  /\ approvedBy = [s \in Sessions |-> "nobody"] /\ late = {}
  /\ job = [stage \in Stages |-> Nobody]
  /\ execution = [s \in Sessions |-> [stage \in Stages |-> "none"]]
  /\ ran = [s \in Sessions |-> [stage \in Stages |-> Nobody]]
  /\ found = [s \in Sessions |-> NoPlan]
  /\ step \in StepApprovals /\ pc = [s \in Sessions |-> "idle"]
  /\ cmd = [s \in Sessions |-> "run"] /\ auto = [s \in Sessions |-> FALSE]
  /\ notified = [s \in Sessions |-> FALSE]
  /\ result = [s \in Sessions |-> "none"]
------------------------------------------------------------------------------
Goto(s, call) == pc' = [pc EXCEPT ![s] = call]
Return(s, value) == Goto(s, "over") /\ result' = [result EXCEPT ![s] = value]
Over(s) == pc[s] = "over"

(***************************************************************************)
(* Cloud Deploy, Cloud Run and the people who approve there (external)     *)
(***************************************************************************)
\* A target takes one rollout at a time.
Taken(stage) == \E s \in Sessions : rollout[s][stage] = "inProgress"
Start(s, stage) ==
  rollout' = [rollout EXCEPT ![s][stage] = IF Taken(stage) THEN "pending" ELSE "inProgress"]

RenderEnds(s) ==
  /\ render[s] = "inProgress"
  /\ \E state \in {"succeeded", "failed"} : render' = [render EXCEPT ![s] = state]
  /\ UNCHANGED <<bundle, exists, release, rollout_vars, job_vars, notified, step,
                 pc, cmd, auto, result>>

PendingStarts(s) ==
  /\ \E stage \in Stages :
       /\ rollout[s][stage] = "pending" /\ ~Taken(stage)
       /\ rollout' = [rollout EXCEPT ![s][stage] = "inProgress"]
  /\ late' = IF Over(s) THEN late \cup {s} ELSE late
  /\ UNCHANGED <<release_vars, approvedBy, job, job_vars, notified, step, pc, cmd,
                 auto, result>>

\* A rollout that succeeds has replaced the definition of the job.
RolloutEnds(s) ==
  /\ \E stage \in Stages :
       /\ rollout[s][stage] = "inProgress"
       /\ \/ /\ rollout' = [rollout EXCEPT ![s][stage] = "succeeded"]
             /\ job' = [job EXCEPT ![stage] = release[s]]
          \/ rollout' = [rollout EXCEPT ![s][stage] = "failed"] /\ UNCHANGED job
  /\ UNCHANGED <<release_vars, approvedBy, late, job_vars, notified, step, pc, cmd,
                 auto, result>>

JobEnds(s) ==
  /\ \E stage \in Stages, state \in {"succeeded", "failed"} :
       /\ execution[s][stage] = "running"
       /\ execution' = [execution EXCEPT ![s][stage] = state]
       /\ IF stage = "plan" /\ state = "succeeded"
          THEN \E changes \in Plans : found' = [found EXCEPT ![s] = changes]
          ELSE UNCHANGED found
  /\ UNCHANGED <<release_vars, rollout_vars, ran, notified, step, pc, cmd, auto, result>>

Approve(s, who) ==
  /\ rollout[s]["apply"] = "pendingApproval" /\ Start(s, "apply")
  /\ approvedBy' = [approvedBy EXCEPT ![s] = who]

PersonDecides(s) ==
  /\ \/ /\ Approve(s, "person")
        /\ late' = IF Over(s) THEN late \cup {s} ELSE late
     \/ /\ rollout[s]["apply"] = "pendingApproval" /\ UNCHANGED <<approvedBy, late>>
        /\ rollout' = [rollout EXCEPT ![s]["apply"] = "rejected"]
  /\ UNCHANGED <<release_vars, job, job_vars, notified, step, pc, cmd, auto, result>>
------------------------------------------------------------------------------
(***************************************************************************)
(* CreatePipeline, or UpdatePipeline and StartPipelineExecution            *)
(***************************************************************************)
Begin(s) ==
  /\ pc[s] = "idle" /\ Goto(s, "put")
  /\ Overlap \/ \A other \in Sessions : pc[other] \in {"idle", "over"}
  /\ \E command \in {"run", "update"}, approves \in AutoApproves(step.approve) :
       cmd' = [cmd EXCEPT ![s] = command] /\ auto' = [auto EXCEPT ![s] = approves]
  /\ UNCHANGED <<release_vars, rollout_vars, job_vars, notified, step, result>>

PutBundle(s) ==
  /\ pc[s] = "put" /\ Goto(s, "deliver") /\ bundle' = s
  /\ UNCHANGED <<exists, release, render, rollout_vars, job_vars, notified, step,
                 cmd, auto, result>>

\* createDeliveryPipeline: one that exists is as good.
CreateDeliveryPipeline(s) ==
  /\ pc[s] = "deliver" /\ Goto(s, "release") /\ exists' = TRUE
  /\ UNCHANGED <<bundle, release, render, rollout_vars, job_vars, notified, step,
                 cmd, auto, result>>

\* The release is made of what the bucket holds by now.
CreateRelease(s) ==
  /\ pc[s] = "release" /\ exists /\ Goto(s, "render")
  /\ release' = [release EXCEPT ![s] = bundle]
  /\ render' = [render EXCEPT ![s] = "inProgress"]
  /\ UNCHANGED <<bundle, exists, rollout_vars, job_vars, notified, step, cmd, auto, result>>
------------------------------------------------------------------------------
(***************************************************************************)
(* WaitPipelineExecution                                                   *)
(***************************************************************************)
\* waitForReleaseRender, for a minute.
WaitForRender(s) ==
  /\ pc[s] = "render"
  /\ \/ render[s] = "succeeded" /\ Goto(s, "planRollout") /\ UNCHANGED result
     \/ render[s] # "succeeded" /\ Return(s, "error")
  /\ UNCHANGED <<release_vars, rollout_vars, job_vars, notified, step, cmd, auto>>

CreatePlanRollout(s) ==
  /\ pc[s] = "planRollout" /\ Goto(s, "planWait") /\ Start(s, "plan")
  /\ UNCHANGED <<release_vars, approvedBy, job, late, job_vars, notified, step, cmd,
                 auto, result>>

\* Mutant: a rollout that is under way will do.
AnyPlanRollout(s) ==
  /\ pc[s] = "planWait" /\ Goto(s, "planJob")
  /\ UNCHANGED <<release_vars, rollout_vars, job_vars, notified, step, cmd, auto, result>>

\* waitForPlanRollout: ten minutes, while the rollout is in progress.
WaitForPlanRollout(s) ==
  /\ pc[s] = "planWait"
  /\ \/ rollout[s]["plan"] = "succeeded" /\ Goto(s, "planJob") /\ UNCHANGED result
     \/ rollout[s]["plan"] # "succeeded" /\ Return(s, "error")
  /\ UNCHANGED <<release_vars, rollout_vars, job_vars, notified, step, cmd, auto>>

\* executeJob runs the job as it is defined now.
Execute(s, stage) ==
  /\ job[stage] # Nobody
  /\ execution' = [execution EXCEPT ![s][stage] = "running"]
  /\ ran' = [ran EXCEPT ![s][stage] = job[stage]]

ExecutePlan(s) ==
  /\ pc[s] = "planJob" /\ Execute(s, "plan") /\ Goto(s, "planning")
  /\ UNCHANGED <<release_vars, rollout_vars, found, notified, step, cmd, auto, result>>

PlanExecuted(s) ==
  /\ pc[s] = "planning" /\ execution[s]["plan"] # "running"
  /\ \/ execution[s]["plan"] = "succeeded" /\ Goto(s, "decide") /\ UNCHANGED result
     \/ execution[s]["plan"] = "failed" /\ Return(s, "error")
  /\ UNCHANGED <<release_vars, rollout_vars, job_vars, notified, step, cmd, auto>>

Manual(s) == ManualApproval(step, cmd[s])
Rejects(s) == RejectsPlans(step.approve, Manual(s))
\* getChanges reads the log of the session's own execution.
Changes(s) == found[s]

\* The release of a plan that is not to be applied is abandoned, if that works.
Decide(s) ==
  /\ pc[s] = "decide"
  /\ IF ShouldStop(Changes(s), step.approve, Manual(s))
     THEN Return(s, IF Rejects(s) THEN "error" ELSE "nil")
     ELSE Goto(s, "applyRollout") /\ UNCHANGED result
  /\ UNCHANGED <<release_vars, rollout_vars, job_vars, notified, step, cmd, auto>>

\* The apply target requires approval.
CreateApplyRollout(s) ==
  /\ pc[s] = "applyRollout" /\ Goto(s, "applyWait")
  /\ rollout' = [rollout EXCEPT ![s]["apply"] = "pendingApproval"]
  /\ UNCHANGED <<release_vars, approvedBy, job, late, job_vars, notified, step, cmd,
                 auto, result>>

\* ManualApproval, once.
Ask(s) == ~notified[s] /\ notified' = [notified EXCEPT ![s] = TRUE]

\* waitForApplyRollout, at a poll that finds the rollout pending approval.
PollPendingApproval(s) ==
  /\ pc[s] = "applyWait" /\ rollout[s]["apply"] = "pendingApproval"
  /\ IF ShouldApprove(Changes(s), step.approve, auto[s], Manual(s))
     THEN Goto(s, "approve") /\ UNCHANGED notified
     ELSE Ask(s) /\ UNCHANGED pc
  /\ UNCHANGED <<release_vars, rollout_vars, job_vars, step, cmd, auto, result>>

\* ApproveRollout: when it fails, the next poll tries again.
ApproveRollout(s) ==
  /\ pc[s] = "approve" /\ Goto(s, "applyWait")
  /\ Approve(s, "agent") \/ UNCHANGED <<rollout, approvedBy>>
  /\ UNCHANGED <<release_vars, job, late, job_vars, notified, step, cmd, auto, result>>

\* Who was asked is told that the rollout is approved, once.
Announce(s) ==
  IF notified[s] /\ approvedBy[s] # "nobody"
  THEN notified' = [notified EXCEPT ![s] = FALSE]
  ELSE UNCHANGED notified

\* A poll that finds it decided on.
PollApplyRollout(s) ==
  /\ pc[s] = "applyWait" /\ rollout[s]["apply"] # "pendingApproval" /\ Announce(s)
  /\ \/ rollout[s]["apply"] = "inProgress" /\ notified[s] /\ UNCHANGED <<pc, result>>
     \/ rollout[s]["apply"] = "succeeded" /\ Goto(s, "applyJob") /\ UNCHANGED result
     \/ rollout[s]["apply"] \notin {"inProgress", "succeeded"} /\ Return(s, "error")
  /\ UNCHANGED <<release_vars, rollout_vars, job_vars, step, cmd, auto>>

\* Mutant: the rollout is waited for without a limit.
WaitsForApproval(s) == FALSE /\ UNCHANGED vars

\* The hour is over. CancelRollout is called with the context that is over,
\* and never leaves the process: the rollout stays as it is.
ApplyTimesOut(s) ==
  /\ pc[s] = "applyWait" /\ Return(s, "error")
  /\ UNCHANGED <<release_vars, rollout_vars, job_vars, notified, step, cmd, auto>>

ExecuteApply(s) ==
  /\ pc[s] = "applyJob" /\ Execute(s, "apply") /\ Goto(s, "applying")
  /\ UNCHANGED <<release_vars, rollout_vars, found, notified, step, cmd, auto, result>>

ApplyExecuted(s) ==
  /\ pc[s] = "applying" /\ execution[s]["apply"] # "running"
  /\ Return(s, IF execution[s]["apply"] = "succeeded" THEN "nil" ELSE "error")
  /\ UNCHANGED <<release_vars, rollout_vars, job_vars, notified, step, cmd, auto>>

\* A call fails, the plan's output is not in the log, the context is cancelled
\* or the process is killed; what the session has begun goes on without it.
Fails(s) ==
  /\ pc[s] \notin {"idle", "over"} /\ Return(s, "error")
  /\ UNCHANGED <<release_vars, rollout_vars, job_vars, notified, step, cmd, auto>>
------------------------------------------------------------------------------
Session(s) ==
  \/ Begin(s) \/ PutBundle(s) \/ CreateDeliveryPipeline(s) \/ CreateRelease(s)
  \/ WaitForRender(s) \/ CreatePlanRollout(s) \/ WaitForPlanRollout(s)
  \/ ExecutePlan(s) \/ PlanExecuted(s) \/ Decide(s) \/ CreateApplyRollout(s)
  \/ PollPendingApproval(s) \/ ApproveRollout(s) \/ PollApplyRollout(s)
  \/ ApplyTimesOut(s) \/ ExecuteApply(s) \/ ApplyExecuted(s)

Cloud(s) == RenderEnds(s) \/ PendingStarts(s) \/ RolloutEnds(s) \/ JobEnds(s)

Finished == (\A s \in Sessions : Over(s)) /\ UNCHANGED vars

Next ==
  \/ \E s \in Sessions : Session(s) \/ Fails(s) \/ Cloud(s) \/ PersonDecides(s)
  \/ Finished

Spec == Init /\ [][Next]_vars

(***************************************************************************)
(* A session goes on, and its waits for renderings and rollouts are        *)
(* limited; an execution of a job ends after a day at the latest (its      *)
(* TimeoutSeconds). Nobody has to approve anything.                        *)
(***************************************************************************)
FairSpec ==
  /\ Spec
  /\ \A s \in Sessions : WF_vars(Session(s)) /\ SF_vars(ApplyTimesOut(s)) /\ WF_vars(JobEnds(s))
------------------------------------------------------------------------------
(***************************************************************************)
(* Properties                                                              *)
(***************************************************************************)
Promise == INSTANCE StepPipeline WITH
  Runs <- Sessions, NoPlan <- NoPlan,
  terms <- [s \in Sessions |-> [approve |-> step.approve, manual |-> Manual(s),
                                auto |-> auto[s]]],
  plan <- found,
  consent <- approvedBy,
  applied <- [s \in Sessions |->
               CASE execution[s]["apply"] = "none" -> "no"
                 [] execution[s]["apply"] = "succeeded" -> "done"
                 [] OTHER -> "begun"]

\* The pipeline is applied with consent only, the agent's own being what the
\* documentation allows for the plan of that session, and a session that
\* returns without an error has applied its plan or had nothing to apply
\* (WaitPipelineExecution implements StepPipeline).
KeepsPromise == Promise!Spec

\* A session ends, whatever becomes of its release, its rollouts and its
\* executions, and whether or not anybody approves (WaitPipelineExecution).
WaitEnds == \A s \in Sessions : pc[s] # "idle" ~> Over(s)
==============================================================================
