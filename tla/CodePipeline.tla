---------------------------- MODULE CodePipeline ----------------------------
(***************************************************************************)
(* The apply pipeline of a step at AWS, and the sessions of the agent that *)
(* create it, start executions of it, decide on their plans and wait for   *)
(* them to end (aws/pipeline.go, util/util.go).                            *)
(*                                                                         *)
(* Every call is a step of its own: what a session has read may be old     *)
(* when it acts on it. Executions are numbered in the order they start. A  *)
(* stage holds one execution, and one that comes to wait for a stage       *)
(* supersedes an older one that waits for it (AWS, the SUPERSEDED mode).   *)
(***************************************************************************)
EXTENDS Integers, FiniteSets, Approval

CONSTANTS
  Sessions,       \* the sessions of the agent that run the step
  MaxExecutions,  \* so many executions are started at most      (bound)
  Overlap,        \* a session may begin while another one runs
  Created,        \* may an earlier session have created the pipeline (the values of `exists`)
  StepApprovals,  \* the approval properties the step may have
  Plans           \* what a plan may find

ASSUME SizesAssumption ==
  Sessions # {} /\ MaxExecutions \in Nat \ {0} /\ Overlap \in BOOLEAN /\ Created \subseteq BOOLEAN

ASSUME StepAssumption == StepApprovals \subseteq StepProperties

ASSUME PlansAssumption == Plans \subseteq PipelineChanges

Executions == 1..MaxExecutions

VARIABLES
  exists,       \* the pipeline exists
  planEnabled,  \* the inbound transition of its Plan stage is enabled
  autoPending,  \* the execution AWS starts on its own is still to come
  started,      \* number of executions started
  place,        \* execution -> where it is or was when it ended
  outcome,      \* execution -> its status
  changes,      \* execution -> what its plan found
  approvedBy,   \* execution -> who approved it
  step,         \* the approval properties of the step
  pc,           \* session -> where it is
  cmd, auto,    \* session -> its command, and autoApprove for the step
  own,          \* session -> executionId, 0 before it has one
  status,       \* session -> approvalStatus
  target,       \* session -> the execution it is about to stop or approve
  asked,        \* session -> the ManualApproval messages it sent
  result        \* session -> what it returned

aws == <<exists, planEnabled, autoPending, started, place, outcome, changes, approvedBy>>
session == <<cmd, auto, own, status, target, asked, result>>
vars == <<aws, step, pc, session>>

\* In "source", "planned" and "approved" an execution waits for the next stage.
Places == {"source", "plan", "planned", "approve", "approved", "apply"}
Outcomes == {"InProgress", "Succeeded", "Failed", "Stopped", "Superseded"}

TypeOK ==
  /\ exists \in BOOLEAN /\ planEnabled \in BOOLEAN /\ autoPending \in BOOLEAN
  /\ started \in 0..MaxExecutions
  /\ place \in [Executions -> Places] /\ outcome \in [Executions -> Outcomes]
  /\ changes \in [Executions -> PipelineChanges]
  /\ approvedBy \in [Executions -> {"nobody", "human", "agent"}]
  /\ step \in StepApprovals
  /\ pc \in [Sessions -> {"idle", "create", "disable", "intercept", "stopAuto",
                          "enable", "start", "poll", "list", "previous",
                          "stopPrevious", "decide", "stop", "token", "put", "over"}]
  /\ cmd \in [Sessions -> {"run", "update"}] /\ auto \in [Sessions -> BOOLEAN]
  /\ own \in [Sessions -> 0..MaxExecutions] /\ target \in [Sessions -> 0..MaxExecutions]
  /\ status \in [Sessions -> {"none", "waiting", "approve", "approved"}]
  /\ asked \in [Sessions -> 0..2] /\ result \in [Sessions -> {"none", "nil", "error"}]
------------------------------------------------------------------------------
Init ==
  /\ exists \in Created /\ planEnabled = TRUE /\ autoPending = FALSE /\ started = 0
  /\ place = [e \in Executions |-> "source"]
  /\ outcome = [e \in Executions |-> "InProgress"]
  /\ changes = [e \in Executions |-> Nothing]
  /\ approvedBy = [e \in Executions |-> "nobody"]
  /\ step \in StepApprovals
  /\ pc = [s \in Sessions |-> "idle"]
  /\ cmd = [s \in Sessions |-> "run"] /\ auto = [s \in Sessions |-> FALSE]
  /\ own = [s \in Sessions |-> 0] /\ target = [s \in Sessions |-> 0]
  /\ status = [s \in Sessions |-> "none"]
  /\ asked = [s \in Sessions |-> 0] /\ result = [s \in Sessions |-> "none"]

Running(e) == e <= started /\ outcome[e] = "InProgress"
In(e, where) == Running(e) /\ place[e] = where
Occupied(stage) == \E e \in Executions : In(e, stage)
\* e comes to wait for the next stage, at where.
Wait(e, where) ==
  /\ place' = [place EXCEPT ![e] = where]
  /\ outcome' = [older \in Executions |->
                  IF older < e /\ In(older, where) THEN "Superseded" ELSE outcome[older]]

(***************************************************************************)
(* AWS and the people who approve there (external)                         *)
(***************************************************************************)
EnterStage(e) ==
  /\ \E to \in {"plan", "approve", "apply"} :
       /\ In(e, CASE to = "plan" -> "source" [] to = "approve" -> "planned" [] OTHER -> "approved")
       /\ to = "plan" => planEnabled
       /\ ~Occupied(to) /\ place' = [place EXCEPT ![e] = to]
  /\ UNCHANGED <<exists, planEnabled, autoPending, started, outcome, changes,
                 approvedBy, step, pc, session>>

PlanEnds(e) ==
  /\ In(e, "plan") /\ Wait(e, "planned")
  /\ \E found \in Plans : changes' = [changes EXCEPT ![e] = found]
  /\ UNCHANGED <<exists, planEnabled, autoPending, started, approvedBy, step, pc, session>>

ApplyEnds(e) ==
  /\ In(e, "apply") /\ outcome' = [outcome EXCEPT ![e] = "Succeeded"]
  /\ UNCHANGED <<exists, planEnabled, autoPending, started, place, changes,
                 approvedBy, step, pc, session>>

\* An action fails; an approval is rejected or, after an hour, times out.
StageFails(e) ==
  /\ Running(e) /\ place[e] \in {"plan", "approve", "apply"}
  /\ outcome' = [outcome EXCEPT ![e] = "Failed"]
  /\ UNCHANGED <<exists, planEnabled, autoPending, started, place, changes,
                 approvedBy, step, pc, session>>

Approve(e, who) == Wait(e, "approved") /\ approvedBy' = [approvedBy EXCEPT ![e] = who]

PersonApproves(e) ==
  /\ In(e, "approve") /\ Approve(e, "human")
  /\ UNCHANGED <<exists, planEnabled, autoPending, started, changes, step, pc, session>>

NewExecution == started < MaxExecutions /\ started' = started + 1 /\ Wait(started', "source")

\* A pipeline that has been created starts once on its own.
AutoStart ==
  /\ autoPending /\ NewExecution /\ autoPending' = FALSE
  /\ UNCHANGED <<exists, planEnabled, changes, approvedBy, step, pc, session>>
------------------------------------------------------------------------------
(***************************************************************************)
(* CreateApplyPipeline and StartPipelineExecution                          *)
(***************************************************************************)
Goto(s, where) == pc' = [pc EXCEPT ![s] = where]
Return(s, value) == Goto(s, "over") /\ result' = [result EXCEPT ![s] = value]

\* getPipeline: an existing pipeline is brought up to date and started.
Begin(s) ==
  /\ pc[s] = "idle"
  /\ Overlap \/ (~autoPending /\ \A other \in Sessions : pc[other] \in {"idle", "over"})
  /\ \E command \in {"run", "update"}, approves \in AutoApproves(step.approve) :
       cmd' = [cmd EXCEPT ![s] = command] /\ auto' = [auto EXCEPT ![s] = approves]
  /\ Goto(s, IF exists THEN "start" ELSE "create")
  /\ UNCHANGED <<aws, step, own, status, target, asked, result>>

\* CreatePipeline fails if another session was first.
CreateFails(s) ==
  /\ pc[s] = "create" /\ exists /\ Return(s, "error")
  /\ UNCHANGED <<aws, step, cmd, auto, own, status, target, asked>>

Create(s) ==
  /\ pc[s] = "create" /\ ~exists /\ Goto(s, "disable")
  /\ exists' = TRUE /\ autoPending' \in BOOLEAN
  /\ UNCHANGED <<planEnabled, started, place, outcome, changes, approvedBy, step, session>>

DisablePlan(s) ==
  /\ pc[s] = "disable" /\ Goto(s, "intercept") /\ planEnabled' = FALSE
  /\ UNCHANGED <<exists, autoPending, started, place, outcome, changes,
                 approvedBy, step, session>>

\* waitAndStopAutoExecution looks at the latest execution, until one runs or
\* its time is over. An automatic execution does not come later than that.
FindAutoExecution(s) ==
  /\ pc[s] = "intercept" /\ started > 0 /\ Running(started)
  /\ target' = [target EXCEPT ![s] = started] /\ Goto(s, "stopAuto")
  /\ UNCHANGED <<aws, step, cmd, auto, own, status, asked, result>>

NoAutoExecution(s) ==
  /\ pc[s] = "intercept" /\ ~autoPending /\ (started > 0 => ~Running(started))
  /\ Goto(s, "enable")
  /\ UNCHANGED <<aws, step, session>>

\* stopPipelineExecution: one that has ended cannot be stopped, which is fine.
StopExecution(e) ==
  /\ outcome' = IF Running(e) THEN [outcome EXCEPT ![e] = "Stopped"] ELSE outcome
  /\ UNCHANGED <<exists, planEnabled, autoPending, started, place, changes, approvedBy>>

StopAutoExecution(s) ==
  /\ pc[s] = "stopAuto" /\ StopExecution(target[s]) /\ Goto(s, "enable")
  /\ target' = [target EXCEPT ![s] = 0]
  /\ UNCHANGED <<step, cmd, auto, own, status, asked, result>>

\* Mutant: the transition stays disabled.
KeepsPlanDisabled(s) ==
  /\ pc[s] = "enable" /\ Goto(s, "start") /\ UNCHANGED <<aws, step, session>>

EnablePlan(s) ==
  /\ pc[s] = "enable" /\ Goto(s, "start") /\ planEnabled' = TRUE
  /\ UNCHANGED <<exists, autoPending, started, place, outcome, changes,
                 approvedBy, step, session>>

Start(s) ==
  /\ pc[s] = "start" /\ NewExecution /\ Goto(s, "poll")
  /\ own' = [own EXCEPT ![s] = started']
  /\ UNCHANGED <<exists, planEnabled, autoPending, changes, approvedBy, step, cmd,
                 auto, status, target, asked, result>>
------------------------------------------------------------------------------
(***************************************************************************)
(* WaitPipelineExecution                                                   *)
(***************************************************************************)
\* Mutant: an execution that is over has been applied.
ReturnsWhenOver(s) == Return(s, "nil")

\* getExecutionResult
ExecutionResult(s) ==
  Return(s, IF outcome[own[s]] = "Succeeded" THEN "nil" ELSE "error")

\* GetPipelineExecution, at every tick until the execution has ended. An
\* approved one needs nothing else.
Poll(s) ==
  /\ pc[s] = "poll"
  /\ IF ~Running(own[s]) THEN ExecutionResult(s)
     ELSE status[s] # "approved" /\ Goto(s, "list") /\ UNCHANGED result
  /\ UNCHANGED <<aws, step, cmd, auto, own, status, target, asked>>

\* ListActionExecutions: is the plan done, has the approval been decided on?
Approval(s) == place[own[s]]
ApprovalGiven(s) == Approval(s) \in {"approved", "apply"}

List(s) ==
  /\ pc[s] = "list"
  /\ UNCHANGED <<aws, step, cmd, auto, own, target, asked, result>>
  /\ \/ Approval(s) = "planned" /\ Goto(s, "previous") /\ UNCHANGED status
     \/ ApprovalGiven(s) /\ Goto(s, "poll") /\ status' = [status EXCEPT ![s] = "approved"]
     \/ /\ In(own[s], "approve") /\ UNCHANGED status
        /\ Goto(s, CASE status[s] = "waiting" -> "poll"
                     [] status[s] = "approve" -> "token"
                     [] OTHER -> "decide")
     \/ /\ Approval(s) \in {"source", "plan"} \/ (Approval(s) = "approve" /\ ~Running(own[s]))
        /\ Goto(s, "poll") /\ UNCHANGED status

\* Mutant: whatever holds the stage is stopped.
FindAnyExecution(s) ==
  /\ pc[s] = "previous"
  /\ \/ \E e \in Executions :
          /\ e # own[s] /\ In(e, "approve")
          /\ target' = [target EXCEPT ![s] = e] /\ Goto(s, "stopPrevious")
     \/ ~Occupied("approve") /\ Goto(s, "poll") /\ UNCHANGED target
  /\ UNCHANGED <<aws, step, cmd, auto, own, status, asked, result>>

\* stopPreviousExecution: the stage is held by another execution, and the own
\* one is what waits to enter it.
FindPreviousExecution(s) ==
  /\ pc[s] = "previous"
  /\ \/ \E e \in Executions :
          /\ In(own[s], "planned") /\ In(e, "approve")
          /\ target' = [target EXCEPT ![s] = e] /\ Goto(s, "stopPrevious")
     \/ /\ ~In(own[s], "planned") \/ ~Occupied("approve")
        /\ Goto(s, "poll") /\ UNCHANGED target
  /\ UNCHANGED <<aws, step, cmd, auto, own, status, asked, result>>

\* A previous execution that cannot be stopped is only warned of.
StopPreviousExecution(s) ==
  /\ pc[s] = "stopPrevious" /\ Goto(s, "poll")
  /\ StopExecution(target[s]) \/ UNCHANGED aws
  /\ target' = [target EXCEPT ![s] = 0]
  /\ UNCHANGED <<step, cmd, auto, own, status, asked, result>>

Manual(s) == ManualApproval(step, cmd[s])
Rejects(s) == RejectsPlans(step.approve, Manual(s))

\* processChanges, on the plan of the own execution.
Decide(s) ==
  /\ pc[s] = "decide"
  /\ LET found == changes[own[s]]
     IN IF ShouldStop(found, step.approve, Manual(s))
        THEN Goto(s, "stop") /\ UNCHANGED <<status, asked>>
        ELSE IF ShouldApprove(found, step.approve, auto[s], Manual(s))
        THEN Goto(s, "token") /\ UNCHANGED <<status, asked>>
        ELSE /\ Goto(s, "poll") /\ status' = [status EXCEPT ![s] = "waiting"]
             /\ asked' = [asked EXCEPT ![s] = @ + 1]
  /\ UNCHANGED <<aws, step, cmd, auto, own, target, result>>

StopPipeline(s) ==
  /\ pc[s] = "stop" /\ Return(s, IF Rejects(s) THEN "error" ELSE "nil")
  /\ StopExecution(own[s]) \/ UNCHANGED aws
  /\ UNCHANGED <<step, cmd, auto, own, status, target, asked>>

\* getApprovalToken: of the execution that is in the stage now, if it is there.
Token(s) ==
  /\ pc[s] = "token"
  /\ \/ /\ Goto(s, "poll") /\ status' = [status EXCEPT ![s] = "approve"]
        /\ UNCHANGED target
     \/ \E e \in Executions :
          /\ In(e, "approve") /\ target' = [target EXCEPT ![s] = e]
          /\ Goto(s, "put") /\ UNCHANGED status
  /\ UNCHANGED <<aws, step, cmd, auto, own, asked, result>>

\* PutApprovalResult: a token is good for as long as its execution waits.
PutApproval(s) ==
  /\ pc[s] = "put" /\ Goto(s, "poll")
  /\ \/ /\ In(target[s], "approve") /\ Approve(target[s], "agent")
        /\ status' = [status EXCEPT ![s] = "approved"]
     \/ /\ UNCHANGED <<place, outcome, approvedBy>>
        /\ status' = [status EXCEPT ![s] = "approve"]
  /\ target' = [target EXCEPT ![s] = 0]
  /\ UNCHANGED <<exists, planEnabled, autoPending, started, changes, step, cmd,
                 auto, own, asked, result>>

\* A call fails, the context is cancelled or the process is killed. Whatever
\* the session has begun at AWS goes on without it.
Fails(s) ==
  /\ pc[s] \notin {"idle", "over"} /\ Return(s, "error")
  /\ status' = [status EXCEPT ![s] = "none"] /\ target' = [target EXCEPT ![s] = 0]
  /\ UNCHANGED <<aws, step, cmd, auto, own, asked>>
------------------------------------------------------------------------------
Session(s) ==
  \/ Begin(s) \/ Create(s) \/ CreateFails(s) \/ DisablePlan(s)
  \/ FindAutoExecution(s) \/ NoAutoExecution(s) \/ StopAutoExecution(s)
  \/ EnablePlan(s) \/ Start(s)
  \/ Poll(s) \/ List(s) \/ FindPreviousExecution(s) \/ StopPreviousExecution(s)
  \/ Decide(s) \/ StopPipeline(s) \/ Token(s) \/ PutApproval(s)

Execute(e) == EnterStage(e) \/ PlanEnds(e) \/ ApplyEnds(e) \/ StageFails(e)

Finished == (\A s \in Sessions : pc[s] = "over") /\ UNCHANGED vars

Next ==
  \/ \E s \in Sessions : Session(s) \/ Fails(s)
  \/ \E e \in Executions : Execute(e) \/ PersonApproves(e)
  \/ AutoStart \/ Finished

Spec == Init /\ [][Next]_vars

(***************************************************************************)
(* Sessions go on; every stage ends an execution or lets it go on, an      *)
(* approval after an hour at the latest. Nobody has to approve anything.   *)
(***************************************************************************)
FairSpec ==
  /\ Spec /\ WF_vars(AutoStart)
  /\ \A s \in Sessions : WF_vars(Session(s))
  /\ \A e \in Executions : WF_vars(Execute(e))
------------------------------------------------------------------------------
(***************************************************************************)
(* Properties                                                              *)
(***************************************************************************)
\* The agent approves no execution but those of its sessions, and none of a
\* plan a person has to approve or that has nothing to apply (processChanges,
\* getApprovalToken).
ApprovedAsDocumented ==
  \A e \in Executions : approvedBy[e] = "agent" =>
    \E s \in Sessions :
      /\ own[s] = e /\ ~changes[e].noChanges
      /\ ~NeedsPerson(changes[e], step.approve, auto[s], Manual(s))

\* A session that reports success has applied its plan, or it had nothing to
\* apply: not an older plan, nor one that was stopped or superseded
\* (WaitPipelineExecution, getExecutionResult).
ResultIsTrue ==
  \A s \in Sessions : result[s] = "nil" =>
    own[s] # 0 /\ (outcome[own[s]] = "Succeeded" \/ changes[own[s]].noChanges)

\* One message asks for one approval, however long it takes
\* (processStateStages).
AskedOnce == \A s \in Sessions : asked[s] <= 1

\* A session that has an execution stops no newer one, whichever it finds in
\* the stage (stopPreviousExecution, stopPipeline).
StopsNoNewer ==
  [][\A s \in Sessions, e \in Executions :
       /\ own[s] # 0 /\ pc'[s] # pc[s]
       /\ outcome[e] # "Stopped" /\ outcome'[e] = "Stopped"
       => e <= own[s]]_vars

\* A session that ended before its execution was started may have left the
\* transition to the plan disabled: nothing enables it again.
Stranded == ~planEnabled /\ \E s \in Sessions : pc[s] = "over" /\ own[s] = 0

\* The model has no execution left for the session to start.
BeyondBound(s) == pc[s] = "start" /\ started = MaxExecutions

\* A session ends, whatever becomes of its execution, unless an earlier one was
\* interrupted while it created the pipeline (WaitPipelineExecution has no time
\* limit of its own).
WaitEnds ==
  \A s \in Sessions :
    pc[s] # "idle" ~> (pc[s] = "over" \/ Stranded \/ BeyondBound(s))
==============================================================================
