------------------------- MODULE CodePipeline_proofs -------------------------
(***************************************************************************)
(* Theorems about CodePipeline, for any number of sessions and executions, *)
(* sessions that overlap or not, and whatever a plan may find.             *)
(***************************************************************************)
EXTENDS CodePipeline, TLAPS

(***************************************************************************)
(* Executions                                                              *)
(***************************************************************************)
ExecutionsOK ==
  /\ exists \in BOOLEAN /\ planEnabled \in BOOLEAN /\ autoPending \in BOOLEAN
  /\ started \in 0..MaxExecutions
  /\ place \in [Executions -> Places] /\ outcome \in [Executions -> Outcomes]
  /\ changes \in [Executions -> PipelineChanges]
  /\ approvedBy \in [Executions -> {"nobody", "human", "agent"}]

Planned(e) == place[e] \notin {"source", "plan"}

\* What is never taken back of an execution that has been started.
Progress ==
  /\ started <= started'
  /\ \A e \in 1..started :
       /\ Planned(e) => Planned(e)' /\ changes'[e] = changes[e]
       /\ outcome[e] = "Succeeded" => outcome'[e] = "Succeeded"

LEMMA WaitOK ==
  ASSUME ExecutionsOK, NEW e \in Nat, NEW where \in Places, Wait(e, where)
  PROVE  /\ place' \in [Executions -> Places] /\ outcome' \in [Executions -> Outcomes]
         /\ \A d \in Executions : d # e => place'[d] = place[d]
         /\ e \in Executions => place'[e] = where
         /\ \A d \in Executions : outcome[d] = "Succeeded" => outcome'[d] = "Succeeded"
BY DEF Wait, ExecutionsOK, In, Running, Outcomes

LEMMA StopOK ==
  ASSUME ExecutionsOK, NEW e, StopExecution(e)
  PROVE  ExecutionsOK' /\ Progress
<1>1. /\ outcome' \in [Executions -> Outcomes]
      /\ \A d \in Executions : outcome[d] = "Succeeded" => outcome'[d] = "Succeeded"
  BY DEF StopExecution, ExecutionsOK, Running, Outcomes
<1>2. UNCHANGED <<exists, planEnabled, autoPending, started, place, changes, approvedBy>>
  BY DEF StopExecution
<1>3. 1..started \subseteq Executions /\ started <= started'
  BY <1>2, SizesAssumption DEF ExecutionsOK, Executions
<1>4. Progress
  BY <1>1, <1>2, <1>3 DEF Progress, Planned
<1> QED BY <1>1, <1>2, <1>4 DEF ExecutionsOK

LEMMA UnchangedOK ==
  ASSUME ExecutionsOK,
         UNCHANGED <<started, place, outcome, changes, approvedBy>>,
         exists' \in BOOLEAN, planEnabled' \in BOOLEAN, autoPending' \in BOOLEAN
  PROVE  ExecutionsOK' /\ Progress
<1>1. started <= started'
  BY SizesAssumption DEF ExecutionsOK
<1> QED BY <1>1 DEF ExecutionsOK, Progress, Planned

LEMMA NewExecutionOK ==
  ASSUME ExecutionsOK, NewExecution,
         UNCHANGED <<exists, planEnabled, changes, approvedBy>>, autoPending' \in BOOLEAN
  PROVE  ExecutionsOK' /\ Progress /\ started' \in 1..MaxExecutions
<1>1. started' = started + 1 /\ started' \in 1..MaxExecutions /\ started <= started'
  BY SizesAssumption DEF NewExecution, ExecutionsOK
<1>2. "source" \in Places /\ started' \in Nat
  BY <1>1, SizesAssumption DEF Places
<1>3. Wait(started', "source")
  BY DEF NewExecution
<1>4. /\ place' \in [Executions -> Places] /\ outcome' \in [Executions -> Outcomes]
      /\ \A d \in Executions : d # started' => place'[d] = place[d]
      /\ \A d \in Executions : outcome[d] = "Succeeded" => outcome'[d] = "Succeeded"
  BY <1>2, <1>3, WaitOK
<1>5. \A d \in 1..started : d \in Executions /\ d # started'
  BY <1>1, SizesAssumption DEF ExecutionsOK, Executions
<1> QED BY <1>1, <1>4, <1>5, SizesAssumption DEF ExecutionsOK, Progress, Planned

LEMMA ApproveOK ==
  ASSUME ExecutionsOK, NEW e \in 0..MaxExecutions, NEW who \in {"human", "agent"},
         Approve(e, who), UNCHANGED <<exists, planEnabled, autoPending, started, changes>>
  PROVE  ExecutionsOK' /\ Progress
<1>1. e \in Nat /\ "approved" \in Places /\ Wait(e, "approved")
  BY SizesAssumption DEF Executions, Places, Approve
<1>2. /\ place' \in [Executions -> Places] /\ outcome' \in [Executions -> Outcomes]
      /\ \A d \in Executions : d # e => place'[d] = place[d]
      /\ e \in Executions => place'[e] = "approved"
      /\ \A d \in Executions : outcome[d] = "Succeeded" => outcome'[d] = "Succeeded"
  BY <1>1, WaitOK
<1>3. approvedBy' \in [Executions -> {"nobody", "human", "agent"}]
  BY DEF Approve, ExecutionsOK
<1>4. 1..started \subseteq Executions /\ started <= started'
  BY SizesAssumption DEF ExecutionsOK, Executions
<1>5. \A d \in 1..started : Planned(d) => Planned(d)'
  BY <1>2, <1>4 DEF Planned
<1>6. Progress
  BY <1>2, <1>4, <1>5 DEF Progress
<1> QED BY <1>2, <1>3, <1>6 DEF ExecutionsOK

LEMMA ExecuteOK ==
  ASSUME ExecutionsOK, NEW e \in Executions, Execute(e)
  PROVE  ExecutionsOK' /\ Progress
<1>1. UNCHANGED <<exists, planEnabled, autoPending, started, approvedBy>>
  BY DEF Execute, EnterStage, PlanEnds, ApplyEnds, StageFails
<1>2. e \in Nat /\ 1..started \subseteq Executions /\ started <= started'
  BY <1>1, SizesAssumption DEF ExecutionsOK, Executions
<1>3. CASE EnterStage(e)
  <2>1. PICK to \in {"plan", "approve", "apply"} :
          /\ In(e, CASE to = "plan" -> "source" [] to = "approve" -> "planned" [] OTHER -> "approved")
          /\ place' = [place EXCEPT ![e] = to]
    BY <1>3 DEF EnterStage
  <2>2. place' \in [Executions -> Places] /\ UNCHANGED <<outcome, changes>>
    BY <1>3, <2>1 DEF EnterStage, ExecutionsOK, Places
  <2>3. Planned(e) => Planned(e)'
    BY <2>1 DEF In, Planned, ExecutionsOK
  <2>4. \A d \in 1..started : Planned(d) => Planned(d)'
    BY <2>1, <2>3, <1>2 DEF Planned, ExecutionsOK
  <2> QED BY <1>1, <1>2, <2>2, <2>4 DEF ExecutionsOK, Progress
<1>4. CASE PlanEnds(e)
  <2>1. "planned" \in Places /\ Wait(e, "planned") /\ ~Planned(e)
    BY <1>4 DEF PlanEnds, Places, In, Planned
  <2>2. /\ place' \in [Executions -> Places] /\ outcome' \in [Executions -> Outcomes]
        /\ \A d \in Executions : d # e => place'[d] = place[d]
        /\ \A d \in Executions : outcome[d] = "Succeeded" => outcome'[d] = "Succeeded"
    BY <1>2, <2>1, WaitOK
  <2>3. PICK found \in Plans : changes' = [changes EXCEPT ![e] = found]
    BY <1>4 DEF PlanEnds
  <2>4. changes' \in [Executions -> PipelineChanges]
    BY <2>3, PlansAssumption DEF ExecutionsOK
  <2>5. \A d \in 1..started : Planned(d) => Planned(d)' /\ changes'[d] = changes[d]
    BY <1>2, <2>1, <2>2, <2>3 DEF Planned, ExecutionsOK
  <2> QED BY <1>1, <1>2, <2>2, <2>4, <2>5 DEF ExecutionsOK, Progress
<1>5. CASE ApplyEnds(e) \/ StageFails(e)
  <2>1. UNCHANGED <<place, changes>> /\ outcome' \in [Executions -> Outcomes]
    BY <1>5 DEF ApplyEnds, StageFails, ExecutionsOK, Outcomes
  <2>2. \A d \in Executions : outcome[d] = "Succeeded" => outcome'[d] = "Succeeded"
    BY <1>5 DEF ApplyEnds, StageFails, ExecutionsOK, In, Running
  <2> QED BY <1>1, <1>2, <2>1, <2>2 DEF ExecutionsOK, Progress, Planned
<1> QED BY <1>3, <1>4, <1>5 DEF Execute
------------------------------------------------------------------------------
(***************************************************************************)
(* Steps of a session, as the executions see them                          *)
(***************************************************************************)
LEMMA SessionExecutionsOK ==
  ASSUME ExecutionsOK, target \in [Sessions -> 0..MaxExecutions],
         NEW s \in Sessions, Session(s) \/ Fails(s)
  PROVE  ExecutionsOK' /\ Progress
<1>1. CASE Begin(s) \/ CreateFails(s) \/ FindAutoExecution(s) \/ NoAutoExecution(s)
        \/ Poll(s) \/ List(s) \/ FindPreviousExecution(s) \/ Decide(s) \/ Token(s) \/ Fails(s)
  <2>1. UNCHANGED aws
    BY <1>1 DEF Begin, CreateFails, FindAutoExecution, NoAutoExecution, Poll, List,
                FindPreviousExecution, Decide, Token, Fails
  <2> QED BY <2>1, UnchangedOK DEF aws, ExecutionsOK
<1>2. CASE Create(s) \/ DisablePlan(s) \/ EnablePlan(s)
  <2>1. /\ UNCHANGED <<started, place, outcome, changes, approvedBy>>
        /\ exists' \in BOOLEAN /\ planEnabled' \in BOOLEAN /\ autoPending' \in BOOLEAN
    BY <1>2 DEF Create, DisablePlan, EnablePlan, ExecutionsOK
  <2> QED BY <2>1, UnchangedOK
<1>3. CASE StopAutoExecution(s)
  BY <1>3, StopOK DEF StopAutoExecution
<1>4. CASE StopPreviousExecution(s) \/ StopPipeline(s)
  <2>1. StopExecution(target[s]) \/ StopExecution(own[s]) \/ UNCHANGED aws
    BY <1>4 DEF StopPreviousExecution, StopPipeline
  <2>2. CASE UNCHANGED aws
    BY <2>2, UnchangedOK DEF aws, ExecutionsOK
  <2> QED BY <2>1, <2>2, StopOK
<1>5. CASE Start(s)
  <2>1. NewExecution /\ UNCHANGED <<exists, planEnabled, autoPending, changes, approvedBy>>
    BY <1>5 DEF Start
  <2> QED BY <2>1, NewExecutionOK DEF ExecutionsOK
<1>6. CASE PutApproval(s)
  <2>1. UNCHANGED <<exists, planEnabled, autoPending, started, changes>>
    BY <1>6 DEF PutApproval
  <2>2. CASE In(target[s], "approve") /\ Approve(target[s], "agent")
    BY <2>1, <2>2, ApproveOK
  <2>3. CASE UNCHANGED <<place, outcome, approvedBy>>
    BY <2>1, <2>3, UnchangedOK DEF ExecutionsOK
  <2> QED BY <1>6, <2>2, <2>3 DEF PutApproval
<1> QED BY <1>1, <1>2, <1>3, <1>4, <1>5, <1>6 DEF Session

\* The session takes a step, or nothing of it changes.
LEMMA NextCases ==
  ASSUME ExecutionsOK, target \in [Sessions -> 0..MaxExecutions], [Next]_vars
  PROVE  /\ ExecutionsOK' /\ Progress /\ UNCHANGED step
         /\ \/ \E s \in Sessions : Session(s) \/ Fails(s)
            \/ UNCHANGED <<pc, session>>
<1>1. CASE \E s \in Sessions : Session(s) \/ Fails(s)
  <2>1. PICK s \in Sessions : Session(s) \/ Fails(s)
    BY <1>1
  <2>2. UNCHANGED step
    BY <2>1 DEF Session, Begin, Create, CreateFails, DisablePlan, FindAutoExecution,
                NoAutoExecution, StopAutoExecution, EnablePlan, Start, Poll, List,
                FindPreviousExecution, StopPreviousExecution, Decide, StopPipeline,
                Token, PutApproval, Fails
  <2> QED BY <1>1, <2>1, <2>2, SessionExecutionsOK
<1>2. ASSUME NEW e \in Executions, Execute(e) \/ PersonApproves(e)
      PROVE  ExecutionsOK' /\ Progress /\ UNCHANGED <<step, pc, session>>
  <2>1. CASE Execute(e)
    <3>1. UNCHANGED <<step, pc, session>>
      BY <2>1 DEF Execute, EnterStage, PlanEnds, ApplyEnds, StageFails
    <3> QED BY <2>1, <3>1, ExecuteOK
  <2>2. CASE PersonApproves(e)
    <3>1. e \in 0..MaxExecutions
      BY SizesAssumption DEF Executions
    <3> QED BY <2>2, <3>1, ApproveOK DEF PersonApproves
  <2> QED BY <1>2, <2>1, <2>2
<1>3. CASE AutoStart
  BY <1>3, NewExecutionOK DEF AutoStart
<1>4. CASE UNCHANGED vars
  BY <1>4, UnchangedOK DEF vars, aws, ExecutionsOK
<1> QED BY <1>1, <1>2, <1>3, <1>4 DEF Next, Finished
------------------------------------------------------------------------------
(***************************************************************************)
(* Sessions                                                                *)
(***************************************************************************)
Points == {"idle", "create", "disable", "intercept", "stopAuto", "enable", "start",
           "poll", "list", "previous", "stopPrevious", "decide", "stop", "token",
           "put", "over"}
Waiting == {"poll", "list", "previous", "stopPrevious", "decide", "stop", "token", "put"}
Statuses == {"none", "waiting", "approve", "approved"}

SessionsOK ==
  /\ step \in StepApprovals /\ pc \in [Sessions -> Points]
  /\ cmd \in [Sessions -> {"run", "update"}] /\ auto \in [Sessions -> BOOLEAN]
  /\ own \in [Sessions -> 0..MaxExecutions] /\ target \in [Sessions -> 0..MaxExecutions]
  /\ status \in [Sessions -> Statuses]
  /\ asked \in [Sessions -> 0..1] /\ result \in [Sessions -> {"none", "nil", "error"}]

\* A person has been asked only in a session that has not decided otherwise,
\* and one that has been asked is not asked to decide again.
AskInv(s) ==
  /\ asked[s] = 1 => pc[s] = "over" \/ status[s] \in {"waiting", "approved"}
  /\ pc[s] = "list" => status[s] # "approved"
  /\ pc[s] = "decide" => status[s] = "none"
  /\ pc[s] \in {"token", "put", "stop"} => status[s] \in {"none", "approve"}

\* A session waits for an execution of its own, decides on its plan when there
\* is one, and stops it without an error only if there is nothing to apply.
OwnInv(s) ==
  /\ own[s] <= started
  /\ pc[s] \in Waiting => own[s] # 0
  /\ pc[s] \in {"decide", "stop"} => Planned(own[s])
  /\ pc[s] = "stop" /\ ~Rejects(s) => changes[own[s]].noChanges
  /\ result[s] = "nil" =>
       /\ pc[s] = "over" /\ own[s] # 0
       /\ outcome[own[s]] = "Succeeded" \/ (Planned(own[s]) /\ changes[own[s]].noChanges)

SessionInv == \A s \in Sessions : AskInv(s) /\ OwnInv(s)
IInv == ExecutionsOK /\ SessionsOK /\ SessionInv

LEMMA InitIInv == Init => IInv
<1> SUFFICES ASSUME Init PROVE IInv
  OBVIOUS
<1>1. ExecutionsOK
  <2>1. exists \in BOOLEAN /\ planEnabled \in BOOLEAN /\ autoPending \in BOOLEAN
    BY SizesAssumption, Zenon DEF Init
  <2>2. started \in 0..MaxExecutions
    BY SizesAssumption DEF Init
  <2>3. place \in [Executions -> Places] /\ outcome \in [Executions -> Outcomes]
    BY DEF Init, Places, Outcomes
  <2>4. Nothing \in PipelineChanges
    BY DEF Nothing, PipelineChanges
  <2>5. /\ changes \in [Executions -> PipelineChanges]
        /\ approvedBy \in [Executions -> {"nobody", "human", "agent"}]
    BY <2>4 DEF Init
  <2> QED BY <2>1, <2>2, <2>3, <2>5 DEF ExecutionsOK
<1>2. SessionsOK
  BY SizesAssumption DEF Init, SessionsOK, Points, Statuses
<1>3. SessionInv
  BY SizesAssumption DEF Init, SessionInv, AskInv, OwnInv, Waiting
<1> QED BY <1>1, <1>2, <1>3 DEF IInv

LEMMA SessionsStep ==
  ASSUME IInv, NEW s \in Sessions, Session(s) \/ Fails(s)
  PROVE  /\ SessionsOK'
         /\ \A other \in Sessions \ {s} :
              UNCHANGED <<pc[other], cmd[other], own[other], status[other],
                          asked[other], result[other]>>
<1> USE DEF SessionsOK, Points, Goto, Return
<1> SessionsOK /\ AskInv(s)
  BY DEF IInv, SessionInv
<1>1. CASE Begin(s)
  <2>1. AutoApproves(step.approve) \subseteq BOOLEAN
    BY Zenon DEF AutoApproves
  <2>2. PICK command \in {"run", "update"}, approves \in BOOLEAN :
          cmd' = [cmd EXCEPT ![s] = command] /\ auto' = [auto EXCEPT ![s] = approves]
    BY <1>1, <2>1 DEF Begin
  <2>3. auto' \in [Sessions -> BOOLEAN]
    BY <2>2
  <2>4. pc' = [pc EXCEPT ![s] = "start"] \/ pc' = [pc EXCEPT ![s] = "create"]
    BY <1>1 DEF Begin
  <2>5. UNCHANGED <<aws, step, own, status, target, asked, result>>
    BY <1>1 DEF Begin
  <2> QED BY <2>2, <2>3, <2>4, <2>5
<1>2. CASE CreateFails(s) \/ Create(s) \/ DisablePlan(s) \/ NoAutoExecution(s) \/ EnablePlan(s)
  BY <1>2 DEF CreateFails, Create, DisablePlan, NoAutoExecution, EnablePlan, session
<1>3. CASE FindAutoExecution(s) \/ StopAutoExecution(s)
  BY <1>3, SizesAssumption
     DEF FindAutoExecution, StopAutoExecution, IInv, ExecutionsOK
<1>4. CASE Start(s)
  <2>1. started' \in 0..MaxExecutions
    BY <1>4, SizesAssumption DEF Start, NewExecution, IInv, ExecutionsOK
  <2> QED BY <1>4, <2>1 DEF Start
<1>5. CASE Poll(s) \/ StopPipeline(s)
  BY <1>5 DEF Poll, StopPipeline, ExecutionResult
<1>6. CASE List(s)
  <2>1. PICK where \in {"previous", "poll", "token", "decide"} : Goto(s, where)
    BY <1>6, Zenon DEF List
  <2>2. UNCHANGED <<aws, step, cmd, auto, own, target, asked, result>>
    BY <1>6 DEF List
  <2>3. status' = status \/ status' = [status EXCEPT ![s] = "approved"]
    BY <1>6 DEF List
  <2> QED BY <2>1, <2>2, <2>3 DEF Statuses
<1>7. CASE FindPreviousExecution(s) \/ StopPreviousExecution(s)
  BY <1>7, SizesAssumption DEF FindPreviousExecution, StopPreviousExecution, Executions
<1>8. CASE Decide(s)
  <2>1. asked[s] = 0
    BY <1>8 DEF Decide, AskInv
  <2>2. asked' = asked \/ asked' = [asked EXCEPT ![s] = 1]
    BY <1>8, <2>1 DEF Decide
  <2>3. PICK where \in {"stop", "poll", "token"} : Goto(s, where)
    BY <1>8 DEF Decide
  <2>4. status' = status \/ status' = [status EXCEPT ![s] = "waiting"]
    BY <1>8 DEF Decide
  <2>5. UNCHANGED <<aws, step, cmd, auto, own, target, result>>
    BY <1>8 DEF Decide
  <2> QED BY <2>2, <2>3, <2>4, <2>5 DEF Statuses
<1>9. CASE Token(s) \/ PutApproval(s)
  BY <1>9, SizesAssumption DEF Token, PutApproval, Statuses, Executions
<1>10. CASE Fails(s)
  BY <1>10, SizesAssumption DEF Fails, Statuses
<1> QED BY <1>1, <1>2, <1>3, <1>4, <1>5, <1>6, <1>7, <1>8, <1>9, <1>10 DEF Session

LEMMA AskStep ==
  ASSUME IInv, NEW s \in Sessions, Session(s) \/ Fails(s)
  PROVE  AskInv(s)'
<1> USE DEF Goto, Return
<1>0. SessionsOK /\ AskInv(s)
  BY DEF IInv, SessionInv
<1>1. CASE Begin(s) \/ CreateFails(s) \/ Create(s) \/ DisablePlan(s) \/ FindAutoExecution(s)
        \/ NoAutoExecution(s) \/ StopAutoExecution(s) \/ EnablePlan(s) \/ Start(s)
  BY <1>0, <1>1
     DEF Begin, CreateFails, Create, DisablePlan, FindAutoExecution, NoAutoExecution,
         StopAutoExecution, EnablePlan, Start, SessionsOK, AskInv, session
<1>2. CASE Poll(s) \/ FindPreviousExecution(s) \/ StopPreviousExecution(s) \/ StopPipeline(s)
  BY <1>0, <1>2
     DEF Poll, FindPreviousExecution, StopPreviousExecution, StopPipeline,
         ExecutionResult, SessionsOK, AskInv
<1>3. CASE List(s)
  <2>1. /\ UNCHANGED asked /\ pc[s] = "list" /\ status[s] # "approved"
    BY <1>0, <1>3 DEF List, AskInv
  <2>2. CASE /\ UNCHANGED status /\ status[s] \notin {"waiting", "approve"}
             /\ pc' = [pc EXCEPT ![s] = "decide"]
    BY <1>0, <2>1, <2>2 DEF SessionsOK, AskInv, Statuses
  <2>3. CASE UNCHANGED status /\ status[s] = "approve" /\ pc' = [pc EXCEPT ![s] = "token"]
    BY <1>0, <2>1, <2>3 DEF SessionsOK, AskInv
  <2>4. CASE pc' = [pc EXCEPT ![s] = "poll"] \/ pc' = [pc EXCEPT ![s] = "previous"]
    <3>1. status' = status \/ status' = [status EXCEPT ![s] = "approved"]
      BY <1>3 DEF List
    <3> QED BY <1>0, <2>1, <2>4, <3>1 DEF SessionsOK, AskInv
  <2> QED BY <1>3, <2>2, <2>3, <2>4, Zenon DEF List
<1>4. CASE Decide(s)
  <2>1. pc[s] = "decide" /\ status[s] = "none" /\ asked[s] = 0
    BY <1>0, <1>4 DEF Decide, AskInv, SessionsOK
  <2>2. CASE UNCHANGED <<status, asked>>
    <3>1. pc' = [pc EXCEPT ![s] = "stop"] \/ pc' = [pc EXCEPT ![s] = "token"]
            \/ pc' = [pc EXCEPT ![s] = "poll"]
      BY <1>4 DEF Decide
    <3> QED BY <1>0, <2>1, <2>2, <3>1 DEF SessionsOK, AskInv
  <2>3. CASE pc' = [pc EXCEPT ![s] = "poll"] /\ status' = [status EXCEPT ![s] = "waiting"]
    BY <1>0, <2>1, <2>3 DEF SessionsOK, AskInv
  <2> QED BY <1>4, <2>2, <2>3 DEF Decide
<1>5. CASE Token(s) \/ PutApproval(s)
  BY <1>0, <1>5 DEF Token, PutApproval, SessionsOK, AskInv
<1>6. CASE Fails(s)
  BY <1>0, <1>6 DEF Fails, SessionsOK, AskInv
<1> QED BY <1>1, <1>2, <1>3, <1>4, <1>5, <1>6 DEF Session

\* What a session knows of its execution stays true while others act.
LEMMA OwnKept ==
  ASSUME IInv, ExecutionsOK', Progress, NEW s \in Sessions,
         UNCHANGED <<step, pc[s], cmd[s], own[s], result[s]>>
  PROVE  OwnInv(s)'
<1>1. OwnInv(s) /\ own[s] \in Nat /\ started \in Nat /\ started' \in Nat
  BY SizesAssumption DEF IInv, SessionInv, SessionsOK, ExecutionsOK
<1>2. own'[s] <= started'
  BY <1>1 DEF Progress, OwnInv
<1>3. CASE own[s] = 0
  BY <1>1, <1>2, <1>3 DEF OwnInv, Waiting
<1>4. CASE own[s] # 0
  <2>1. own[s] \in 1..started
    BY <1>1, <1>4 DEF OwnInv
  <2>2. /\ Planned(own[s]) => Planned(own[s])' /\ changes'[own[s]] = changes[own[s]]
        /\ outcome[own[s]] = "Succeeded" => outcome'[own[s]] = "Succeeded"
    BY <2>1 DEF Progress, Planned
  <2>3. Rejects(s)' <=> Rejects(s)
    BY DEF Rejects, Manual
  <2> QED BY <1>1, <1>2, <1>4, <2>2, <2>3 DEF OwnInv, Planned
<1> QED BY <1>3, <1>4

LEMMA OwnStep ==
  ASSUME IInv, ExecutionsOK', Progress, UNCHANGED step,
         NEW s \in Sessions, Session(s) \/ Fails(s)
  PROVE  OwnInv(s)'
<1> USE DEF Goto, Return
<1>1. /\ SessionsOK /\ OwnInv(s) /\ own[s] \in 0..MaxExecutions
      /\ started \in Nat /\ started' \in Nat /\ started <= started'
  BY SizesAssumption DEF IInv, SessionInv, SessionsOK, ExecutionsOK, Progress
<1>2. own[s] # 0 =>
        /\ Planned(own[s]) => place'[own[s]] \notin {"source", "plan"} /\ changes'[own[s]] = changes[own[s]]
        /\ outcome[own[s]] = "Succeeded" => outcome'[own[s]] = "Succeeded"
  <2>1. own[s] # 0 => own[s] \in 1..started
    BY <1>1 DEF OwnInv
  <2> QED BY <2>1 DEF Progress, Planned
<1>3. own[s] <= started'
  BY <1>1 DEF OwnInv
<1>4. CASE Begin(s) \/ CreateFails(s) \/ Create(s) \/ DisablePlan(s) \/ FindAutoExecution(s)
        \/ NoAutoExecution(s) \/ StopAutoExecution(s) \/ EnablePlan(s)
  <2>1. UNCHANGED own /\ pc'[s] \notin Waiting /\ result'[s] # "nil"
    BY <1>1, <1>4
       DEF Begin, CreateFails, Create, DisablePlan, FindAutoExecution, NoAutoExecution,
           StopAutoExecution, EnablePlan, SessionsOK, OwnInv, Waiting, session
  <2> QED BY <1>1, <1>3, <2>1 DEF OwnInv, Waiting
<1>5. CASE Start(s)
  <2>1. own'[s] = started' /\ started' # 0 /\ pc'[s] = "poll" /\ result'[s] # "nil"
    BY <1>1, <1>5 DEF Start, NewExecution, SessionsOK, OwnInv
  <2> QED BY <1>1, <2>1 DEF OwnInv
<1>6. CASE Poll(s)
  <2>1. own[s] # 0 /\ UNCHANGED own /\ result[s] # "nil"
    BY <1>1, <1>6 DEF Poll, OwnInv, Waiting
  <2>2. pc'[s] \in {"over", "list"} /\ (result'[s] = "nil" => pc'[s] = "over")
    BY <1>1, <1>6, <2>1 DEF Poll, ExecutionResult, SessionsOK
  <2>3. result'[s] = "nil" => outcome[own[s]] = "Succeeded"
    BY <1>1, <1>6, <2>1 DEF Poll, ExecutionResult, SessionsOK
  <2> QED BY <1>2, <1>3, <2>1, <2>2, <2>3 DEF OwnInv
<1>7. CASE List(s)
  <2>1. own[s] # 0 /\ UNCHANGED <<own, result>> /\ result[s] # "nil"
    BY <1>1, <1>7 DEF List, OwnInv, Waiting
  <2>2. CASE In(own[s], "approve")
    <3>1. Planned(own[s])'
      BY <1>2, <2>1, <2>2 DEF In, Planned
    <3>2. pc'[s] \in {"previous", "poll", "token", "decide"}
      BY <1>1, <1>7, Zenon DEF List, SessionsOK
    <3> QED BY <1>3, <2>1, <3>1, <3>2 DEF OwnInv
  <2>3. CASE ~In(own[s], "approve")
    <3>1. pc'[s] \in {"previous", "poll"}
      BY <1>1, <1>7, <2>3 DEF List, SessionsOK
    <3> QED BY <1>3, <2>1, <3>1 DEF OwnInv
  <2> QED BY <2>2, <2>3
<1>8. CASE FindPreviousExecution(s) \/ StopPreviousExecution(s) \/ Token(s) \/ PutApproval(s)
  <2>1. own[s] # 0 /\ UNCHANGED <<own, result>> /\ result[s] # "nil"
    BY <1>1, <1>8
       DEF FindPreviousExecution, StopPreviousExecution, Token, PutApproval, OwnInv, Waiting
  <2>2. pc'[s] \in {"poll", "stopPrevious", "put"}
    BY <1>1, <1>8
       DEF FindPreviousExecution, StopPreviousExecution, Token, PutApproval, SessionsOK
  <2> QED BY <1>3, <2>1, <2>2 DEF OwnInv
<1>9. CASE Decide(s)
  <2>1. /\ own[s] # 0 /\ Planned(own[s]) /\ UNCHANGED <<own, result, cmd>>
        /\ result[s] # "nil"
    BY <1>1, <1>9 DEF Decide, OwnInv, Waiting
  <2>2. pc'[s] \in {"stop", "token", "poll"}
    BY <1>1, <1>9 DEF Decide, SessionsOK
  <2>3. pc'[s] = "stop" => ShouldStop(changes[own[s]], step.approve, Manual(s))
    BY <1>1, <1>9 DEF Decide, SessionsOK
  <2>4. pc'[s] = "stop" /\ ~Rejects(s) => changes[own[s]].noChanges
    BY <2>3 DEF ShouldStop, Rejects, RejectsPlans
  <2>5. Rejects(s)' <=> Rejects(s)
    BY <2>1 DEF Rejects, Manual
  <2> QED BY <1>2, <1>3, <2>1, <2>2, <2>4, <2>5 DEF OwnInv, Planned
<1>10. CASE StopPipeline(s)
  <2>1. own[s] # 0 /\ Planned(own[s]) /\ UNCHANGED own /\ pc'[s] = "over"
    BY <1>1, <1>10 DEF StopPipeline, OwnInv, Waiting, SessionsOK
  <2>2. result'[s] = "nil" => changes[own[s]].noChanges
    BY <1>1, <1>10 DEF StopPipeline, OwnInv, SessionsOK
  <2> QED BY <1>2, <1>3, <2>1, <2>2 DEF OwnInv, Waiting, Planned
<1>11. CASE Fails(s)
  <2>1. UNCHANGED own /\ pc'[s] = "over" /\ result'[s] = "error"
    BY <1>1, <1>11 DEF Fails, SessionsOK
  <2> QED BY <1>3, <2>1 DEF OwnInv, Waiting
<1> QED BY <1>4, <1>5, <1>6, <1>7, <1>8, <1>9, <1>10, <1>11 DEF Session

LEMMA NextIInv == IInv /\ [Next]_vars => IInv'
<1> SUFFICES ASSUME IInv, [Next]_vars PROVE IInv'
  OBVIOUS
<1>1. /\ ExecutionsOK' /\ Progress /\ UNCHANGED step
      /\ \/ \E s \in Sessions : Session(s) \/ Fails(s)
         \/ UNCHANGED <<pc, session>>
  BY NextCases DEF IInv, SessionsOK
<1>2. CASE \E s \in Sessions : Session(s) \/ Fails(s)
  <2>1. PICK s \in Sessions : Session(s) \/ Fails(s)
    BY <1>2
  <2>2. /\ SessionsOK'
        /\ \A other \in Sessions \ {s} :
             UNCHANGED <<pc[other], cmd[other], own[other], status[other],
                         asked[other], result[other]>>
    BY <2>1, SessionsStep
  <2>3. AskInv(s)' /\ OwnInv(s)'
    BY <1>1, <2>1, AskStep, OwnStep
  <2>4. \A other \in Sessions \ {s} : AskInv(other)' /\ OwnInv(other)'
    <3> SUFFICES ASSUME NEW other \in Sessions \ {s}
                 PROVE  AskInv(other)' /\ OwnInv(other)'
      OBVIOUS
    <3>1. AskInv(other)'
      BY <2>2 DEF IInv, SessionInv, AskInv
    <3>2. OwnInv(other)'
      BY <1>1, <2>2, OwnKept
    <3> QED BY <3>1, <3>2
  <2> QED BY <1>1, <2>2, <2>3, <2>4 DEF IInv, SessionInv
<1>3. CASE UNCHANGED <<pc, session>>
  <2>1. SessionsOK'
    BY <1>1, <1>3 DEF IInv, SessionsOK, session
  <2>2. \A s \in Sessions : AskInv(s)'
    BY <1>3 DEF IInv, SessionInv, AskInv, session
  <2>3. \A s \in Sessions : OwnInv(s)'
    BY <1>1, <1>3, OwnKept DEF session
  <2> QED BY <1>1, <2>1, <2>2, <2>3 DEF IInv, SessionInv
<1> QED BY <1>1, <1>2, <1>3

LEMMA Invariance == Spec => []IInv
BY InitIInv, NextIInv, PTL DEF Spec

\* The types are invariant.
THEOREM TypeCorrect == Spec => []TypeOK
<1>1. IInv => TypeOK
  <2>1. asked \in [Sessions -> 0..1] => asked \in [Sessions -> 0..2]
    OBVIOUS
  <2> QED BY <2>1 DEF IInv, ExecutionsOK, SessionsOK, TypeOK, Points, Statuses
<1> QED BY <1>1, Invariance, PTL

\* In every session at most one message asks for an approval
\* (processStateStages).
THEOREM AsksOnce == Spec => []AskedOnce
<1>1. IInv => AskedOnce
  BY DEF IInv, SessionsOK, AskedOnce
<1> QED BY <1>1, Invariance, PTL

\* Success of a session is success of its own execution, or a plan with nothing
\* to apply, whatever other sessions do to the pipeline
\* (WaitPipelineExecution, getExecutionResult, stopPipeline).
THEOREM ResultCorrect == Spec => []ResultIsTrue
<1>1. IInv => ResultIsTrue
  BY DEF IInv, SessionInv, OwnInv, ResultIsTrue
<1> QED BY <1>1, Invariance, PTL
------------------------------------------------------------------------------
(***************************************************************************)
(* The order of the executions                                             *)
(***************************************************************************)
RankOf(where) ==
  IF where = "source" THEN 0 ELSE IF where = "plan" THEN 1
  ELSE IF where = "planned" THEN 2 ELSE IF where = "approve" THEN 3
  ELSE IF where = "approved" THEN 4 ELSE 5
Rank(e) == RankOf(place[e])

\* An execution that runs is ahead of all that were started after it.
Queued == \A d, e \in Executions : d < e /\ e <= started /\ Running(d) => Rank(e) < Rank(d)

\* What a step may do to the executions.
Rests == UNCHANGED <<started, place>> /\ \A d \in Executions : Running(d)' => Running(d)
Proceeds(e) ==
  \E from, to \in Places :
    /\ In(e, from) /\ RankOf(to) = RankOf(from) + 1
    /\ started' = started /\ place' = [place EXCEPT ![e] = to]
    /\ \A d \in Executions : Running(d)' => Running(d) /\ ~(d < e /\ In(d, to))

LEMMA WaitMoves ==
  ASSUME ExecutionsOK, NEW e \in Executions, NEW from \in Places, NEW to \in Places,
         In(e, from), RankOf(to) = RankOf(from) + 1, Wait(e, to), started' = started
  PROVE  Proceeds(e)
BY DEF Wait, Proceeds, Running, In, ExecutionsOK, Outcomes

LEMMA Moves ==
  ASSUME ExecutionsOK, target \in [Sessions -> 0..MaxExecutions], [Next]_vars
  PROVE  Rests \/ (\E e \in Executions : Proceeds(e)) \/ NewExecution
<1>1. ASSUME UNCHANGED <<started, place, outcome>> PROVE Rests
  BY <1>1 DEF Rests, Running
<1>2. ASSUME NEW e, StopExecution(e) PROVE Rests
  <2>1. UNCHANGED <<started, place>>
    BY <1>2 DEF StopExecution
  <2>2. \A d \in Executions : outcome'[d] = "InProgress" => outcome[d] = "InProgress"
    BY <1>2 DEF StopExecution, ExecutionsOK, Running
  <2> QED BY <2>1, <2>2 DEF Rests, Running
<1>3. ASSUME NEW e \in 0..MaxExecutions, NEW who, In(e, "approve"), Approve(e, who), started' = started
      PROVE  Rests \/ \E d \in Executions : Proceeds(d)
  <2>1. CASE e \in Executions
    BY <1>3, <2>1, WaitMoves DEF Approve, Places, RankOf
  <2>2. CASE e \notin Executions
    <3>1. e = 0
      BY <2>2, SizesAssumption DEF Executions
    <3>2. place' = place /\ outcome' = outcome
      BY <1>3, <3>1 DEF Approve, Wait, ExecutionsOK, Executions
    <3> QED BY <1>1, <1>3, <3>2
  <2> QED BY <2>1, <2>2
<1>4. ASSUME NEW e \in Executions, Execute(e)
      PROVE  Rests \/ Proceeds(e)
  <2>1. CASE EnterStage(e)
    <3>1. PICK to \in {"plan", "approve", "apply"} :
            /\ In(e, CASE to = "plan" -> "source" [] to = "approve" -> "planned" [] OTHER -> "approved")
            /\ ~Occupied(to) /\ place' = [place EXCEPT ![e] = to]
      BY <2>1 DEF EnterStage
    <3>2. UNCHANGED <<started, outcome>>
      BY <2>1 DEF EnterStage
    <3>3. PICK from \in Places : In(e, from) /\ RankOf(to) = RankOf(from) + 1
      BY <3>1 DEF Places, RankOf
    <3> QED BY <3>1, <3>2, <3>3 DEF Proceeds, Occupied, Running, Places
  <2>2. CASE PlanEnds(e)
    BY <2>2, WaitMoves DEF PlanEnds, Places, RankOf
  <2>3. CASE ApplyEnds(e) \/ StageFails(e)
    BY <2>3 DEF ApplyEnds, StageFails, Rests, Running, ExecutionsOK
  <2> QED BY <1>4, <2>1, <2>2, <2>3 DEF Execute
<1>5. CASE \E s \in Sessions : Session(s) \/ Fails(s)
  <2>1. PICK s \in Sessions : Session(s) \/ Fails(s)
    BY <1>5
  <2>2. CASE Begin(s) \/ CreateFails(s) \/ FindAutoExecution(s) \/ NoAutoExecution(s)
          \/ Poll(s) \/ List(s) \/ FindPreviousExecution(s) \/ Decide(s) \/ Token(s) \/ Fails(s)
          \/ Create(s) \/ DisablePlan(s) \/ EnablePlan(s)
    <3>1. UNCHANGED <<started, place, outcome>>
      BY <2>2 DEF Begin, CreateFails, FindAutoExecution, NoAutoExecution, Poll, List,
                  FindPreviousExecution, Decide, Token, Fails, Create, DisablePlan, EnablePlan, aws
    <3> QED BY <1>1, <3>1
  <2>3. CASE StopAutoExecution(s) \/ StopPreviousExecution(s) \/ StopPipeline(s)
    BY <1>1, <1>2, <2>3 DEF StopAutoExecution, StopPreviousExecution, StopPipeline, aws
  <2>4. CASE Start(s)
    BY <2>4 DEF Start
  <2>5. CASE PutApproval(s)
    BY <1>1, <1>3, <2>5 DEF PutApproval
  <2> QED BY <2>1, <2>2, <2>3, <2>4, <2>5 DEF Session
<1>6. ASSUME NEW e \in Executions, PersonApproves(e)
      PROVE  Rests \/ \E d \in Executions : Proceeds(d)
  <2>1. e \in 0..MaxExecutions
    BY SizesAssumption DEF Executions
  <2> QED BY <1>3, <1>6, <2>1 DEF PersonApproves
<1>7. CASE AutoStart
  BY <1>7 DEF AutoStart
<1>8. CASE UNCHANGED vars
  BY <1>1, <1>8 DEF vars, aws
<1> QED BY <1>4, <1>5, <1>6, <1>7, <1>8 DEF Next, Finished

LEMMA Started ==
  ASSUME ExecutionsOK, NewExecution
  PROVE  /\ started \in Nat /\ started' = started + 1 /\ started' \in Executions
         /\ place' = [place EXCEPT ![started'] = "source"]
         /\ \A d \in Executions : d <= started /\ outcome'[d] = "InProgress" =>
              outcome[d] = "InProgress" /\ place[d] # "source"
BY SizesAssumption DEF NewExecution, Wait, In, Running, ExecutionsOK, Executions, Outcomes

LEMMA QueueKept ==
  ASSUME IInv, Queued, [Next]_vars
  PROVE  Queued' /\ \A e \in 1..started : Rank(e) <= Rank(e)'
<1>t. /\ ExecutionsOK /\ target \in [Sessions -> 0..MaxExecutions] /\ started \in Nat
      /\ \A e \in Executions : place[e] \in Places
      /\ 1..started \subseteq Executions /\ Executions \subseteq Nat
  BY SizesAssumption DEF IInv, SessionsOK, ExecutionsOK, Executions
<1>r. \A p, q \in Places : RankOf(p) \in 0..5 /\ (RankOf(p) = RankOf(q) => p = q)
  BY DEF Places, RankOf
<1>1. CASE Rests
  BY <1>t, <1>r, <1>1 DEF Rests, Queued, Rank
<1>2. ASSUME NEW e \in Executions, Proceeds(e)
      PROVE  Queued' /\ \A f \in 1..started : Rank(f) <= Rank(f)'
  <2>1. PICK from, to \in Places :
          /\ In(e, from) /\ RankOf(to) = RankOf(from) + 1
          /\ started' = started /\ place' = [place EXCEPT ![e] = to]
          /\ \A d \in Executions : Running(d)' => Running(d) /\ ~(d < e /\ In(d, to))
    BY <1>2 DEF Proceeds
  <2>2. \A f \in Executions : Rank(f)' = IF f = e THEN Rank(e) + 1 ELSE Rank(f)
    BY <1>t, <2>1 DEF Rank, In, ExecutionsOK
  <2>3. \A f \in Executions : Rank(f) \in 0..5
    BY <1>t, <1>r DEF Rank
  <2>4. \A d \in Executions : Running(d)' /\ d < e => Rank(d) # Rank(e) + 1
    BY <1>t, <1>r, <2>1 DEF Rank, In
  <2>5. \A f \in 1..started : Rank(f) <= Rank(f)'
    BY <1>t, <2>2, <2>3
  <2>6. ASSUME NEW d \in Executions, NEW f \in Executions, d < f, f <= started, Running(d)'
        PROVE  Rank(f)' < Rank(d)'
    <3>1. Rank(f) < Rank(d)
      BY <2>1, <2>6 DEF Queued
    <3>2. CASE f = e
      BY <2>2, <2>3, <2>4, <2>6, <3>1, <3>2, <1>t
    <3>3. CASE f # e
      BY <2>2, <2>3, <3>1, <3>3
    <3> QED BY <3>2, <3>3
  <2> QED BY <2>1, <2>5, <2>6 DEF Queued
<1>3. CASE NewExecution
  <2>1. /\ started' = started + 1 /\ started' \in Executions
        /\ place' = [place EXCEPT ![started'] = "source"]
        /\ \A d \in Executions : d <= started /\ outcome'[d] = "InProgress" =>
             outcome[d] = "InProgress" /\ place[d] # "source"
    BY <1>t, <1>3, Started
  <2>2. \A f \in Executions : Rank(f)' = IF f = started' THEN 0 ELSE Rank(f)
    BY <1>t, <2>1 DEF Rank, RankOf, ExecutionsOK
  <2>3. \A f \in Executions : Rank(f) \in 0..5 /\ (Rank(f) = 0 => place[f] = "source")
    BY <1>t, <1>r DEF Rank, RankOf, Places
  <2>4. \A f \in 1..started : Rank(f) <= Rank(f)'
    BY <1>t, <2>1, <2>2, <2>3
  <2>5. ASSUME NEW d \in Executions, NEW f \in Executions, d < f, f <= started', Running(d)'
        PROVE  Rank(f)' < Rank(d)'
    <3>1. d <= started /\ d # started'
      BY <1>t, <2>1, <2>5
    <3>2. Running(d) /\ place[d] # "source" /\ Rank(d)' = Rank(d)
      BY <2>1, <2>2, <2>5, <3>1 DEF Running
    <3>3. CASE f = started'
      BY <2>2, <2>3, <3>2, <3>3
    <3>4. CASE f # started'
      <4>1. f <= started
        BY <1>t, <2>1, <2>5, <3>4
      <4> QED BY <2>2, <2>5, <3>2, <3>4, <4>1 DEF Queued
    <3> QED BY <3>3, <3>4
  <2> QED BY <2>4, <2>5 DEF Queued
<1> QED BY <1>t, <1>1, <1>2, <1>3, Moves

(***************************************************************************)
(* What a session stops                                                    *)
(***************************************************************************)
Beginning == {"idle", "create", "disable", "intercept", "stopAuto", "enable", "start"}
StopInv(s) ==
  /\ pc[s] \in Beginning => own[s] = 0
  /\ pc[s] = "stopPrevious" => target[s] < own[s]
\* autoApprove is what the properties of the step let it be.
BegunInv(s) == pc[s] # "idle" => auto[s] \in AutoApproves(step.approve)
OrderInv == Queued /\ \A s \in Sessions : StopInv(s) /\ BegunInv(s)

\* A session that has an execution keeps it, and all that it was begun with.
LEMMA Others ==
  ASSUME IInv, [Next]_vars, NEW s \in Sessions
  PROVE  \/ Session(s) \/ Fails(s)
         \/ UNCHANGED <<pc[s], cmd[s], auto[s], own[s], status[s], target[s]>>
<1>1. CASE \E t \in Sessions : Session(t) \/ Fails(t)
  <2>1. PICK t \in Sessions : Session(t) \/ Fails(t)
    BY <1>1
  <2>2. CASE t = s
    BY <2>1, <2>2
  <2>3. CASE t # s
    <3> USE DEF Goto, Return, IInv, SessionsOK
    <3>1. CASE Begin(t)
      BY <2>3, <3>1 DEF Begin
    <3>2. CASE Create(t) \/ CreateFails(t) \/ DisablePlan(t) \/ FindAutoExecution(t) \/ NoAutoExecution(t)
            \/ StopAutoExecution(t) \/ EnablePlan(t) \/ Start(t)
      BY <2>3, <3>2 DEF Create, CreateFails, DisablePlan, FindAutoExecution, NoAutoExecution,
                        StopAutoExecution, EnablePlan, Start, session
    <3>3. CASE Poll(t) \/ List(t) \/ FindPreviousExecution(t) \/ StopPreviousExecution(t)
      BY <2>3, <3>3 DEF Poll, ExecutionResult, List, FindPreviousExecution, StopPreviousExecution
    <3>4. CASE Decide(t) \/ StopPipeline(t) \/ Token(t) \/ PutApproval(t) \/ Fails(t)
      BY <2>3, <3>4 DEF Decide, StopPipeline, Token, PutApproval, Fails
    <3> QED BY <2>1, <3>1, <3>2, <3>3, <3>4 DEF Session
  <2> QED BY <2>2, <2>3
<1>2. CASE ~\E t \in Sessions : Session(t) \/ Fails(t)
  BY <1>2, NextCases DEF IInv, SessionsOK, session
<1> QED BY <1>1, <1>2

LEMMA OwnStays ==
  ASSUME IInv, [Next]_vars, NEW s \in Sessions, StopInv(s), own[s] # 0
  PROVE  UNCHANGED <<own[s], cmd[s], auto[s], step>>
<1> USE DEF IInv, SessionsOK, Goto, Return
<1>0. UNCHANGED step
  BY NextCases
<1>1. CASE Begin(s) \/ Start(s) \/ Create(s) \/ DisablePlan(s) \/ EnablePlan(s)
        \/ CreateFails(s) \/ FindAutoExecution(s) \/ NoAutoExecution(s) \/ StopAutoExecution(s)
  BY <1>1 DEF Begin, Start, Create, DisablePlan, EnablePlan, CreateFails, FindAutoExecution,
              NoAutoExecution, StopAutoExecution, StopInv, Beginning
<1>2. CASE Poll(s) \/ List(s) \/ FindPreviousExecution(s) \/ StopPreviousExecution(s)
        \/ Decide(s) \/ StopPipeline(s) \/ Token(s) \/ PutApproval(s) \/ Fails(s)
  BY <1>0, <1>2 DEF Poll, List, FindPreviousExecution, StopPreviousExecution, Decide, StopPipeline, Token,
              PutApproval, Fails
<1> QED BY <1>0, <1>1, <1>2, Others DEF Session

LEMMA StopKept ==
  ASSUME IInv, OrderInv, [Next]_vars, NEW s \in Sessions
  PROVE  StopInv(s)'
<1> USE DEF Goto, Return
<1>0. /\ SessionsOK /\ StopInv(s) /\ own[s] \in Nat /\ started \in Nat
      /\ (pc[s] \in Waiting => own[s] \in 1..started)
  BY SizesAssumption DEF IInv, OrderInv, SessionsOK, SessionInv, OwnInv, ExecutionsOK
<1>1. CASE Begin(s) \/ Create(s) \/ CreateFails(s) \/ DisablePlan(s) \/ FindAutoExecution(s)
        \/ NoAutoExecution(s) \/ StopAutoExecution(s) \/ EnablePlan(s)
  <2>1. UNCHANGED own /\ own[s] = 0
    BY <1>0, <1>1 DEF Begin, Create, CreateFails, DisablePlan, FindAutoExecution, NoAutoExecution,
                StopAutoExecution, EnablePlan, StopInv, Beginning, session
  <2>2. pc'[s] # "stopPrevious"
    BY <1>0, <1>1 DEF Begin, Create, CreateFails, DisablePlan, FindAutoExecution, NoAutoExecution,
                StopAutoExecution, EnablePlan, SessionsOK
  <2> QED BY <2>1, <2>2 DEF StopInv
<1>2. CASE Start(s) \/ Poll(s) \/ List(s) \/ StopPreviousExecution(s)
        \/ Decide(s) \/ StopPipeline(s) \/ Token(s) \/ PutApproval(s) \/ Fails(s)
  <2>1. pc'[s] \notin Beginning \cup {"stopPrevious"}
    <3>1. CASE Start(s) \/ Poll(s) \/ StopPreviousExecution(s) \/ StopPipeline(s) \/ Fails(s)
      BY <1>0, <3>1 DEF Start, Poll, ExecutionResult, StopPreviousExecution, StopPipeline, Fails,
                        SessionsOK, Beginning
    <3>2. CASE List(s)
      <4>1. PICK where \in {"previous", "poll", "token", "decide"} : Goto(s, where)
        BY <3>2, Zenon DEF List
      <4> QED BY <1>0, <4>1 DEF SessionsOK, Beginning
    <3>3. CASE Decide(s) \/ Token(s) \/ PutApproval(s)
      BY <1>0, <3>3 DEF Decide, Token, PutApproval, SessionsOK, Beginning
    <3> QED BY <1>2, <3>1, <3>2, <3>3
  <2> QED BY <2>1 DEF StopInv
<1>3. CASE FindPreviousExecution(s)
  <2>1. pc[s] = "previous" /\ own[s] \in 1..started /\ UNCHANGED own
    BY <1>0, <1>3 DEF FindPreviousExecution, Waiting
  <2>2. CASE pc'[s] = "poll"
    BY <2>2 DEF StopInv, Beginning
  <2>3. CASE pc'[s] # "poll"
    <3>1. PICK e \in Executions :
            In(own[s], "planned") /\ In(e, "approve") /\ target'[s] = e /\ pc'[s] = "stopPrevious"
      BY <1>0, <1>3, <2>3 DEF FindPreviousExecution, SessionsOK
    <3>2. e \in Nat /\ own[s] \in Executions /\ e <= started
      BY <2>1, <3>1, SizesAssumption DEF Executions, IInv, ExecutionsOK, In, Running
    <3>3. ~(own[s] < e) /\ own[s] # e
      BY <2>1, <3>1, <3>2 DEF OrderInv, Queued, Rank, RankOf, In
    <3> QED BY <2>1, <3>1, <3>2, <3>3 DEF StopInv, Beginning
  <2> QED BY <2>2, <2>3
<1>4. CASE UNCHANGED <<pc[s], cmd[s], auto[s], own[s], status[s], target[s]>>
  BY <1>0, <1>4 DEF StopInv
<1> QED BY <1>1, <1>2, <1>3, <1>4, Others DEF Session

LEMMA BegunKept ==
  ASSUME IInv, OrderInv, [Next]_vars, NEW s \in Sessions
  PROVE  BegunInv(s)'
<1> USE DEF Goto, Return
<1>0. SessionsOK /\ BegunInv(s) /\ UNCHANGED step
  BY NextCases DEF IInv, OrderInv, SessionsOK
<1>1. CASE Begin(s)
  <2>1. PICK approves \in AutoApproves(step.approve) : auto' = [auto EXCEPT ![s] = approves]
    BY <1>1, Zenon DEF Begin
  <2>2. auto'[s] = approves
    BY <1>0, <2>1, Zenon DEF SessionsOK
  <2> QED BY <1>0, <2>1, <2>2, Zenon DEF BegunInv
<1>2. CASE ~Begin(s) /\ (Session(s) \/ Fails(s))
  <2>1. pc[s] # "idle"
    BY <1>2 DEF Session, Create, CreateFails, DisablePlan, FindAutoExecution, NoAutoExecution,
       StopAutoExecution, EnablePlan, Start, Poll, List, FindPreviousExecution, StopPreviousExecution,
       Decide, StopPipeline, Token, PutApproval, Fails
  <2>2. UNCHANGED auto
    BY <1>2 DEF Session, Create, CreateFails, DisablePlan, FindAutoExecution, NoAutoExecution,
       StopAutoExecution, EnablePlan, Start, Poll, List, FindPreviousExecution, StopPreviousExecution,
       Decide, StopPipeline, Token, PutApproval, Fails, session
  <2> QED BY <1>0, <2>1, <2>2, Zenon DEF BegunInv
<1>3. CASE UNCHANGED <<pc[s], cmd[s], auto[s], own[s], status[s], target[s]>>
  <2>1. UNCHANGED pc[s] /\ UNCHANGED auto[s]
    BY <1>3
  <2> QED BY <1>0, <2>1, Zenon DEF BegunInv
<1> QED BY <1>1, <1>2, <1>3, Others

LEMMA OrderKept == IInv /\ OrderInv /\ [Next]_vars => OrderInv'
BY QueueKept, StopKept, BegunKept DEF OrderInv

\* No execution that runs has been overtaken by a later one, as the mode of the
\* pipelines, SUPERSEDED, has it; a session has no execution before it starts
\* one, and what it is about to stop for its own is an older one.
THEOREM Ordered == Spec => []OrderInv
<1>1. Init => OrderInv
  BY SizesAssumption DEF Init, OrderInv, Queued, StopInv, BegunInv, Running, Executions, Beginning
<1> QED BY <1>1, OrderKept, Invariance, PTL DEF Spec

\* A session that has an execution stops no newer one, also when it finds the
\* approval stage held by one of another session (stopPreviousExecution,
\* stopPipeline).
THEOREM NoNewerStopped == Spec => StopsNoNewer
<1>1. ASSUME IInv, OrderInv, [Next]_vars, NEW s \in Sessions, NEW e \in Executions,
             own[s] # 0, pc'[s] # pc[s], outcome[e] # "Stopped", outcome'[e] = "Stopped"
      PROVE  e <= own[s]
  <2>0. /\ SessionsOK /\ ExecutionsOK /\ StopInv(s) /\ own[s] \in Nat /\ e \in Nat
        /\ pc[s] \notin Beginning
    BY <1>1, SizesAssumption DEF IInv, OrderInv, SessionsOK, StopInv, Executions
  <2>1. Session(s) \/ Fails(s)
    BY <1>1, Others
  <2>2. ASSUME NEW d, StopExecution(d) PROVE e = d
    BY <1>1, <2>0, <2>2 DEF StopExecution, ExecutionsOK
  <2>3. CASE StopPreviousExecution(s)
    BY <1>1, <2>0, <2>2, <2>3 DEF StopPreviousExecution, StopInv, aws, SessionsOK
  <2>4. CASE StopPipeline(s)
    BY <1>1, <2>0, <2>2, <2>4 DEF StopPipeline, aws
  <2>5. CASE PutApproval(s)
    BY <1>1, <2>0, <2>5 DEF PutApproval, Approve, Wait
  <2>6. CASE Poll(s) \/ List(s) \/ FindPreviousExecution(s) \/ Decide(s) \/ Token(s) \/ Fails(s)
    BY <1>1, <2>6 DEF Poll, List, FindPreviousExecution, Decide, Token, Fails, aws
  <2>7. pc[s] \in Beginning \/ StopPreviousExecution(s) \/ StopPipeline(s) \/ PutApproval(s) \/ Poll(s)
          \/ List(s) \/ FindPreviousExecution(s) \/ Decide(s) \/ Token(s) \/ Fails(s)
    BY <2>1 DEF Session, Begin, Create, CreateFails, DisablePlan, FindAutoExecution, NoAutoExecution,
                StopAutoExecution, EnablePlan, Start, Beginning
  <2> QED BY <2>0, <2>3, <2>4, <2>5, <2>6, <2>7
<1>2. IInv /\ OrderInv /\ [Next]_vars =>
        [\A s \in Sessions, e \in Executions :
           /\ own[s] # 0 /\ pc'[s] # pc[s]
           /\ outcome[e] # "Stopped" /\ outcome'[e] = "Stopped"
           => e <= own[s]]_vars
  BY <1>1
<1> QED BY <1>2, Invariance, Ordered, PTL DEF Spec, StopsNoNewer
------------------------------------------------------------------------------
(***************************************************************************)
(* Sessions one after the other                                            *)
(***************************************************************************)
Active(s) == pc[s] \notin {"idle", "over"}
AloneInv ==
  /\ ~exists => started = 0 /\ ~autoPending
  /\ \A s, t \in Sessions : Active(s) /\ Active(t) => s = t
  /\ \A s \in Sessions :
       /\ pc[s] = "create" => ~exists
       /\ pc[s] \in {"disable", "intercept"} => exists /\ (started = 0 \/ ~autoPending)
       /\ pc[s] \in {"stopAuto", "enable", "start"} \cup Waiting => exists /\ ~autoPending
       /\ pc[s] \in Waiting => own[s] = started

\* What happens while no session acts.
LEMMA Unattended ==
  ASSUME IInv, Next, ~\E s \in Sessions : Session(s) \/ Fails(s)
  PROVE  /\ UNCHANGED <<exists, pc, own>>
         /\ \/ UNCHANGED <<started, autoPending>>
            \/ autoPending /\ started' \in Nat \ {0} /\ autoPending' = FALSE
<1>1. CASE AutoStart
  <2>1. started' \in Nat \ {0}
    BY <1>1, Started DEF AutoStart, IInv
  <2>2. autoPending /\ autoPending' = FALSE /\ UNCHANGED <<exists, pc, session>>
    BY <1>1, Zenon DEF AutoStart
  <2> QED BY <2>1, <2>2 DEF session
<1>2. CASE Finished
  BY <1>2 DEF Finished, vars, aws, session
<1>3. ASSUME NEW e \in Executions, Execute(e) \/ PersonApproves(e)
      PROVE  UNCHANGED <<exists, pc, own, started, autoPending>>
  BY <1>3 DEF Execute, EnterStage, PlanEnds, ApplyEnds, StageFails, PersonApproves, session
<1> QED BY <1>1, <1>2, <1>3 DEF Next

LEMMA AloneKept == ASSUME ~Overlap, IInv, AloneInv, [Next]_vars PROVE AloneInv'
<1> USE DEF Goto, Return
<1>0. SessionsOK /\ ExecutionsOK /\ started \in Nat
  BY SizesAssumption DEF IInv, ExecutionsOK
<1>1. ASSUME NEW s \in Sessions, Session(s) \/ Fails(s) PROVE AloneInv'
  <2>1. /\ \A t \in Sessions \ {s} : pc'[t] = pc[t] /\ own'[t] = own[t]
        /\ pc' \in [Sessions -> Points] /\ own' \in [Sessions -> 0..MaxExecutions]
    BY <1>1, SessionsStep DEF SessionsOK
  <2>2. \A t \in Sessions \ {s} : ~Active(t)
    BY <1>0, <1>1 DEF AloneInv, Active, Session, Begin, Create, CreateFails, DisablePlan,
       FindAutoExecution, NoAutoExecution, StopAutoExecution, EnablePlan, Start, Poll, List,
       FindPreviousExecution, StopPreviousExecution, Decide, StopPipeline, Token, PutApproval, Fails
  <2>3. \A t, u \in Sessions : Active(t)' /\ Active(u)' => t = u
    BY <2>1, <2>2 DEF Active
  \* What the session has to see to.
  <2> DEFINE Mine(where) ==
        /\ where = "create" => ~exists'
        /\ where \in {"disable", "intercept"} => exists' /\ (started' = 0 \/ ~autoPending')
        /\ where \in {"stopAuto", "enable", "start"} \cup Waiting => exists' /\ ~autoPending'
        /\ where \in Waiting => own'[s] = started'
  <2>4. ASSUME Mine(pc'[s]), ~exists' => started' = 0 /\ ~autoPending' PROVE AloneInv'
    <3>1. \A t \in Sessions \ {s} : pc'[t] \in {"idle", "over"}
      BY <2>1, <2>2 DEF Active
    <3> QED BY <2>3, <2>4, <3>1 DEF AloneInv, Waiting
  <2> HIDE DEF Mine
  <2>5. CASE Begin(s)
    <3>1. ~autoPending /\ UNCHANGED aws
      BY <2>5, Zenon DEF Begin
    <3>2. \/ exists /\ pc' = [pc EXCEPT ![s] = "start"]
          \/ ~exists /\ pc' = [pc EXCEPT ![s] = "create"]
      BY <2>5, Zenon DEF Begin
    <3>3. /\ pc' = [pc EXCEPT ![s] = "start"] => pc'[s] = "start"
          /\ pc' = [pc EXCEPT ![s] = "create"] => pc'[s] = "create"
      BY <1>0 DEF SessionsOK
    <3> QED BY <2>4, <3>1, <3>2, <3>3 DEF aws, AloneInv, Mine, Waiting
  <2>6. CASE Create(s)
    <3>1. exists' = TRUE /\ started' = 0 /\ pc'[s] = "disable"
      BY <1>0, <2>6 DEF Create, AloneInv, SessionsOK
    <3> QED BY <2>4, <3>1 DEF Mine, Waiting
  <2>7. CASE DisablePlan(s) \/ NoAutoExecution(s) \/ EnablePlan(s) \/ FindAutoExecution(s) \/ StopAutoExecution(s)
    <3>1. UNCHANGED <<exists, started, autoPending>>
      BY <2>7 DEF DisablePlan, NoAutoExecution, EnablePlan, FindAutoExecution, StopAutoExecution,
                  StopExecution, aws
    <3>2. \/ pc[s] = "disable" /\ pc'[s] = "intercept"
          \/ pc[s] = "intercept" /\ pc'[s] = "enable" /\ ~autoPending
          \/ pc[s] = "intercept" /\ pc'[s] = "stopAuto" /\ started > 0
          \/ pc[s] \in {"stopAuto", "enable"} /\ pc'[s] \in {"enable", "start"}
      BY <1>0, <2>7 DEF DisablePlan, NoAutoExecution, EnablePlan, FindAutoExecution, StopAutoExecution,
                        SessionsOK
    <3> QED BY <1>0, <2>4, <3>1, <3>2 DEF AloneInv, Mine, Waiting
  <2>8. CASE Start(s)
    <3>1. UNCHANGED <<exists, autoPending>> /\ pc'[s] = "poll" /\ own'[s] = started' /\ pc[s] = "start"
      BY <1>0, <2>8 DEF Start, SessionsOK
    <3> QED BY <2>4, <3>1 DEF AloneInv, Mine, Waiting
  <2>9. CASE CreateFails(s) \/ Fails(s) \/ Poll(s) \/ List(s) \/ FindPreviousExecution(s)
          \/ StopPreviousExecution(s) \/ Decide(s) \/ StopPipeline(s) \/ Token(s) \/ PutApproval(s)
    <3>1. UNCHANGED <<exists, started, autoPending, own>>
      BY <2>9 DEF CreateFails, Fails, Poll, List, FindPreviousExecution, StopPreviousExecution, Decide,
                  StopPipeline, Token, PutApproval, StopExecution, aws
    <3>2. pc'[s] = "over" \/ (pc[s] \in Waiting /\ pc'[s] \in Waiting)
      <4>1. CASE List(s)
        <5>1. PICK where \in {"previous", "poll", "token", "decide"} : Goto(s, where)
          BY <4>1, Zenon DEF List
        <5> QED BY <1>0, <4>1, <5>1 DEF List, SessionsOK, Waiting
      <4>2. CASE ~List(s)
        BY <1>0, <2>9, <4>2 DEF CreateFails, Fails, Poll, ExecutionResult, FindPreviousExecution,
           StopPreviousExecution, Decide, StopPipeline, Token, PutApproval, SessionsOK, Waiting
      <4> QED BY <4>1, <4>2
    <3> QED BY <1>0, <2>4, <3>1, <3>2 DEF AloneInv, Mine, Waiting
  <2> QED BY <1>1, <2>5, <2>6, <2>7, <2>8, <2>9 DEF Session
<1>2. CASE Next /\ ~\E s \in Sessions : Session(s) \/ Fails(s)
  <2>1. UNCHANGED <<exists, pc, own>>
    BY <1>2, Unattended
  <2>2. CASE UNCHANGED <<started, autoPending>>
    BY <2>1, <2>2 DEF AloneInv, Active, Waiting
  <2>3. CASE autoPending /\ autoPending' = FALSE
    <3>1. \A s \in Sessions : pc[s] \notin {"stopAuto", "enable", "start"} \cup Waiting
      BY <2>3 DEF AloneInv
    <3>2. exists
      BY <2>3 DEF AloneInv
    <3> QED BY <2>1, <2>3, <3>1, <3>2 DEF AloneInv, Active
  <2> QED BY <1>2, <2>2, <2>3, Unattended
<1>3. CASE UNCHANGED vars
  BY <1>3 DEF vars, aws, session, AloneInv, Active, Waiting
<1> QED BY <1>1, <1>2, <1>3

(***************************************************************************)
(* What the agent approves                                                 *)
(***************************************************************************)
\* The plan of the execution of s is one the agent may approve.
Approves(s) ==
  /\ ~ShouldStop(changes[own[s]], step.approve, Manual(s))
  /\ ShouldApprove(changes[own[s]], step.approve, auto[s], Manual(s))
\* Where a session approves, it has decided to with the plan of its own
\* execution, and that is the one it approves.
DecisionInv ==
  /\ \A s \in Sessions :
       /\ pc[s] = "decide" => Rank(own[s]) >= 3
       /\ pc[s] \in {"token", "put"} \/ status[s] = "approve" =>
            own[s] # 0 /\ Rank(own[s]) >= 3 /\ Approves(s)
       /\ pc[s] = "put" => target[s] = own[s]
  /\ \A e \in Executions : approvedBy[e] = "agent" =>
       Planned(e) /\ e <= started /\ \E s \in Sessions : own[s] = e /\ Approves(s)

LEMMA RankPlanned == ASSUME NEW e, Rank(e) >= 3 PROVE Planned(e)
BY DEF Rank, RankOf, Planned

\* Nothing makes a decision untrue.
LEMMA ApprovesKept ==
  ASSUME IInv, OrderInv, [Next]_vars, NEW s \in Sessions, own[s] # 0, Planned(own[s])
  PROVE  /\ UNCHANGED own[s] /\ own[s] \in 1..started /\ Planned(own[s])'
         /\ Approves(s) => Approves(s)'
         /\ Rank(own[s]) <= Rank(own[s])'
<1>1. own[s] \in 1..started /\ own[s] \in Executions
  BY SizesAssumption DEF IInv, SessionInv, OwnInv, SessionsOK, ExecutionsOK, Executions
<1>2. UNCHANGED <<own[s], cmd[s], auto[s], step>>
  BY OwnStays DEF OrderInv
<1>3. Progress
  BY NextCases DEF IInv, SessionsOK
<1>4. Planned(own[s])' /\ changes'[own[s]] = changes[own[s]]
  BY <1>1, <1>2, <1>3 DEF Progress, Planned
<1>5. Approves(s) => Approves(s)'
  BY <1>2, <1>4 DEF Approves, Manual
<1>6. Rank(own[s]) <= Rank(own[s])'
  BY <1>1, <1>2, QueueKept DEF OrderInv, Rank
<1> QED BY <1>1, <1>2, <1>4, <1>5, <1>6

\* Who approves anything.
LEMMA WhoApproves ==
  ASSUME IInv, [Next]_vars, NEW e \in Executions, approvedBy'[e] = "agent"
  PROVE  \/ approvedBy[e] = "agent"
         \/ \E s \in Sessions : PutApproval(s) /\ target[s] = e /\ In(e, "approve")
<1> USE DEF IInv, ExecutionsOK
<1>1. CASE approvedBy' = approvedBy
  BY <1>1
<1>2. ASSUME NEW s \in Sessions, PutApproval(s)
      PROVE  approvedBy[e] = "agent" \/ (target[s] = e /\ In(e, "approve"))
  BY <1>2 DEF PutApproval, Approve
<1>3. ASSUME NEW d \in Executions, PersonApproves(d) PROVE approvedBy[e] = "agent"
  BY <1>3 DEF PersonApproves, Approve
<1>4. ASSUME NEW s \in Sessions, Session(s) \/ Fails(s), ~PutApproval(s) PROVE approvedBy' = approvedBy
  BY <1>4 DEF Session, Begin, Create, CreateFails, DisablePlan, FindAutoExecution, NoAutoExecution,
     StopAutoExecution, EnablePlan, Start, Poll, List, FindPreviousExecution, StopPreviousExecution,
     Decide, StopPipeline, Token, Fails, StopExecution, aws
<1>5. ASSUME NEW d \in Executions, Execute(d) PROVE approvedBy' = approvedBy
  BY <1>5 DEF Execute, EnterStage, PlanEnds, ApplyEnds, StageFails
<1>6. CASE AutoStart \/ Finished \/ UNCHANGED vars
  BY <1>6 DEF AutoStart, Finished, vars, aws
<1> QED BY <1>1, <1>2, <1>3, <1>4, <1>5, <1>6 DEF Next

LEMMA DecisionKept ==
  ASSUME ~Overlap, IInv, OrderInv, AloneInv, DecisionInv, [Next]_vars
  PROVE  DecisionInv'
<1> USE DEF Goto, Return
<1>0. SessionsOK /\ ExecutionsOK /\ started \in Nat
  BY SizesAssumption DEF IInv, ExecutionsOK
<1> DEFINE Decided(s) == own[s] # 0 /\ Rank(own[s]) >= 3 /\ Approves(s)
<1>k. ASSUME NEW s \in Sessions, Decided(s) PROVE Decided(s)'
  <2>1. Rank(own[s])' \in 0..5 /\ Rank(own[s]) \in 0..5
    BY DEF Rank, RankOf
  <2> QED BY <1>k, <2>1, ApprovesKept, RankPlanned
<1>d. \A s \in Sessions : pc[s] \in {"token", "put"} \/ status[s] = "approve" => Decided(s)
  BY DEF DecisionInv
<1> HIDE DEF Decided
<1>1. ASSUME NEW s \in Sessions
      PROVE  /\ pc'[s] = "decide" => Rank(own[s])' >= 3
             /\ pc'[s] \in {"token", "put"} \/ status'[s] = "approve" => Decided(s)'
             /\ pc'[s] = "put" => target'[s] = own'[s]
  <2>a. StopInv(s) /\ (pc[s] \in Waiting => own[s] # 0)
    BY DEF OrderInv, IInv, SessionInv, OwnInv
  <2>1. CASE Begin(s) \/ Create(s) \/ CreateFails(s) \/ DisablePlan(s) \/ FindAutoExecution(s)
          \/ NoAutoExecution(s) \/ StopAutoExecution(s) \/ EnablePlan(s) \/ Start(s)
    <3>1. own[s] = 0 /\ status' = status
      BY <2>a, <2>1 DEF Begin, Create, CreateFails, DisablePlan, FindAutoExecution, NoAutoExecution,
                 StopAutoExecution, EnablePlan, Start, StopInv, Beginning, session
    <3>2. status[s] # "approve"
      BY <1>d, <3>1 DEF Decided
    <3>3. pc'[s] \notin {"decide", "token", "put"}
      BY <1>0, <2>1 DEF Begin, Create, CreateFails, DisablePlan, FindAutoExecution, NoAutoExecution,
                 StopAutoExecution, EnablePlan, Start, SessionsOK
    <3> QED BY <3>1, <3>2, <3>3
  <2>2. CASE Poll(s) \/ FindPreviousExecution(s) \/ StopPreviousExecution(s) \/ StopPipeline(s) \/ Fails(s)
    <3>1. pc'[s] \notin {"decide", "token", "put"} /\ (status' = status \/ status'[s] = "none")
      BY <1>0, <2>2 DEF Poll, ExecutionResult, FindPreviousExecution, StopPreviousExecution,
                        StopPipeline, Fails, SessionsOK
    <3> QED BY <1>d, <1>k, <3>1
  <2>3. CASE List(s)
    <3>1. \/ pc'[s] \in {"poll", "previous"}
          \/ In(own[s], "approve") /\ pc'[s] \in {"poll", "token", "decide"}
             /\ (pc'[s] = "token" => status[s] = "approve")
      <4>1. CASE In(own[s], "approve") /\ pc' = [pc EXCEPT ![s] = CASE status[s] = "waiting" -> "poll"
                     [] status[s] = "approve" -> "token" [] OTHER -> "decide"]
        <5>1. CASE status[s] = "waiting"
          BY <1>0, <4>1, <5>1 DEF SessionsOK
        <5>2. CASE status[s] = "approve"
          BY <1>0, <4>1, <5>2 DEF SessionsOK
        <5>3. CASE status[s] \notin {"waiting", "approve"}
          BY <1>0, <4>1, <5>3 DEF SessionsOK
        <5> QED BY <5>1, <5>2, <5>3
      <4>2. CASE pc' = [pc EXCEPT ![s] = "previous"] \/ pc' = [pc EXCEPT ![s] = "poll"]
        BY <1>0, <4>2 DEF SessionsOK
      <4> QED BY <2>3, <4>1, <4>2, Zenon DEF List
    <3>2. status'[s] = status[s] \/ status'[s] = "approved"
      BY <1>0, <2>3 DEF List, SessionsOK
    <3>3. In(own[s], "approve") => own[s] # 0 /\ Planned(own[s]) /\ Rank(own[s]) = 3
      BY <2>a, <2>3 DEF List, In, Planned, Rank, RankOf, Waiting
    <3>4. In(own[s], "approve") => Rank(own[s])' >= 3
      <4>1. Rank(own[s])' \in 0..5
        BY DEF Rank, RankOf
      <4> QED BY <3>3, <4>1, ApprovesKept
    <3> QED BY <1>d, <1>k, <3>1, <3>2, <3>4
  <2>4. CASE Decide(s)
    <3>1. own[s] # 0 /\ Rank(own[s]) >= 3
      BY <2>a, <2>4 DEF Decide, DecisionInv, Waiting
    <3>2. pc'[s] \in {"stop", "poll", "token"} /\ (status'[s] = status[s] \/ status'[s] = "waiting")
      BY <1>0, <2>4 DEF Decide, SessionsOK
    <3>3. pc'[s] = "token" => Approves(s)
      BY <1>0, <2>4 DEF Decide, Approves, SessionsOK
    <3> QED BY <1>d, <1>k, <3>1, <3>2, <3>3 DEF Decided
  <2>5. CASE Token(s)
    <3>1. pc[s] = "token" /\ own' = own /\ pc'[s] \in {"poll", "put"}
      BY <1>0, <2>5 DEF Token, SessionsOK
    <3>2. pc'[s] = "put" => target'[s] = own[s]
      <4>1. SUFFICES ASSUME pc'[s] = "put" PROVE target'[s] = own[s]
        OBVIOUS
      <4>2. PICK e \in Executions : In(e, "approve") /\ target'[s] = e
        BY <1>0, <2>5, <4>1 DEF Token, SessionsOK
      <4>3. Rank(own[s]) >= 3 /\ own[s] = started /\ own[s] \in Executions /\ e \in Nat
        <5>1. Decided(s) /\ own[s] = started
          BY <1>d, <3>1 DEF AloneInv, Waiting
        <5> QED BY <1>0, <5>1, SizesAssumption DEF Decided, ExecutionsOK, Executions
      <4>4. Rank(e) = 3 /\ Running(e) /\ e <= started
        BY <4>2 DEF In, Running, Rank, RankOf
      <4>5. ~(e < own[s])
        <5>1. Rank(own[s]) \in 0..5
          BY DEF Rank, RankOf
        <5>2. own[s] <= started
          BY <1>0, <4>3
        <5>3. \A d, f \in Executions : d < f /\ f <= started /\ Running(d) => Rank(f) < Rank(d)
          BY DEF OrderInv, Queued
        <5>4. e < own[s] => Rank(own[s]) < Rank(e)
          BY <4>3, <4>4, <5>2, <5>3
        <5> QED BY <4>3, <4>4, <5>1, <5>4
      <4> QED BY <1>0, <4>2, <4>3, <4>4, <4>5
    <3> QED BY <1>d, <1>k, <3>1, <3>2
  <2>6. CASE PutApproval(s)
    <3>1. pc[s] = "put" /\ pc'[s] = "poll"
      BY <1>0, <2>6 DEF PutApproval, SessionsOK
    <3> QED BY <1>d, <1>k, <3>1
  <2>7. CASE UNCHANGED <<pc[s], cmd[s], auto[s], own[s], status[s], target[s]>>
    <3>1. pc[s] = "decide" => Rank(own[s])' >= 3
      <4>1. pc[s] = "decide" => own[s] # 0 /\ Rank(own[s]) >= 3
        BY <2>a DEF DecisionInv, Waiting
      <4>2. Rank(own[s])' \in 0..5 /\ Rank(own[s]) \in 0..5
        BY DEF Rank, RankOf
      <4> QED BY <4>1, <4>2, ApprovesKept, RankPlanned
    <3> QED BY <1>d, <1>k, <2>7, <3>1 DEF DecisionInv
  <2> QED BY <2>1, <2>2, <2>3, <2>4, <2>5, <2>6, <2>7, Others DEF Session
<1>2. ASSUME NEW e \in Executions, approvedBy'[e] = "agent"
      PROVE  Planned(e)' /\ e <= started' /\ \E s \in Sessions : own'[s] = e /\ Approves(s)'
  <2>1. PICK s \in Sessions : own[s] = e /\ Planned(e) /\ Approves(s)
    <3>1. CASE approvedBy[e] = "agent"
      BY <3>1 DEF DecisionInv
    <3>2. ASSUME NEW s \in Sessions, PutApproval(s), target[s] = e
          PROVE  own[s] = e /\ Planned(e) /\ Approves(s)
      <4>1. pc[s] = "put"
        BY <3>2 DEF PutApproval
      <4> QED BY <1>d, <3>2, <4>1, RankPlanned DEF DecisionInv, Decided
    <3> QED BY <1>2, <3>1, <3>2, WhoApproves
  <2>2. e # 0 /\ e \in Nat
    BY SizesAssumption DEF Executions
  <2>3. started <= started' /\ started' \in Nat
    BY NextCases, <1>0, SizesAssumption DEF Progress, IInv, SessionsOK, ExecutionsOK
  <2>4. own'[s] = e /\ own[s] \in 1..started /\ Planned(e)' /\ Approves(s)'
    BY <2>1, <2>2, ApprovesKept DEF Planned
  <2> QED BY <1>0, <2>1, <2>2, <2>3, <2>4
<1>3. \A s \in Sessions : Decided(s)' <=> own'[s] # 0 /\ Rank(own[s])' >= 3 /\ Approves(s)'
  BY DEF Decided
<1> QED BY <1>1, <1>2, <1>3 DEF DecisionInv

LEMMA Deciding ==
  Spec => [](IInv /\ OrderInv /\ (~Overlap => AloneInv /\ DecisionInv))
<1>1. Init => (~Overlap => AloneInv /\ DecisionInv)
  BY SizesAssumption DEF Init, AloneInv, DecisionInv, Active, Waiting
<1>2. IInv /\ OrderInv /\ (~Overlap => AloneInv /\ DecisionInv) /\ [Next]_vars =>
        (~Overlap => AloneInv /\ DecisionInv)'
  BY AloneKept, DecisionKept
<1> QED BY <1>1, <1>2, Invariance, Ordered, PTL DEF Spec

\* What the agent may approve is nothing the documentation (README.md:527-536)
\* wants a person to see.
LEMMA MayApprove ==
  ASSUME IInv, OrderInv, NEW s \in Sessions, own[s] # 0, Approves(s)
  PROVE  /\ ~changes[own[s]].noChanges
         /\ ~NeedsPerson(changes[own[s]], step.approve, auto[s], Manual(s))
<1> DEFINE found == changes[own[s]]  approve == step.approve  manual == Manual(s)
<1>1. step \in StepProperties /\ approve \in ApproveTypes
  BY StepAssumption DEF IInv, SessionsOK, StepProperties
<1>2. manual \in ManualApproveTypes /\ (approve # "" => manual = "")
  BY <1>1 DEF Manual, ManualApproval, ManualApproveTypes, StepProperties
<1>3. auto[s] \in AutoApproves(approve)
  <2>1. pc[s] # "idle"
    BY DEF OrderInv, StopInv, Beginning
  <2> QED BY <2>1, Zenon DEF OrderInv, BegunInv
<1>4. ~found.noChanges /\ approve # "reject" /\ manual # "reject"
  BY DEF Approves, ShouldStop, RejectsPlans
<1>5. ShouldApprove(found, approve, auto[s], manual)
  BY DEF Approves
<1> HIDE DEF found, approve, manual
<1>6. ~NeedsPerson(found, approve, auto[s], manual)
  <2>1. CASE approve = "force" \/ manual = "never"
    BY <1>2, <2>1 DEF NeedsPerson
  <2>2. CASE approve # "force" /\ manual # "never"
    BY <1>1, <1>2, <1>3, <1>4, <1>5, <2>2
       DEF NeedsPerson, ShouldApprove, AutoApproves, ApproveTypes, ManualApproveTypes
  <2> QED BY <2>1, <2>2
<1> QED BY <1>4, <1>6 DEF found, approve, manual

\* The agent approves only executions of its own, and only plans it may approve,
\* if its sessions come one after the other: of two that overlap, one may approve
\* the execution of the other (processChanges, getApprovalToken).
THEOREM ApprovesAsDocumented == Spec => [](~Overlap => ApprovedAsDocumented)
<1>1. ASSUME IInv, OrderInv, DecisionInv PROVE ApprovedAsDocumented
  <2>1. SUFFICES ASSUME NEW e \in Executions, approvedBy[e] = "agent"
                 PROVE  \E s \in Sessions :
                          /\ own[s] = e /\ ~changes[e].noChanges
                          /\ ~NeedsPerson(changes[e], step.approve, auto[s], Manual(s))
    BY DEF ApprovedAsDocumented
  <2>2. PICK s \in Sessions : own[s] = e /\ Approves(s)
    BY <1>1, <2>1 DEF DecisionInv
  <2>3. own[s] # 0
    BY <2>2, SizesAssumption DEF Executions
  <2> QED BY <1>1, <2>2, <2>3, MayApprove
<1> QED BY <1>1, Deciding, PTL
==============================================================================
