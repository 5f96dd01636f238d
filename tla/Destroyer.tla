----------------------------- MODULE Destroyer -----------------------------
(***************************************************************************)
(* How the infrastructure of the steps is destroyed: what a session that   *)
(* runs a step prepares for it (the destroy pipeline at AWS, two jobs at   *)
(* Google Cloud, nothing when the agent runs the steps itself), and the    *)
(* destroy command (service/delete.go), which runs the steps in reverse    *)
(* order and removes each from the state file. Sessions come one after     *)
(* the other; any of them may end anywhere, and what it started at the     *)
(* provider goes on.                                                       *)
(***************************************************************************)
EXTENDS DestroyState

Sessions == 1..MaxSessions
\* At most two executions of a destroy pipeline at a time (bound): the last one
\* that a destroy command has started, and one that AWS starts when the pipeline
\* is created, a person starts later, or a destroy command left behind.
Executions == {"own", "other"}
Closable == <<"Destroy", "Approve", "ApplyDestroy">>

cloud == <<infra, pending, tools, closed, place, asked, early>>
memory == <<selected, known, unread, unsaved>>
vars == <<provider, cloud, listed, session, cmd, pc, at, memory, result>>

TypeOK ==
  /\ provider \in Providers /\ infra \subseteq Steps /\ listed \subseteq Steps
  /\ pending \subseteq Steps /\ tools \in [Steps -> 0..2]
  /\ closed \in [Steps -> SUBSET {"Destroy", "Approve", "ApplyDestroy"}]
  /\ place \in [Steps -> [Executions -> {"pending", "source", "Destroy",
                                         "Approve", "approved", "ApplyDestroy", "over", "done"}]]
  /\ session \in Sessions /\ cmd \in {"run", "destroy"} /\ at \in 0..NumSteps + 1
  /\ pc \in {"idle", "make", "tools", "close", "intercept", "apply", "save", "next", "open",
             "start", "wait", "planJob", "applyJob", "forget", "put", "over"}
  /\ selected \subseteq Steps /\ known \subseteq Steps
  /\ unread \in BOOLEAN /\ unsaved \in BOOLEAN /\ result \in {"none", "nil", "error"}
  /\ asked \subseteq Steps /\ early \subseteq Steps

Init ==
  /\ provider \in Providers /\ infra = {} /\ listed = {} /\ pending = {}
  /\ tools = [s \in Steps |-> 0] /\ closed = [s \in Steps |-> {}]
  /\ place = [s \in Steps |-> [e \in Executions |-> "over"]]
  /\ session = 1 /\ cmd = "run" /\ pc = "idle" /\ at = 0
  /\ selected = {} /\ known = {} /\ unread = FALSE /\ unsaved = FALSE
  /\ result = "none" /\ asked = {} /\ early = {}
------------------------------------------------------------------------------
(***************************************************************************)
(* AWS and the people who use its console (external)                       *)
(***************************************************************************)
Move(s, e, to) == place' = [place EXCEPT ![s][e] = to]
Running(s, e) == place[s][e] \notin {"pending", "over", "done"}

AutoStart(s) ==
  /\ place[s]["other"] = "pending" /\ Move(s, "other", "source")
  /\ UNCHANGED <<provider, infra, pending, tools, closed, asked, early, listed, session, cmd,
                 pc, at, memory, result>>

\* Mutant: the destroy pipeline is made without an approval.
WithoutApproval == [source |-> "Destroy", Destroy |-> "ApplyDestroy", approved |-> "ApplyDestroy"]

\* The stages of the destroy pipeline: what follows the source, the plan and
\* its approval.
Following == [source |-> "Destroy", Destroy |-> "Approve", approved |-> "ApplyDestroy"]

EnterStage(s, e) ==
  /\ place[s][e] \in DOMAIN Following
  /\ LET stage == Following[place[s][e]]
     IN /\ stage \notin closed[s] /\ \A other \in Executions : place[s][other] # stage
        /\ Move(s, e, stage)
  /\ UNCHANGED <<provider, infra, pending, tools, closed, asked, early, listed, session, cmd,
                 pc, at, memory, result>>

Destroyed(s, e) ==
  /\ place[s][e] = "ApplyDestroy" /\ Move(s, e, IF e = "own" THEN "done" ELSE "over")
  /\ infra' = infra \ {s}
  /\ UNCHANGED <<provider, pending, tools, closed, asked, early, listed, session, cmd, pc, at,
                 memory, result>>

\* An action fails, an approval is rejected or times out, or another execution
\* supersedes one that waits.
ExecutionFails(s, e) ==
  /\ Running(s, e) /\ Move(s, e, "over")
  /\ UNCHANGED <<provider, infra, pending, tools, closed, asked, early, listed, session, cmd,
                 pc, at, memory, result>>

\* One pipeline at a time (bound).
PersonStarts(s) ==
  /\ provider = "AWS" /\ tools[s] = 2 /\ (\A t \in Steps : ~Running(t, "other"))
  /\ Move(s, "other", "source")
  /\ UNCHANGED <<provider, infra, pending, tools, closed, asked, early, listed, session, cmd,
                 pc, at, memory, result>>

PersonApproves(s, e) ==
  /\ place[s][e] = "Approve" /\ Move(s, e, "approved") /\ asked' = asked \cup {s}
  /\ UNCHANGED <<provider, infra, pending, tools, closed, early, listed, session, cmd, pc, at,
                 memory, result>>

\* Whoever approves an apply does so before the next session.
PersonApplies(s) ==
  /\ s \in pending
  /\ pending' = pending \ {s} /\ infra' = infra \cup {s} /\ early' = early \cup {s}
  /\ UNCHANGED <<provider, tools, closed, place, asked, listed, session, cmd, pc, at, memory,
                 result>>
------------------------------------------------------------------------------
(***************************************************************************)
(* Running the steps: CreateProject, CreatePipeline, WaitPipelineExecution *)
(***************************************************************************)
Goto(call) == pc' = call
Return(value) == Goto("over") /\ result' = value

Begin ==
  /\ pc = "idle" /\ cmd' \in {"run", "destroy"}
  /\ selected' \in (IF cmd' = "run" THEN {Steps} ELSE (SUBSET Steps) \ {{}})
  /\ Goto("next") /\ UNCHANGED unsaved
  /\ IF cmd' = "run"
     THEN UNCHANGED <<at, known, unread, asked>>
     ELSE /\ at' = NumSteps + 1 /\ asked' = asked \cup selected'
          /\ \/ known' = listed /\ unread' = FALSE
             \/ known' = {} /\ unread' = TRUE
  /\ UNCHANGED <<provider, infra, pending, tools, closed, place, early, listed, session, result>>

NextToRun ==
  /\ pc = "next" /\ cmd = "run"
  /\ \/ /\ \E s \in selected : s > at /\ at' = s /\ \A t \in selected : t > at => s <= t
        /\ Goto("make") /\ UNCHANGED result
     \/ (\A s \in selected : s <= at) /\ Return("nil") /\ UNCHANGED at
  /\ UNCHANGED <<provider, cloud, listed, session, cmd, memory>>

\* Mutant: the execution that was started is waited for first.
WaitsAtOnce ==
  /\ pc = "make" /\ Goto("apply")
  /\ pending' = IF provider = "AWS" THEN pending \cup {at} ELSE pending
  /\ UNCHANGED <<provider, infra, tools, closed, place, asked, early, listed, session, cmd, at,
                 memory, result>>

\* CreateApplyPipeline, which starts an execution; nobody has approved it yet.
Make ==
  /\ pc = "make" /\ Goto(IF provider = "LOCAL" THEN "apply" ELSE "tools")
  /\ pending' = IF provider = "AWS" THEN pending \cup {at} ELSE pending
  /\ UNCHANGED <<provider, infra, tools, closed, place, asked, early, listed, session, cmd, at,
                 memory, result>>

\* CreateDestroyPipeline makes the pipeline unless it exists; createDestroyJobs
\* makes one job after the other.
MakeTools ==
  /\ pc = "tools"
  /\ \/ provider = "AWS" /\ tools[at] = 0 /\ tools' = [tools EXCEPT ![at] = 2]
        /\ Move(at, "other", "pending") /\ Goto("close")
     \/ provider = "GCLOUD" /\ tools[at] < 2 /\ tools' = [tools EXCEPT ![at] = @ + 1]
        /\ UNCHANGED <<place, pc>>
     \/ tools[at] = 2 /\ Goto("apply") /\ UNCHANGED <<tools, place>>
  /\ UNCHANGED <<provider, infra, pending, closed, asked, early, listed, session, cmd, at, memory,
                 result>>

Close ==
  /\ pc = "close"
  /\ \E n \in DOMAIN Closable :
       /\ \A before \in 1..n - 1 : Closable[before] \in closed[at]
       /\ Closable[n] \notin closed[at]
       /\ closed' = [closed EXCEPT ![at] = @ \cup {Closable[n]}]
       /\ Goto(IF n = 3 THEN "intercept" ELSE "close")
  /\ UNCHANGED <<provider, infra, pending, tools, place, asked, early, listed, session, cmd, at,
                 memory, result>>

\* waitAndStopAutoExecution stops the execution it finds, if one appears.
Intercept ==
  /\ pc = "intercept" /\ Goto("apply")
  /\ \/ Running(at, "other") /\ Move(at, "other", "over")
     \/ ~Running(at, "other") /\ UNCHANGED place
  /\ UNCHANGED <<provider, infra, pending, tools, closed, asked, early, listed, session, cmd, at,
                 memory, result>>

\* The wait for the execution, which approves it and sees it end.
Apply ==
  /\ pc = "apply" /\ Goto("save")
  /\ infra' = infra \cup {at} /\ pending' = pending \ {at}
  /\ UNCHANGED <<provider, tools, closed, place, asked, early, listed, session, cmd, at, memory,
                 result>>

\* The state has had all steps of the configuration since it was updated.
Save ==
  /\ pc = "save" /\ Goto("next") /\ listed' = Steps
  /\ UNCHANGED <<provider, cloud, session, cmd, at, memory, result>>
------------------------------------------------------------------------------
(***************************************************************************)
(* The destroy command: StartDestroyExecution of the steps, from the last  *)
(***************************************************************************)
NextToDestroy ==
  /\ pc = "next" /\ cmd = "destroy"
  /\ \/ /\ \E s \in selected : s < at /\ at' = s /\ \A t \in selected : t < at => t <= s
        /\ Goto(CASE provider = "AWS" -> "open" [] provider = "GCLOUD" -> "planJob"
                  [] OTHER -> "applyJob")
        /\ UNCHANGED result
     \/ (\A s \in selected : s >= at) /\ Return("nil") /\ UNCHANGED at
  /\ UNCHANGED <<provider, cloud, listed, session, cmd, memory>>

\* Mutant: a step that is skipped leaves the state as well.
SkipAndForget == Goto("forget")

\* NotFoundError: the step is skipped, and stays in the state.
Skip == Goto("next")

\* enableAllStageTransitions
Open ==
  /\ pc = "open"
  /\ \/ tools[at] = 0 /\ Skip /\ UNCHANGED closed
     \/ /\ tools[at] = 2
        /\ IF closed[at] = {} THEN Goto("start") /\ UNCHANGED closed
           ELSE UNCHANGED pc
                /\ \E n \in DOMAIN Closable :
                     /\ Closable[n] \in closed[at]
                     /\ \A before \in 1..n - 1 : Closable[before] \notin closed[at]
                     /\ closed' = [closed EXCEPT ![at] = @ \ {Closable[n]}]
  /\ UNCHANGED <<provider, infra, pending, tools, place, asked, early, listed, session, cmd, at,
                 memory, result>>

StartExecution ==
  /\ pc = "start" /\ Goto("wait")
  /\ \/ ~Running(at, "own") /\ Move(at, "own", "source")
     \/ /\ Running(at, "own") /\ ~Running(at, "other")
        /\ place' = [place EXCEPT ![at] = [own |-> "source", other |-> place[at]["own"]]]
  /\ UNCHANGED <<provider, infra, pending, tools, closed, asked, early, listed, session, cmd, at,
                 memory, result>>

\* Mutant: a step that fails is passed over.
GoesOn == Goto("next") /\ UNCHANGED result

\* An error ends the command.
Break == Return("error")

\* The plan is approved (approve type force), or it is stopped when there is
\* nothing to destroy. The approval goes to what is in the stage.
Wait ==
  /\ pc = "wait"
  /\ \/ place[at]["own"] = "Approve" /\ at \in infra /\ UNCHANGED <<pc, result>>
        /\ Move(at, "own", "approved")
     \/ place[at]["own"] = "Approve" /\ at \notin infra /\ UNCHANGED result
        /\ Move(at, "own", "over") /\ Goto("forget")
     \/ place[at]["own"] = "done" /\ Goto("forget") /\ UNCHANGED <<place, result>>
     \/ place[at]["own"] = "over" /\ Break /\ UNCHANGED place
  /\ UNCHANGED <<provider, infra, pending, tools, closed, asked, early, listed, session, cmd, at,
                 memory>>

\* executeJob of the plan.
PlanJob ==
  /\ pc = "planJob"
  /\ IF tools[at] = 0 THEN Skip ELSE Goto("applyJob")
  /\ UNCHANGED <<provider, cloud, listed, session, cmd, at, memory, result>>

\* executeJob, or executeWrapper, of what the plan found.
ApplyJob ==
  /\ pc = "applyJob"
  /\ IF provider = "GCLOUD" /\ tools[at] < 2 THEN Skip /\ UNCHANGED infra
     ELSE infra' = infra \ {at} /\ Goto("forget")
  /\ UNCHANGED <<provider, pending, tools, closed, place, asked, early, listed, session, cmd, at,
                 memory, result>>

\* Mutant: the state is written as it was read.
ForgetsNothing == Goto(IF at \in known THEN "put" ELSE "next") /\ UNCHANGED known

\* removeStepFromState: nothing is written when the step is not in it, or when
\* there is no state.
RemoveStep ==
  /\ Goto(IF at \in known THEN "put" ELSE "next")
  /\ known' = known \ {at}

Forget ==
  /\ pc = "forget" /\ RemoveStep
  /\ UNCHANGED <<provider, cloud, listed, session, cmd, at, selected, unread, unsaved,
                 result>>

PutState ==
  /\ pc = "put" /\ Goto("next")
  /\ \/ listed' = known /\ unsaved' = FALSE
     \/ unsaved' = TRUE /\ UNCHANGED listed
  /\ UNCHANGED <<provider, cloud, session, cmd, at, selected, known, unread, result>>

\* A call fails or the process is killed; an apply may have got half way.
Fails ==
  /\ pc \notin {"idle", "over"} /\ Break
  /\ infra' \in {infra} \cup (IF pc = "apply" THEN {infra \cup {at}} ELSE {})
  /\ UNCHANGED <<provider, pending, tools, closed, place, asked, early, listed, session, cmd,
                 at, memory>>

NextSession ==
  /\ pc = "over" /\ session < MaxSessions /\ session' = session + 1
  /\ Goto("idle") /\ result' = "none" /\ cmd' = "run" /\ at' = 0
  /\ selected' = {} /\ known' = {} /\ unread' = FALSE /\ unsaved' = FALSE
  /\ pending' = {}
  /\ UNCHANGED <<provider, infra, tools, closed, place, asked, early, listed>>
------------------------------------------------------------------------------
Session ==
  \/ Begin \/ NextToRun \/ Make \/ MakeTools \/ Close \/ Intercept \/ Apply \/ Save
  \/ NextToDestroy \/ Open \/ StartExecution \/ Wait \/ PlanJob \/ ApplyJob
  \/ Forget \/ PutState \/ Fails \/ NextSession

Cloud(s) ==
  \/ AutoStart(s) \/ PersonStarts(s) \/ PersonApplies(s)
  \/ \E e \in Executions :
       EnterStage(s, e) \/ Destroyed(s, e) \/ ExecutionFails(s, e) \/ PersonApproves(s, e)

Finished == pc = "over" /\ session = MaxSessions /\ UNCHANGED vars

Next == Session \/ (\E s \in Steps : Cloud(s)) \/ Finished

Spec == Init /\ [][Next]_vars
==============================================================================
