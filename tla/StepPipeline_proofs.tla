------------------------- MODULE StepPipeline_proofs -------------------------
(***************************************************************************)
(* Theorems about the two pipelines that implement StepPipeline.           *)
(* LocalPipeline, for any number of steps that run in parallel, whatever   *)
(* their properties and their plans. And CloudDeploy, here as the instance *)
(* Google, for any number of sessions: both have their plans decided on by *)
(* the same rules, by what DecidesAsDocumented says of them.               *)
(***************************************************************************)
EXTENDS LocalPipeline, JobDefinitions, TLAPS

(***************************************************************************)
(* The decision on a plan, for every plan, every setting and both commands *)
(***************************************************************************)
\* What the agent approves by itself is what the documentation lets it approve
\* (ShouldStopPipeline, ShouldApprovePipeline against README.md:527-536).
THEOREM DecidesAsDocumented ==
  ASSUME NEW plan \in PipelineChanges,
         NEW properties \in [approve : ApproveTypes, run : ManualApproveTypes,
                             update : ManualApproveTypes],
         NEW command \in {"run", "update"},
         NEW autoApprove \in AutoApproves(properties.approve),
         ~ShouldStop(plan, properties.approve, ManualApproval(properties, command)),
         ShouldApprove(plan, properties.approve, autoApprove,
                       ManualApproval(properties, command))
  PROVE  ~plan.noChanges /\ ~NeedsPerson(plan, properties.approve, autoApprove,
                                          ManualApproval(properties, command))
<1> DEFINE manual == ManualApproval(properties, command)
<1>1. manual \in ManualApproveTypes /\ (properties.approve # "" => manual = "")
  BY DEF ManualApproval, ManualApproveTypes
<1> HIDE DEF manual
<1>2. properties.approve \in ApproveTypes
  OBVIOUS
<1>3. ~plan.noChanges /\ properties.approve # "reject" /\ manual # "reject"
  BY DEF ShouldStop, RejectsPlans, manual
<1>4. ShouldApprove(plan, properties.approve, autoApprove, manual)
  BY DEF manual
<1>5. ~NeedsPerson(plan, properties.approve, autoApprove, manual)
  <2>1. CASE properties.approve = "force" \/ manual = "never"
    BY <2>1, <1>1 DEF NeedsPerson
  <2>2. CASE properties.approve # "force" /\ manual # "never"
    BY <2>2, <1>1, <1>2, <1>3, <1>4
       DEF NeedsPerson, ShouldApprove, AutoApproves, ApproveTypes, ManualApproveTypes
  <2> QED BY <2>1, <2>2
<1> QED BY <1>3, <1>5 DEF manual

(***************************************************************************)
(* Types                                                                   *)
(***************************************************************************)
Places == {"start", "plan", "planning", "decide", "ask", "show", "read", "restore",
           "print", "unlock", "apply", "applying", "applied", "over"}

TermsOK ==
  /\ step \in [Steps -> StepApprovals] /\ cmd \in {"run", "update"}
  /\ auto \in [Steps -> BOOLEAN]
  /\ \A s \in Steps : auto[s] \in AutoApproves(step[s].approve)
RunOK ==
  /\ pc \in [Steps -> Places] /\ found \in [Steps -> PipelineChanges \cup {NoPlan}]
  /\ consent \in [Steps -> {"nobody", "agent", "person"}]
  /\ applied \in [Steps -> {"no", "begun", "done"}]
  /\ result \in [Steps -> {"none", "nil", "error"}]
InputOK ==
  /\ lock \in Steps \cup {Nobody} /\ question \in Steps \cup {Nobody}
  /\ line \in [answer : Answers, to : Steps] \cup {NoLine}
  /\ readFor \in [Steps -> Steps \cup {Nobody}]

(***************************************************************************)
(* What a step has done where it is                                        *)
(***************************************************************************)
Unplanned == {"start", "plan", "planning"}
Undecided == {"decide", "ask", "show", "read"}
Progress(s) ==
  /\ pc[s] # "over" => result[s] = "none"
  /\ pc[s] \in Unplanned => found[s] = NoPlan
  /\ pc[s] \notin Unplanned \cup {"over"} => found[s] # NoPlan
  /\ pc[s] \in Unplanned \cup Undecided => consent[s] = "nobody"
  /\ pc[s] \in {"apply", "applying", "applied"} => consent[s] # "nobody"
  /\ pc[s] \notin {"applying", "applied", "over"} => applied[s] = "no"
  /\ pc[s] = "applying" => applied[s] = "begun"
  /\ pc[s] = "applied" => applied[s] = "done"
  /\ consent[s] = "agent" => pc[s] \notin {"show", "read", "restore", "print", "unlock"}

(***************************************************************************)
(* The terminal                                                            *)
(***************************************************************************)
Holds(s) == pc[s] \in {"show", "read", "restore", "print", "unlock"}
TerminalInv ==
  /\ \A s \in Steps : Holds(s) => lock = s
  /\ \A s \in Steps : pc[s] = "read" => question = s
  /\ line # NoLine => pc[line.to] = "read"
AnswersInv == AnswerIsForItsQuestion

IInv == TermsOK /\ RunOK /\ InputOK /\ (\A s \in Steps : Progress(s)) /\ TerminalInv /\ AnswersInv

LEMMA LinesHaveAnswers == \A l \in [answer : Answers, to : Steps] : l # NoLine
BY DEF Answers, NoLine

LEMMA InitIInv == Init => IInv
<1> SUFFICES ASSUME Init PROVE IInv
  OBVIOUS
<1>1. TermsOK /\ RunOK /\ InputOK
  BY DEF Init, TermsOK, RunOK, InputOK, Places
<1>2. (\A s \in Steps : Progress(s)) /\ TerminalInv
  BY NamesAssumption DEF Init, Progress, TerminalInv, Holds, Unplanned, Undecided
<1>3. AnswersInv
  BY DEF Init, AnswersInv, AnswerIsForItsQuestion
<1> QED BY <1>1, <1>2, <1>3 DEF IInv

\* The terms of a step are given.
LEMMA TermsKept == ASSUME TermsOK, [Next]_vars PROVE TermsOK' /\ UNCHANGED terms_vars
<1>1. UNCHANGED terms_vars
  BY DEF Next, vars, Goroutine, Finished, PersonTypes, Start, StartCommand, PlanEnds, ApplyEnds,
         Applied, CommandFails, Output, Decide, Redirect, Show, Restore, PrintBuffer, Unlock, Read
<1> QED BY <1>1 DEF TermsOK, terms_vars

(***************************************************************************)
(* A step that a goroutine takes                                           *)
(***************************************************************************)
Same(s) ==
  /\ pc'[s] = pc[s] /\ found'[s] = found[s] /\ consent'[s] = consent[s]
  /\ applied'[s] = applied[s] /\ result'[s] = result[s]

\* What the goroutine of s changes of the runs is its own.
Own(s) == RunOK' /\ \A t \in Steps \ {s} : Same(t)

LEMMA GoroutineRuns ==
  ASSUME IInv, NEW s \in Steps, Goroutine(s) \/ Read(s)
  PROVE  Own(s) /\ Progress(s)'
<1>t. RunOK /\ Progress(s) /\ NoPlan \notin Plans /\ Plans \subseteq PipelineChanges
  BY PlansAssumption DEF IInv
<1>1. CASE Start(s)
  <2>1. Own(s)
    BY <1>t, <1>1 DEF Start, Own, Same, RunOK, Places, Goto, Return, run_vars
  <2>2. Progress(s)'
    BY <1>t, <1>1 DEF Start, Progress, RunOK, Unplanned, Undecided, Goto, Return, run_vars
  <2> QED BY <2>1, <2>2
<1>2. CASE StartCommand(s)
  <2>1. Own(s)
    BY <1>t, <1>2 DEF StartCommand, Commands, Running, Own, Same, RunOK, Places, Goto, Return, run_vars
  <2>2. Progress(s)'
    BY <1>t, <1>2 DEF StartCommand, Commands, Running, Progress, RunOK, Unplanned, Undecided, Goto, Return, run_vars
  <2> QED BY <2>1, <2>2
<1>3. CASE PlanEnds(s)
  <2>1. Own(s)
    BY <1>t, <1>3 DEF PlanEnds, Ended, Running, Own, Same, RunOK, Places, Goto, Return, run_vars
  <2>2. Progress(s)'
    BY <1>t, <1>3 DEF PlanEnds, Ended, Running, Progress, RunOK, Unplanned, Undecided, Goto, Return, run_vars
  <2> QED BY <2>1, <2>2
<1>4. CASE ApplyEnds(s)
  <2>1. Own(s)
    BY <1>t, <1>4 DEF ApplyEnds, Ended, Running, Own, Same, RunOK, Places, Goto, Return, run_vars
  <2>2. Progress(s)'
    BY <1>t, <1>4 DEF ApplyEnds, Ended, Running, Progress, RunOK, Unplanned, Undecided, Goto, Return, run_vars
  <2> QED BY <2>1, <2>2
<1>5. CASE Applied(s)
  <2>1. Own(s)
    BY <1>t, <1>5 DEF Applied, Own, Same, RunOK, Places, Goto, Return, run_vars
  <2>2. Progress(s)'
    BY <1>t, <1>5 DEF Applied, Progress, RunOK, Unplanned, Undecided, Goto, Return, run_vars
  <2> QED BY <2>1, <2>2
<1>6. CASE CommandFails(s)
  <2>1. Own(s)
    BY <1>t, <1>6 DEF CommandFails, Own, Same, RunOK, Places, Goto, Return, run_vars
  <2>2. Progress(s)'
    BY <1>t, <1>6 DEF CommandFails, Progress, RunOK, Unplanned, Undecided, Goto, Return, run_vars
  <2> QED BY <2>1, <2>2
<1>7. CASE Output(s)
  <2>1. Own(s)
    BY <1>t, <1>7 DEF Output, Own, Same, RunOK, Places, Goto, Return, run_vars
  <2>2. Progress(s)'
    BY <1>t, <1>7 DEF Output, Progress, RunOK, Unplanned, Undecided, Goto, Return, run_vars
  <2> QED BY <2>1, <2>2
<1>8. CASE Decide(s)
  <2>1. Own(s)
    BY <1>t, <1>8 DEF Decide, Own, Same, RunOK, Places, Goto, Return, run_vars
  <2>2. Progress(s)'
    BY <1>t, <1>8 DEF Decide, Progress, RunOK, Unplanned, Undecided, Goto, Return, run_vars
  <2> QED BY <2>1, <2>2
<1>9. CASE Redirect(s)
  <2>1. Own(s)
    BY <1>t, <1>9 DEF Redirect, Lock, Own, Same, RunOK, Places, Goto, Return, run_vars
  <2>2. Progress(s)'
    BY <1>t, <1>9 DEF Redirect, Lock, Progress, RunOK, Unplanned, Undecided, Goto, Return, run_vars
  <2> QED BY <2>1, <2>2
<1>10. CASE Show(s)
  <2>1. Own(s)
    BY <1>t, <1>10 DEF Show, Own, Same, RunOK, Places, Goto, Return, run_vars
  <2>2. Progress(s)'
    BY <1>t, <1>10 DEF Show, Progress, RunOK, Unplanned, Undecided, Goto, Return, run_vars
  <2> QED BY <2>1, <2>2
<1>11. CASE Restore(s)
  <2>1. Own(s)
    BY <1>t, <1>11 DEF Restore, Own, Same, RunOK, Places, Goto, Return, run_vars
  <2>2. Progress(s)'
    BY <1>t, <1>11 DEF Restore, Progress, RunOK, Unplanned, Undecided, Goto, Return, run_vars
  <2> QED BY <2>1, <2>2
<1>12. CASE PrintBuffer(s)
  <2>1. Own(s)
    BY <1>t, <1>12 DEF PrintBuffer, Own, Same, RunOK, Places, Goto, Return, run_vars
  <2>2. Progress(s)'
    BY <1>t, <1>12 DEF PrintBuffer, Progress, RunOK, Unplanned, Undecided, Goto, Return, run_vars
  <2> QED BY <2>1, <2>2
<1>13. CASE Unlock(s)
  <2>1. Own(s)
    BY <1>t, <1>13 DEF Unlock, Own, Same, RunOK, Places, Goto, Return, run_vars
  <2>2. Progress(s)'
    BY <1>t, <1>13 DEF Unlock, Progress, RunOK, Unplanned, Undecided, Goto, Return, run_vars
  <2> QED BY <2>1, <2>2
<1>14. CASE Read(s)
  <2>1. Own(s)
    BY <1>t, <1>14 DEF Read, ReadLine, InputEnds, Own, Same, RunOK, Places, Goto, Return, run_vars
  <2>2. Progress(s)'
    BY <1>t, <1>14 DEF Read, ReadLine, InputEnds, Progress, RunOK, Unplanned, Undecided, Goto, Return, run_vars
  <2> QED BY <2>1, <2>2
<1> QED BY <1>1, <1>2, <1>3, <1>4, <1>5, <1>6, <1>7, <1>8, <1>9, <1>10, <1>11, <1>12, <1>13, <1>14 DEF Goroutine

LEMMA RunsKept ==
  ASSUME IInv, [Next]_vars
  PROVE  RunOK' /\ \A s \in Steps : Progress(s)'
<1>1. CASE PersonTypes \/ UNCHANGED vars
  BY <1>1 DEF IInv, PersonTypes, vars, run_vars, RunOK, Progress
<1>2. ASSUME NEW s \in Steps, Goroutine(s) \/ Read(s)
      PROVE  RunOK' /\ \A t \in Steps : Progress(t)'
  <2>1. Own(s) /\ Progress(s)'
    BY <1>2, GoroutineRuns
  <2>2. ASSUME NEW t \in Steps \ {s} PROVE Progress(t)'
    BY <2>1 DEF Own, Same, IInv, Progress
  <2> QED BY <2>1, <2>2 DEF Own
<1> QED BY <1>1, <1>2 DEF Next, Finished

(***************************************************************************)
(* The terminal: one step at a time holds the lock, and only a step that   *)
(* reads is given a line                                                   *)
(***************************************************************************)
\* The lock of a step that asks is its own, so no other asks.
LEMMA HoldsAlone ==
  ASSUME IInv, NEW s \in Steps, Holds(s), NEW t \in Steps, Holds(t)
  PROVE  s = t
BY DEF IInv, TerminalInv

LEMMA TerminalKept ==
  ASSUME IInv, [Next]_vars
  PROVE  InputOK' /\ TerminalInv' /\ AnswersInv'
<1>t. InputOK /\ TerminalInv /\ RunOK /\ AnswersInv /\ Nobody \notin Steps
  BY NamesAssumption DEF IInv
<1> USE DEF Holds
<1>1. CASE UNCHANGED vars
  BY <1>t, <1>1 DEF vars, input_vars, run_vars, InputOK, TerminalInv, AnswersInv,
                    AnswerIsForItsQuestion
<1>2. CASE PersonTypes
  <2>1. PICK answer \in Answers : line' = [answer |-> answer, to |-> question]
    BY <1>2 DEF PersonTypes
  <2>2. question \in Steps /\ pc[question] = "read"
    BY <1>t, <1>2 DEF PersonTypes, InputOK
  <2>3. line' \in [answer : Answers, to : Steps] /\ line'.to = question
    BY <2>1, <2>2
  <2> QED BY <1>t, <1>2, <2>2, <2>3 DEF PersonTypes, run_vars, InputOK, TerminalInv,
             AnswersInv, AnswerIsForItsQuestion
<1>3. ASSUME NEW s \in Steps, Goroutine(s) \/ Read(s)
      PROVE  InputOK' /\ TerminalInv' /\ AnswersInv'
  <2>o. Own(s)
    BY <1>3, GoroutineRuns
  <2>p. \A t \in Steps \ {s} : pc'[t] = pc[t] /\ consent'[t] = consent[t]
    BY <2>o DEF Own, Same
  <2>1. CASE \/ Start(s) \/ StartCommand(s) \/ PlanEnds(s) \/ ApplyEnds(s) \/ Applied(s)
             \/ CommandFails(s) \/ Output(s) \/ Decide(s)
    <3>1. UNCHANGED input_vars /\ ~Holds(s) /\ ~Holds(s)'
      BY <1>t, <2>1 DEF RunOK, Start, StartCommand, PlanEnds, ApplyEnds, Applied, CommandFails,
         Output, Decide, Goto, Return, Running, Commands, Ended
    <3>2. consent'[s] \in {consent[s], "agent"}
      BY <1>t, <2>1 DEF RunOK, Start, StartCommand, PlanEnds, ApplyEnds, Applied, CommandFails,
         Output, Decide, run_vars
    <3>3. line # NoLine => line.to # s /\ line.to \in Steps
      BY <1>t, <3>1 DEF TerminalInv, InputOK
    <3> QED BY <1>t, <2>p, <3>1, <3>2, <3>3 DEF InputOK, TerminalInv, input_vars, AnswersInv,
               AnswerIsForItsQuestion
  <2>2. CASE Redirect(s)
    <3>1. /\ lock = Nobody /\ lock' = s /\ UNCHANGED <<question, line, readFor, consent>>
          /\ pc'[s] = "show"
      BY <1>t, <2>2 DEF Redirect, Lock, Goto, RunOK, run_vars
    <3>2. \A t \in Steps : ~Holds(t)
      BY <1>t, <3>1 DEF TerminalInv
    <3> QED BY <1>t, <2>p, <3>1, <3>2 DEF InputOK, TerminalInv, AnswersInv, AnswerIsForItsQuestion
  <2>3. CASE Show(s)
    <3>1. /\ pc[s] = "show" /\ pc'[s] = "read" /\ question' = s
          /\ UNCHANGED <<lock, line, readFor, consent>>
      BY <1>t, <2>3 DEF Show, Goto, RunOK, run_vars
    <3>2. \A t \in Steps \ {s} : ~Holds(t)
      BY <3>1, HoldsAlone
    <3> QED BY <1>t, <2>p, <3>1, <3>2 DEF InputOK, TerminalInv, AnswersInv, AnswerIsForItsQuestion
  <2>4. CASE Read(s)
    <3>1. pc[s] = "read" /\ UNCHANGED <<lock, question>> /\ pc'[s] \in {"read", "restore"}
      BY <1>t, <2>4 DEF Read, ReadLine, InputEnds, Goto, RunOK
    <3>2. line' = NoLine
      BY <2>4 DEF Read, ReadLine, InputEnds
    <3>3. \/ line \in [answer : Answers, to : Steps] /\ line.to = s
             /\ readFor' = [readFor EXCEPT ![s] = s]
          \/ UNCHANGED <<readFor, consent>>
      <4>1. CASE ReadLine(s)
        <5>1. line \in [answer : Answers, to : Steps] /\ pc[line.to] = "read"
          BY <1>t, <4>1 DEF ReadLine, InputOK, TerminalInv
        <5>2. line.to = s
          BY <3>1, <5>1, HoldsAlone
        <5> QED BY <4>1, <5>1, <5>2 DEF ReadLine
      <4>2. CASE InputEnds(s)
        BY <4>2 DEF InputEnds
      <4> QED BY <2>4, <4>1, <4>2 DEF Read
    <3>4. InputOK' /\ TerminalInv'
      BY <1>t, <2>p, <3>1, <3>2, <3>3 DEF InputOK, TerminalInv
    <3>5. AnswersInv'
      BY <1>t, <2>p, <3>3 DEF InputOK, AnswersInv, AnswerIsForItsQuestion
    <3> QED BY <3>4, <3>5
  <2>5. CASE Restore(s) \/ PrintBuffer(s)
    <3>1. Holds(s) /\ pc[s] # "read" /\ pc'[s] # "read" /\ UNCHANGED input_vars
          /\ UNCHANGED consent
      BY <1>t, <2>5 DEF Restore, PrintBuffer, Goto, RunOK, run_vars
    <3>2. line # NoLine => line.to # s /\ line.to \in Steps
      BY <1>t, <3>1 DEF TerminalInv, InputOK
    <3> QED BY <1>t, <2>p, <3>1, <3>2 DEF InputOK, TerminalInv, input_vars, AnswersInv,
               AnswerIsForItsQuestion
  <2>6. CASE Unlock(s)
    <3>1. /\ Holds(s) /\ pc[s] # "read" /\ ~Holds(s)' /\ lock' = Nobody
          /\ UNCHANGED <<question, line, readFor, consent>>
      BY <1>t, <2>6 DEF Unlock, Goto, Return, RunOK, run_vars
    <3>2. \A t \in Steps \ {s} : ~Holds(t)
      BY <3>1, HoldsAlone
    <3>3. line = NoLine
      BY <1>t, <3>1, <3>2 DEF TerminalInv, InputOK
    <3> QED BY <1>t, <2>p, <3>1, <3>2, <3>3 DEF InputOK, TerminalInv, AnswersInv,
               AnswerIsForItsQuestion
  <2> QED BY <1>3, <2>1, <2>2, <2>3, <2>4, <2>5, <2>6 DEF Goroutine
<1> QED BY <1>1, <1>2, <1>3 DEF Next, Finished

LEMMA Inductive == ASSUME IInv, [Next]_vars PROVE IInv'
BY TermsKept, RunsKept, TerminalKept DEF IInv

\* Where the steps are and what the terminal shows agree at all times (the types
\* included).
THEOREM RunsConsistent == Spec => []IInv
BY InitIInv, Inductive, PTL DEF Spec

\* The answer a step acts on was typed for its own question, for any number of
\* steps that want to ask at a time (getManualApproval's lock).
THEOREM AnswersBelong == Spec => []AnswerIsForItsQuestion
<1>1. IInv => AnswerIsForItsQuestion
  BY DEF IInv, AnswersInv
<1> QED BY <1>1, RunsConsistent, PTL

(***************************************************************************)
(* The log and the buffers                                                 *)
(***************************************************************************)
Writers == Steps \cup {Terminal}
LogOK ==
  /\ log \in Writers /\ original \in [Steps -> Writers] /\ writer \in [Steps -> Writers]
  /\ buffer \in [Steps -> SUBSET Messages] /\ via \in [Messages -> Writers \cup {Nobody}]
  /\ printed \in [Messages -> Nat] /\ shared \subseteq Steps

Before == {"start", "plan", "planning", "decide", "ask"}
Asking == {"show", "read", "restore"}
Keeping == Asking \cup {"print"}
\* The log is redirected by the step that asks, from the terminal.
RedirectInv ==
  /\ \A s \in Steps : pc[s] \in Asking => log = s /\ original[s] = Terminal
  /\ log # Terminal => pc[log] \in Asking
  /\ \A s \in Steps : writer[s] # Terminal => writer[s] \in shared

\* The messages of a buffer, which are printed when its step has asked.
BufferInv ==
  /\ \A m \in Messages :
       /\ printed[m] <= 1 /\ (via[m] = Nobody => printed[m] = 0)
       /\ via[m] \in Steps =>
            /\ pc[via[m]] \notin Before
            /\ pc[via[m]] \in Keeping => printed[m] = 0
            /\ via[m] \notin shared =>
                 IF pc[via[m]] \in Keeping THEN m \in buffer[via[m]] ELSE printed[m] = 1
  /\ \A s \in Steps :
       /\ \A m \in buffer[s] : via[m] = s
       /\ pc[s] \in Before => s \notin shared
       /\ pc[s] = "start" => via[<<s, "start">>] = Nobody
LogInv == LogOK /\ RedirectInv /\ BufferInv

LEMMA InitLogInv == Init => LogInv
<1> SUFFICES ASSUME Init PROVE LogInv
  OBVIOUS
<1>1. LogOK
  BY DEF Init, LogOK, Writers
<1>2. RedirectInv
  BY NamesAssumption DEF Init, RedirectInv, Asking
<1>3. BufferInv
  <2>1. \A s \in Steps : <<s, "start">> \in Messages
    BY DEF Messages
  <2> QED BY <2>1, NamesAssumption DEF Init, BufferInv
<1> QED BY <1>1, <1>2, <1>3 DEF LogInv

\* Nothing is written and the log stays where it is.
LEMMA Quiet ==
  ASSUME RunOK, LogInv, UNCHANGED log_vars, NEW s \in Steps,
         \A t \in Steps \ {s} : pc'[t] = pc[t],
         pc'[s] # "start", pc'[s] \in Before => pc[s] \in Before,
         pc[s] \in Asking <=> pc'[s] \in Asking,
         pc[s] \in Before \/ (pc[s] \in Keeping <=> pc'[s] \in Keeping)
  PROVE  LogInv'
<1>1. LogOK'
  BY DEF LogInv, LogOK, log_vars
<1>2. RedirectInv'
  BY DEF LogInv, LogOK, RedirectInv, log_vars, Writers
<1>3. BufferInv'
  <2>1. UNCHANGED <<buffer, via, printed, shared>>
    BY DEF log_vars
  <2>2. ASSUME NEW m \in Messages
        PROVE  /\ printed[m] <= 1 /\ (via[m] = Nobody => printed[m] = 0)
               /\ via[m] \in Steps =>
                    /\ pc'[via[m]] \notin Before
                    /\ pc'[via[m]] \in Keeping => printed[m] = 0
                    /\ via[m] \notin shared =>
                         IF pc'[via[m]] \in Keeping THEN m \in buffer[via[m]] ELSE printed[m] = 1
    BY DEF LogInv, BufferInv
  <2>3. ASSUME NEW t \in Steps
        PROVE  /\ \A m \in buffer[t] : via[m] = t
               /\ pc'[t] \in Before => t \notin shared
               /\ pc'[t] = "start" => via[<<t, "start">>] = Nobody
    BY DEF LogInv, BufferInv
  <2> QED BY <2>1, <2>2, <2>3 DEF BufferInv
<1> QED BY <1>1, <1>2, <1>3 DEF LogInv

\* A message is written, to the terminal or to the buffer of a step that has asked.
Adds(m, to) ==
  /\ via[m] = Nobody /\ via' = [via EXCEPT ![m] = to]
  /\ to = Terminal => printed' = [printed EXCEPT ![m] = @ + 1] /\ UNCHANGED buffer
  /\ to # Terminal =>
       /\ UNCHANGED printed /\ pc[to] \notin Before
       /\ to \notin shared => pc[to] \in Keeping
       /\ \E kept \in SUBSET (buffer[to] \cup {m}) :
            /\ buffer' = [buffer EXCEPT ![to] = kept]
            /\ to \notin shared => kept = buffer[to] \cup {m}

LEMMA AddsKept ==
  ASSUME RunOK, LogInv, UNCHANGED <<log, original, writer, shared>>,
         NEW m \in Messages, NEW to \in Writers, Adds(m, to), NEW s \in Steps,
         \/ UNCHANGED pc /\ m[2] # "start"
         \/ m = <<s, "start">> /\ pc[s] = "start" /\ pc' = [pc EXCEPT ![s] = "plan"]
  PROVE  LogInv'
<1>t. LogOK /\ RedirectInv /\ BufferInv /\ Nobody \notin Steps /\ Terminal \notin Steps /\ Nobody # Terminal
  BY NamesAssumption DEF LogInv
<1>p. /\ \A t \in Steps : /\ pc'[t] = pc[t] \/ (pc[t] = "start" /\ pc'[t] = "plan" /\ m = <<t, "start">>)
                          /\ (pc'[t] \in Before <=> pc[t] \in Before)
                          /\ (pc'[t] \in Keeping <=> pc[t] \in Keeping)
                          /\ (pc'[t] \in Asking <=> pc[t] \in Asking)
      /\ \A t \in Steps : pc'[t] = "start" => <<t, "start">> # m /\ pc[t] = "start"
  BY DEF RunOK, Before, Keeping, Asking
<1>v. \A n \in Messages : via'[n] = IF n = m THEN to ELSE via[n]
  BY <1>t DEF Adds, LogOK
<1>1. LogOK'
  <2>1. CASE to = Terminal
    BY <1>t, <2>1 DEF Adds, LogOK, Writers
  <2>2. CASE to # Terminal
    <3>1. to \in Steps
      BY <2>2 DEF Writers
    <3> QED BY <1>t, <2>2, <3>1 DEF Adds, LogOK, Writers
  <2> QED BY <2>1, <2>2
<1>2. RedirectInv'
  BY <1>t, <1>p DEF RedirectInv, LogOK, Writers
<1>3. \A t \in Steps : /\ pc'[t] \in Before => t \notin shared'
                       /\ pc'[t] = "start" => via'[<<t, "start">>] = Nobody
  <2>1. ASSUME NEW t \in Steps, pc'[t] \in Before PROVE t \notin shared'
    BY <1>t, <1>p, <2>1 DEF BufferInv
  <2>2. ASSUME NEW t \in Steps, pc'[t] = "start" PROVE via'[<<t, "start">>] = Nobody
    <3> DEFINE n == <<t, "start">>
    <3>1. n \in Messages /\ n # m /\ via[n] = Nobody
      BY <1>t, <1>p, <2>2 DEF Messages, BufferInv
    <3> HIDE DEF n
    <3>2. via'[n] = Nobody
      BY <1>v, <3>1
    <3> QED BY <3>2 DEF n
  <2> QED BY <2>1, <2>2
<1>b. ASSUME NEW t \in Steps, NEW n \in buffer[t]
      PROVE  n \in Messages /\ n # m /\ via[n] = t
  <2>1. n \in Messages
    BY <1>t DEF LogOK
  <2>2. via[n] = t
    BY <1>t DEF BufferInv
  <2>3. via[m] = Nobody
    BY DEF Adds
  <2> QED BY <1>t, <2>1, <2>2, <2>3
<1>4. CASE to = Terminal
  <2>1. \A n \in Messages : printed'[n] = IF n = m THEN 1 ELSE printed[n]
    BY <1>t, <1>4 DEF Adds, LogOK, BufferInv
  <2>2. \A t \in Steps : \A n \in buffer'[t] : via'[n] = t
    <3>1. buffer' = buffer
      BY <1>4 DEF Adds
    <3>2. ASSUME NEW t \in Steps, NEW n \in buffer[t] PROVE via'[n] = t
      BY <1>v, <1>b
    <3> QED BY <3>1, <3>2
  <2>3. ASSUME NEW n \in Messages
        PROVE  /\ printed'[n] <= 1 /\ (via'[n] = Nobody => printed'[n] = 0)
               /\ via'[n] \in Steps =>
                    /\ pc'[via'[n]] \notin Before
                    /\ pc'[via'[n]] \in Keeping => printed'[n] = 0
                    /\ via'[n] \notin shared' =>
                         IF pc'[via'[n]] \in Keeping THEN n \in buffer'[via'[n]] ELSE printed'[n] = 1
    <3>1. CASE n = m
      BY <1>t, <1>4, <1>v, <2>1, <3>1
    <3>2. CASE n # m
      <4>1. printed'[n] = printed[n] /\ via'[n] = via[n] /\ buffer' = buffer
        BY <1>4, <1>v, <2>1, <3>2 DEF Adds
      <4> QED BY <1>t, <1>p, <4>1 DEF BufferInv
    <3> QED BY <3>1, <3>2
  <2> QED BY <1>1, <1>2, <1>3, <2>2, <2>3 DEF BufferInv, LogInv
<1>5. CASE to # Terminal
  <2>1. to \in Steps
    BY <1>5 DEF Writers
  <2>2. PICK kept \in SUBSET (buffer[to] \cup {m}) :
          /\ buffer' = [buffer EXCEPT ![to] = kept]
          /\ to \notin shared => kept = buffer[to] \cup {m}
    BY <1>5 DEF Adds
  <2>3. \A t \in Steps : buffer'[t] = IF t = to THEN kept ELSE buffer[t]
    BY <1>t, <2>2 DEF LogOK
  <2>4. \A t \in Steps : \A n \in buffer'[t] : via'[n] = t
    <3>1. ASSUME NEW t \in Steps, NEW n \in buffer[t] PROVE via'[n] = t
      BY <1>v, <1>b
    <3>2. \A n \in kept : n = m \/ n \in buffer[to]
      BY <2>2
    <3>3. via'[m] = to
      BY <1>v
    <3> QED BY <2>1, <2>3, <3>1, <3>2, <3>3
  <2>5. ASSUME NEW n \in Messages
        PROVE  /\ printed'[n] <= 1 /\ (via'[n] = Nobody => printed'[n] = 0)
               /\ via'[n] \in Steps =>
                    /\ pc'[via'[n]] \notin Before
                    /\ pc'[via'[n]] \in Keeping => printed'[n] = 0
                    /\ via'[n] \notin shared' =>
                         IF pc'[via'[n]] \in Keeping THEN n \in buffer'[via'[n]] ELSE printed'[n] = 1
    <3>0. printed' = printed /\ printed[m] = 0 /\ pc[to] \notin Before /\ (to \notin shared => pc[to] \in Keeping)
      BY <1>t, <1>5 DEF Adds, BufferInv
    <3>1. CASE n = m
      BY <1>t, <1>p, <1>v, <2>1, <2>2, <2>3, <3>0, <3>1
    <3>2. CASE n # m
      <4>1. via'[n] = via[n]
        BY <1>v, <3>2
      <4>2. via[n] \in Steps \ shared => (n \in buffer'[via[n]] <=> n \in buffer[via[n]])
        BY <2>2, <2>3, <3>2
      <4> QED BY <1>t, <1>p, <3>0, <4>1, <4>2 DEF BufferInv
    <3> QED BY <3>1, <3>2
  <2> QED BY <1>1, <1>2, <1>3, <2>4, <2>5 DEF BufferInv, LogInv
<1> QED BY <1>4, <1>5

LEMMA LogKept == ASSUME IInv, LogInv, [Next]_vars PROVE LogInv'
<1>t. /\ RunOK /\ LogOK /\ RedirectInv /\ BufferInv
      /\ Nobody \notin Steps /\ Terminal \notin Steps /\ Nobody # Terminal
  BY NamesAssumption DEF LogInv, IInv
<1>w. log \in Writers /\ (log # Terminal => log \in Steps /\ pc[log] \in Asking)
  BY <1>t DEF LogOK, RedirectInv, Writers
<1> USE DEF Goto, Return, Before, Keeping, Asking
<1>1. CASE PersonTypes \/ UNCHANGED vars
  <2>1. UNCHANGED log_vars /\ UNCHANGED pc
    BY <1>1 DEF PersonTypes, vars
  <2> QED BY <1>t, <2>1 DEF log_vars, LogInv, LogOK, RedirectInv, BufferInv
<1>2. ASSUME NEW s \in Steps, Goroutine(s) \/ Read(s) PROVE LogInv'
  <2>o. \A t \in Steps \ {s} : pc'[t] = pc[t]
    BY <1>2, GoroutineRuns DEF Own, Same
  <2>1. CASE PlanEnds(s) \/ ApplyEnds(s) \/ Applied(s) \/ CommandFails(s) \/ Decide(s) \/ Show(s)
          \/ Read(s) \/ Unlock(s)
    <3>1. UNCHANGED log_vars
      BY <2>1 DEF PlanEnds, ApplyEnds, Applied, CommandFails, Decide, Show, Read, Unlock, log_vars
    <3>2. /\ pc'[s] # "start" /\ (pc'[s] \in Before => pc[s] \in Before)
          /\ (pc[s] \in Asking <=> pc'[s] \in Asking)
          /\ (pc[s] \in Before \/ (pc[s] \in Keeping <=> pc'[s] \in Keeping))
      BY <1>t, <2>1 DEF RunOK, PlanEnds, Ended, Running, ApplyEnds, Applied, CommandFails, Decide, Show, Read,
         ReadLine, InputEnds, Unlock
    <3> QED BY <1>t, <2>o, <3>1, <3>2, Quiet DEF LogInv
  <2>2. CASE Start(s)
    <3> DEFINE m == <<s, "start">>
    <3>1. m \in Messages /\ pc[s] = "start" /\ pc' = [pc EXCEPT ![s] = "plan"]
          /\ via[m] = Nobody /\ Log(m) /\ UNCHANGED <<log, original, writer, shared>>
      BY <1>t, <2>2 DEF Start, Messages, BufferInv
    <3> HIDE DEF m
    <3>2. Adds(m, log)
      BY <1>t, <1>w, <3>1 DEF Adds, Log
    <3> QED BY <1>t, <1>w, <3>1, <3>2, AddsKept DEF LogInv, m
  <2>3. CASE Output(s)
    <3>1. PICK command \in Commands : pc[s] = Running(command) /\ Write(s, <<s, command>>)
      BY <2>3 DEF Output
    <3> DEFINE m == <<s, command>>
    <3>2. m \in Messages /\ m[2] # "start" /\ UNCHANGED <<log, original, writer, shared, pc>>
      BY <2>3 DEF Output, Messages, Commands
    <3>3. Write(s, m) /\ writer[s] \in Writers /\ (writer[s] # Terminal => writer[s] \in shared)
      BY <1>t, <3>1 DEF RedirectInv, LogOK
    <3> HIDE DEF m
    <3>4. writer[s] # Terminal => pc[writer[s]] \notin Before
      BY <1>t, <3>3 DEF BufferInv, LogOK
    <3>5. Adds(m, writer[s])
      <4>1. CASE writer[s] = Terminal
        BY <3>3, <4>1 DEF Adds, Write
      <4>2. CASE writer[s] # Terminal
        <5>1. PICK lost \in SUBSET (buffer[writer[s]] \cup {m}) :
                buffer' = [buffer EXCEPT ![writer[s]] = (@ \cup {m}) \ lost]
          BY <3>3, <4>2 DEF Write
        <5>2. /\ (buffer[writer[s]] \cup {m}) \ lost \in SUBSET (buffer[writer[s]] \cup {m})
              /\ buffer' = [buffer EXCEPT ![writer[s]] = (buffer[writer[s]] \cup {m}) \ lost]
          BY <5>1
        <5> QED BY <3>3, <3>4, <4>2, <5>2 DEF Adds, Write
      <4> QED BY <4>1, <4>2
    <3> QED BY <1>t, <3>2, <3>3, <3>5, AddsKept DEF LogInv
  <2>4. CASE StartCommand(s)
    <3>1. /\ pc[s] \in Commands /\ pc'[s] = Running(pc[s]) /\ writer' = [writer EXCEPT ![s] = log]
          /\ shared' = IF log = Terminal THEN shared ELSE shared \cup {log}
          /\ UNCHANGED <<log, original, buffer, via, printed>>
      BY <1>t, <2>4 DEF StartCommand, RunOK, Commands
    <3>2. /\ pc'[s] # "start" /\ (pc'[s] \in Before <=> pc[s] \in Before)
          /\ pc[s] \notin Keeping /\ pc'[s] \notin Keeping
      BY <3>1 DEF Commands, Running
    <3>3. LogOK'
      BY <1>t, <1>w, <3>1 DEF LogOK
    <3>4. RedirectInv'
      BY <1>t, <1>w, <2>o, <3>1, <3>2 DEF RedirectInv, LogOK
    <3>5. shared \subseteq shared' /\ \A t \in Steps : pc'[t] \in Before => t \notin shared'
      BY <1>t, <1>w, <2>o, <3>1, <3>2 DEF BufferInv
    <3>6. BufferInv'
      BY <1>t, <2>o, <3>1, <3>2, <3>5 DEF BufferInv
    <3> QED BY <3>3, <3>4, <3>6 DEF LogInv
  <2>5. CASE Redirect(s)
    <3>1. /\ lock = Nobody /\ pc[s] = "ask" /\ pc'[s] = "show"
          /\ original' = [original EXCEPT ![s] = log] /\ log' = s
          /\ UNCHANGED <<buffer, writer, via, printed, shared>>
      BY <1>t, <2>5 DEF Redirect, Lock, RunOK
    <3>2. \A t \in Steps : ~Holds(t)
      BY <1>t, <3>1 DEF IInv, TerminalInv
    <3>3. log = Terminal /\ \A t \in Steps : pc[t] \notin Keeping
      BY <1>w, <3>2 DEF Holds
    <3>4. LogOK' /\ RedirectInv'
      BY <1>t, <2>o, <3>1, <3>3 DEF LogOK, RedirectInv, Writers
    <3>5. \A n \in Messages : via[n] # s
      BY <1>t, <3>1 DEF BufferInv
    <3>6. BufferInv'
      BY <1>t, <2>o, <3>1, <3>5 DEF BufferInv
    <3> QED BY <3>4, <3>6 DEF LogInv
  <2>6. CASE Restore(s)
    <3>1. /\ pc[s] = "restore" /\ pc'[s] = "print" /\ log' = Terminal
          /\ UNCHANGED <<original, buffer, writer, via, printed, shared>>
      BY <1>t, <2>6 DEF Restore, RunOK, RedirectInv
    <3>2. \A t \in Steps \ {s} : pc[t] \notin Keeping
      BY <3>1, HoldsAlone DEF Holds
    <3>3. LogOK' /\ RedirectInv'
      BY <1>t, <2>o, <3>1, <3>2 DEF LogOK, RedirectInv, Writers
    <3>4. BufferInv'
      BY <1>t, <2>o, <3>1 DEF BufferInv
    <3> QED BY <3>3, <3>4 DEF LogInv
  <2>7. CASE PrintBuffer(s)
    <3>1. log = Terminal /\ pc[s] = "print" /\ pc'[s] = "unlock"
      <4>1. pc[s] = "print" /\ pc'[s] = "unlock"
        BY <1>t, <2>7 DEF PrintBuffer, RunOK
      <4> QED BY <1>w, <4>1, HoldsAlone DEF Holds
    <3>2. /\ printed' = [m \in Messages |-> IF m \in buffer[s] THEN printed[m] + 1 ELSE printed[m]]
          /\ UNCHANGED <<log, original, buffer, writer, via, shared>>
      BY <2>7, <3>1 DEF PrintBuffer
    <3>3. \A m \in Messages : printed'[m] = IF m \in buffer[s] THEN 1 ELSE printed[m]
      <4>1. ASSUME NEW m \in Messages, m \in buffer[s] PROVE printed[m] = 0
        <5>1. via[m] = s
          BY <1>t, <4>1 DEF BufferInv
        <5> QED BY <1>t, <3>1, <5>1 DEF BufferInv
      <4> QED BY <3>2, <4>1
    <3>4. LogOK'
      BY <1>t, <3>2 DEF LogOK
    <3>5. RedirectInv'
      BY <1>t, <2>o, <3>1, <3>2 DEF RedirectInv, LogOK
    <3>6. \A m \in Messages : via[m] # s => m \notin buffer[s]
      BY <1>t DEF BufferInv
    <3>7. ASSUME NEW m \in Messages
          PROVE  /\ printed'[m] <= 1 /\ (via[m] = Nobody => printed'[m] = 0)
                 /\ via[m] \in Steps =>
                      /\ pc'[via[m]] \notin Before
                      /\ pc'[via[m]] \in Keeping => printed'[m] = 0
                      /\ via[m] \notin shared =>
                           IF pc'[via[m]] \in Keeping THEN m \in buffer[via[m]] ELSE printed'[m] = 1
      <4>1. CASE via[m] = s
        BY <1>t, <3>1, <3>3, <4>1 DEF BufferInv
      <4>2. CASE via[m] # s
        BY <1>t, <2>o, <3>3, <3>6, <4>2 DEF BufferInv
      <4> QED BY <4>1, <4>2
    <3>8. ASSUME NEW t \in Steps
          PROVE  /\ \A m \in buffer[t] : via[m] = t
                 /\ pc'[t] \in Before => t \notin shared
                 /\ pc'[t] = "start" => via[<<t, "start">>] = Nobody
      BY <1>t, <2>o, <3>1 DEF BufferInv
    <3> QED BY <3>2, <3>4, <3>5, <3>7, <3>8 DEF LogInv, BufferInv
  <2> QED BY <1>2, <2>1, <2>2, <2>3, <2>4, <2>5, <2>6, <2>7 DEF Goroutine
<1> QED BY <1>1, <1>2 DEF Next, Finished

\* When nothing is asked the log is on the terminal, and what was logged during
\* a question has been printed after it, once, unless a command wrote to the same
\* buffer, for any number of steps that ask, log and run commands at a time
\* (getManualApproval's buffer, executeWrapper).
THEOREM LogReturns == Spec => []LogComesBack
<1>1. ASSUME IInv, LogInv PROVE LogComesBack
  <2>1. lock = Nobody => log = Terminal
    <3>1. log # Terminal => log \in Steps /\ Holds(log)
      BY <1>1 DEF LogInv, LogOK, RedirectInv, Writers, Asking, Holds
    <3> QED BY <1>1, <3>1, NamesAssumption DEF IInv, TerminalInv
  <2>2. ASSUME NEW m \in Messages
        PROVE  /\ printed[m] <= 1
               /\ via[m] \in Steps \ shared /\ pc[via[m]] \in {"unlock", "apply", "applying", "applied", "over"}
                    => printed[m] = 1
    BY <1>1 DEF LogInv, BufferInv, Keeping, Asking
  <2> QED BY <2>1, <2>2 DEF LogComesBack
<1>2. IInv /\ LogInv /\ [Next]_vars => LogInv'
  BY LogKept
<1> QED BY <1>1, <1>2, InitLogInv, RunsConsistent, PTL DEF Spec

(***************************************************************************)
(* LocalPipeline implements StepPipeline                                   *)
(***************************************************************************)
LEMMA TermsMapped == ASSUME TermsOK PROVE \A s \in Steps :
  /\ step[s] \in StepProperties /\ Manual(s) \in ManualApproveTypes
  /\ [approve |-> step[s].approve, manual |-> Manual(s), auto |-> auto[s]] \in Promise!Terms
<1> TAKE s \in Steps
<1>1. step[s] \in StepProperties /\ auto[s] \in BOOLEAN
  BY StepAssumption DEF TermsOK
<1>2. step[s].approve \in ApproveTypes /\ Manual(s) \in ManualApproveTypes
  BY <1>1 DEF StepProperties, Manual, ManualApproval, ManualApproveTypes
<1> QED BY <1>1, <1>2 DEF Promise!Terms, Promise!ApproveTypes, Promise!ManualApproveTypes,
           ApproveTypes, ManualApproveTypes

\* Both name the same things.
LEMMA SameDecisions ==
  /\ Promise!PipelineChanges = PipelineChanges
  /\ \A f, a, auto_, m : Promise!NeedsPerson(f, a, auto_, m) <=> NeedsPerson(f, a, auto_, m)
  /\ \A a, m : Promise!RejectsPlans(a, m) <=> RejectsPlans(a, m)
BY DEF Promise!PipelineChanges, PipelineChanges, Promise!NeedsPerson, NeedsPerson,
       Promise!RejectsPlans, RejectsPlans

LEMMA InitMapped == ASSUME Init, IInv PROVE Promise!Init
BY TermsMapped DEF Init, IInv, Promise!Init

MappedTerms == [s \in Steps |-> [approve |-> step[s].approve, manual |-> Manual(s),
                                 auto |-> auto[s]]]

\* The agent consents to no plan that needs a person.
LEMMA AgentMay ==
  ASSUME IInv, NEW s \in Steps, found[s] \in PipelineChanges,
         ~ShouldStop(found[s], step[s].approve, Manual(s)),
         ShouldApprove(found[s], step[s].approve, auto[s], Manual(s))
  PROVE  Promise!MayConsent(s)
<1>1. /\ step[s] \in [approve : ApproveTypes, run : ManualApproveTypes, update : ManualApproveTypes]
      /\ cmd \in {"run", "update"} /\ auto[s] \in AutoApproves(step[s].approve)
  BY StepAssumption DEF IInv, TermsOK, StepProperties
<1>2. ~found[s].noChanges /\ ~NeedsPerson(found[s], step[s].approve, auto[s], Manual(s))
  BY <1>1, DecidesAsDocumented DEF Manual
<1> QED BY <1>2, SameDecisions DEF Promise!MayConsent

\* Every step of a goroutine is one of the run of its pipeline, or none.
LEMMA StepMapped ==
  ASSUME IInv, IInv', NEW s \in Steps, Goroutine(s) \/ Read(s), UNCHANGED terms_vars
  PROVE  Promise!Next \/ UNCHANGED Promise!vars
<1>t. RunOK /\ RunOK' /\ Progress(s) /\ NoPlan \notin PipelineChanges /\ Plans \subseteq PipelineChanges
  BY PlansAssumption DEF IInv
<1>u. UNCHANGED MappedTerms
  BY DEF MappedTerms, Manual, terms_vars
<1>s. ASSUME UNCHANGED <<found, consent, applied, result>> PROVE UNCHANGED Promise!vars
  BY <1>s, <1>u DEF Promise!vars, MappedTerms
<1>1. CASE Start(s) \/ Output(s) \/ Redirect(s) \/ Show(s) \/ Restore(s) \/ PrintBuffer(s)
  BY <1>1, <1>s DEF Start, Output, Redirect, Show, Restore, PrintBuffer, run_vars
<1>2. CASE StartCommand(s)
  <2>1. CASE pc[s] = "plan"
    BY <1>2, <1>s, <2>1 DEF StartCommand
  <2>2. CASE pc[s] = "apply"
    <3>1. Promise!Apply(s)
      BY <1>2, <1>t, <1>u, <2>2 DEF StartCommand, Promise!Apply, Progress, MappedTerms
    <3> QED BY <3>1 DEF Promise!Next
  <2> QED BY <1>2, <2>1, <2>2 DEF StartCommand, Commands
<1>3. CASE PlanEnds(s)
  <2>1. pc[s] = "planning" /\ found[s] = NoPlan
    BY <1>3, <1>t DEF PlanEnds, Ended, Running, Progress, Unplanned
  <2>2. PICK changes \in Plans : found' = [found EXCEPT ![s] = changes]
    BY <1>3 DEF PlanEnds
  <2>3. found'[s] = changes /\ changes \in PipelineChanges
    BY <1>t, <2>2 DEF RunOK
  <2>4. Promise!Plan(s)
    <3>1. found' = [found EXCEPT ![s] = found'[s]]
      BY <2>2, <2>3
    <3>2. found'[s] \in Promise!PipelineChanges
      BY <2>3, SameDecisions
    <3>3. UNCHANGED <<MappedTerms, consent, applied, result>>
      BY <1>3, <1>u DEF PlanEnds
    <3> QED BY <2>1, <3>1, <3>2, <3>3 DEF Promise!Plan, MappedTerms
  <2> QED BY <2>4 DEF Promise!Next
<1>4. CASE ApplyEnds(s)
  <2>1. Promise!ApplyEnds(s)
    BY <1>4, <1>t, <1>u DEF ApplyEnds, Ended, Running, Promise!ApplyEnds, Progress, MappedTerms
  <2> QED BY <2>1 DEF Promise!Next
<1>5. CASE Applied(s)
  <2>1. Promise!Return(s, "nil")
    BY <1>5, <1>t, <1>u DEF Applied, Return, run_vars, Promise!Return, Promise!Fulfilled, Progress,
       MappedTerms
  <2> QED BY <2>1 DEF Promise!Next
<1>6. CASE CommandFails(s)
  <2>1. Promise!Return(s, "error")
    BY <1>6, <1>t, <1>u DEF CommandFails, Return, run_vars, Promise!Return, Progress, MappedTerms
  <2> QED BY <2>1 DEF Promise!Next
<1>7. CASE Decide(s)
  <2>1. /\ pc[s] = "decide" /\ found[s] \in PipelineChanges /\ consent[s] = "nobody"
        /\ result[s] = "none" /\ found[s] # NoPlan
    BY <1>7, <1>t DEF Decide, Progress, RunOK, Unplanned, Undecided
  <2>2. CASE ShouldStop(found[s], step[s].approve, Manual(s))
    <3> DEFINE value == IF RejectsPlans(step[s].approve, Manual(s)) THEN "error" ELSE "nil"
    <3>1. value = "nil" => found[s].noChanges /\ ~RejectsPlans(step[s].approve, Manual(s))
      BY <2>2 DEF ShouldStop
    <3>2. result' = [result EXCEPT ![s] = value] /\ UNCHANGED <<found, consent, applied>>
      BY <1>7, <2>2 DEF Decide, Return
    <3>3. value = "nil" => Promise!Fulfilled(s)
      BY <2>1, <3>1, SameDecisions DEF Promise!Fulfilled
    <3>4. value \in {"nil", "error"}
      OBVIOUS
    <3> HIDE DEF value
    <3>5. Promise!Return(s, value)
      BY <1>u, <2>1, <3>2, <3>3 DEF Promise!Return, MappedTerms
    <3> QED BY <3>4, <3>5 DEF Promise!Next
  <2>3. CASE /\ ~ShouldStop(found[s], step[s].approve, Manual(s))
             /\ ShouldApprove(found[s], step[s].approve, auto[s], Manual(s))
    <3>1. Promise!MayConsent(s)
      BY <2>1, <2>3, AgentMay
    <3>2. consent' = [consent EXCEPT ![s] = "agent"] /\ UNCHANGED <<found, applied, result>>
      BY <1>7, <2>3 DEF Decide
    <3>3. Promise!Consent(s, "agent")
      BY <1>u, <2>1, <3>1, <3>2 DEF Promise!Consent, MappedTerms
    <3> QED BY <3>3 DEF Promise!Next
  <2>4. CASE /\ ~ShouldStop(found[s], step[s].approve, Manual(s))
             /\ ~ShouldApprove(found[s], step[s].approve, auto[s], Manual(s))
    BY <1>7, <2>4, <1>s DEF Decide
  <2> QED BY <2>2, <2>3, <2>4
<1>8. CASE Unlock(s)
  <2>1. CASE consent[s] = "person"
    BY <1>8, <2>1, <1>s DEF Unlock, run_vars
  <2>2. CASE consent[s] # "person"
    <3>1. Promise!Return(s, "error")
      BY <1>8, <1>t, <1>u, <2>2 DEF Unlock, Return, run_vars, Promise!Return, Progress, MappedTerms
    <3> QED BY <3>1 DEF Promise!Next
  <2> QED BY <2>1, <2>2
<1>9. CASE Read(s)
  <2>1. CASE UNCHANGED consent
    BY <1>9, <1>s, <2>1 DEF Read
  <2>2. CASE consent' = [consent EXCEPT ![s] = "person"]
    <3>1. found[s] # NoPlan /\ consent[s] = "nobody" /\ UNCHANGED <<found, applied, result>>
      BY <1>9, <1>t DEF Read, Progress, Unplanned, Undecided
    <3>2. Promise!Consent(s, "person")
      BY <1>u, <2>2, <3>1 DEF Promise!Consent, MappedTerms
    <3> QED BY <3>2 DEF Promise!Next
  <2> QED BY <1>9, <2>1, <2>2 DEF Read, ReadLine, InputEnds
<1> QED BY <1>1, <1>2, <1>3, <1>4, <1>5, <1>6, <1>7, <1>8, <1>9 DEF Goroutine

LEMMA NextMapped ==
  ASSUME IInv, IInv', [Next]_vars PROVE Promise!Next \/ UNCHANGED Promise!vars
<1>1. UNCHANGED terms_vars
  BY TermsKept DEF IInv
<1>2. ASSUME NEW s \in Steps, Goroutine(s) \/ Read(s)
      PROVE  Promise!Next \/ UNCHANGED Promise!vars
  BY <1>1, <1>2, StepMapped
<1>3. CASE PersonTypes \/ UNCHANGED vars
  BY <1>1, <1>3 DEF PersonTypes, vars, run_vars, terms_vars, Promise!vars, Manual
<1> QED BY <1>2, <1>3 DEF Next, Finished

\* A step that the agent runs itself keeps the promise of the pipelines at the
\* providers, for any properties, plans and number of parallel steps: it is
\* applied only with consent, the agent's own being what the documentation
\* allows, and it succeeds only if it was applied or had nothing to apply
\* (executeLocalPipeline implements StepPipeline).
THEOREM PromiseKept == Spec => KeepsPromise
<1>1. Init => Promise!Init
  BY InitIInv, InitMapped
<1>2. IInv /\ IInv' /\ [Next]_vars => [Promise!Next]_Promise!vars
  BY NextMapped
<1> QED BY <1>1, <1>2, RunsConsistent, PTL DEF Spec, KeepsPromise, Promise!Spec
------------------------------------------------------------------------------
(***************************************************************************)
(* The pipeline at Google Cloud, beside the one above                      *)
(***************************************************************************)
CONSTANT Overlap
VARIABLES bundle, exists, release, render, rollout, approvedBy, job, notified
Google == INSTANCE CloudDeploy

\* Both decide on plans by the same rules.
LEMMA SameProperties ==
  /\ Google!ApproveTypes = ApproveTypes /\ Google!ManualApproveTypes = ManualApproveTypes
  /\ Google!StepProperties = StepProperties /\ Google!PipelineChanges = PipelineChanges
BY DEF Google!ApproveTypes, ApproveTypes, Google!ManualApproveTypes, ManualApproveTypes,
       Google!StepProperties, StepProperties, Google!PipelineChanges, PipelineChanges

LEMMA GoogleDecides ==
  ASSUME NEW plan \in Google!PipelineChanges,
         NEW properties \in [approve : Google!ApproveTypes, run : Google!ManualApproveTypes,
                             update : Google!ManualApproveTypes],
         NEW command \in {"run", "update"},
         NEW autoApprove \in Google!AutoApproves(properties.approve),
         ~Google!ShouldStop(plan, properties.approve, Google!ManualApproval(properties, command)),
         Google!ShouldApprove(plan, properties.approve, autoApprove,
                              Google!ManualApproval(properties, command))
  PROVE  ~plan.noChanges /\ ~Google!NeedsPerson(plan, properties.approve, autoApprove,
                                                 Google!ManualApproval(properties, command))
<1> DEFINE manual == ManualApproval(properties, command)
<1>1. Google!ManualApproval(properties, command) = manual
  BY Zenon DEF Google!ManualApproval, ManualApproval
<1> HIDE DEF manual
<1>2. ~ShouldStop(plan, properties.approve, manual)
  BY <1>1 DEF Google!ShouldStop, ShouldStop, Google!RejectsPlans, RejectsPlans
<1>3. ShouldApprove(plan, properties.approve, autoApprove, manual)
  BY <1>1, Zenon DEF Google!ShouldApprove, ShouldApprove
<1>4. autoApprove \in AutoApproves(properties.approve)
  BY Zenon DEF Google!AutoApproves, AutoApproves
<1>5. ~plan.noChanges /\ ~NeedsPerson(plan, properties.approve, autoApprove, manual)
  BY <1>2, <1>3, <1>4, SameProperties, DecidesAsDocumented DEF manual
<1>6. NeedsPerson(plan, properties.approve, autoApprove, manual) <=>
        Google!NeedsPerson(plan, properties.approve, autoApprove, manual)
  BY Zenon DEF NeedsPerson, Google!NeedsPerson
<1> QED BY <1>1, <1>5, <1>6


(***************************************************************************)
(* Types                                                                   *)
(***************************************************************************)
CallsOK ==
  /\ pc \in [Sessions -> Google!Calls] /\ result \in [Sessions -> {"none", "nil", "error"}]
  /\ notified \in [Sessions -> BOOLEAN]
TermsTyped ==
  step \in StepApprovals /\ cmd \in [Sessions -> {"run", "update"}] /\ auto \in [Sessions -> BOOLEAN]
ReleasesOK ==
  /\ bundle \in Sessions \cup {Nobody} /\ exists \in BOOLEAN
  /\ release \in [Sessions -> Sessions \cup {Nobody}]
  /\ render \in [Sessions -> {"none", "inProgress", "succeeded", "failed"}]
RolloutsOK ==
  /\ rollout \in [Sessions -> [Google!Stages -> Google!RolloutStates]] /\ late \subseteq Sessions
  /\ approvedBy \in [Sessions -> {"nobody", "agent", "person"}]
  /\ job \in [Google!Stages -> Sessions \cup {Nobody}]
JobsOK ==
  /\ execution \in [Sessions -> [Google!Stages -> {"none", "running", "succeeded", "failed"}]]
  /\ ran \in [Sessions -> [Google!Stages -> Sessions \cup {Nobody}]]
  /\ found \in [Sessions -> Google!PipelineChanges \cup {NoPlan}]

LEMMA TypeParts == Google!TypeOK <=> CallsOK /\ TermsTyped /\ ReleasesOK /\ RolloutsOK /\ JobsOK
BY DEF Google!TypeOK, CallsOK, TermsTyped, ReleasesOK, RolloutsOK, JobsOK

\* The steps, and what they leave alone.
Waits(s) ==
  \/ Google!WaitForRender(s) \/ Google!WaitForPlanRollout(s) \/ Google!PlanExecuted(s)
  \/ Google!Decide(s) \/ Google!ApplyTimesOut(s) \/ Google!ApplyExecuted(s) \/ Google!Fails(s)

LEMMA StepCases ==
  ASSUME [Google!Next]_Google!vars
  PROVE  \/ UNCHANGED Google!vars
         \/ \E s \in Sessions :
              \/ Google!Begin(s) \/ Google!PutBundle(s) \/ Google!CreateDeliveryPipeline(s)
              \/ Google!CreateRelease(s) \/ Waits(s) \/ Google!CreatePlanRollout(s)
              \/ Google!ExecutePlan(s) \/ Google!CreateApplyRollout(s)
              \/ Google!PollPendingApproval(s) \/ Google!ApproveRollout(s)
              \/ Google!PollApplyRollout(s) \/ Google!ExecuteApply(s)
              \/ Google!RenderEnds(s) \/ Google!PendingStarts(s) \/ Google!RolloutEnds(s)
              \/ Google!JobEnds(s) \/ Google!PersonDecides(s)
BY DEF Google!Next, Google!Session, Google!Cloud, Google!Finished, Waits

LEMMA WaitsKeep ==
  ASSUME NEW s \in Sessions, Waits(s)
  PROVE  /\ UNCHANGED <<Google!release_vars, Google!rollout_vars, Google!job_vars, notified,
                        step, cmd, auto>>
         /\ \/ \E call \in Google!Calls : Google!Goto(s, call) /\ UNCHANGED result
            \/ \E value \in {"nil", "error"} : Google!Return(s, value)
<1>1. UNCHANGED <<Google!release_vars, Google!rollout_vars, Google!job_vars, notified, step, cmd, auto>>
  BY DEF Waits, Google!WaitForRender, Google!WaitForPlanRollout, Google!PlanExecuted,
     Google!Decide, Google!ApplyTimesOut, Google!ApplyExecuted, Google!Fails
<1>2. CASE Google!WaitForRender(s)
  BY <1>2 DEF Google!WaitForRender, Google!Calls
<1>3. CASE Google!WaitForPlanRollout(s)
  BY <1>3 DEF Google!WaitForPlanRollout, Google!Calls
<1>4. CASE Google!PlanExecuted(s)
  BY <1>4 DEF Google!PlanExecuted, Google!Calls
<1>5. CASE Google!Decide(s)
  BY <1>5 DEF Google!Decide, Google!Calls
<1>6. CASE Google!ApplyTimesOut(s) \/ Google!ApplyExecuted(s) \/ Google!Fails(s)
  BY <1>6 DEF Google!ApplyTimesOut, Google!ApplyExecuted, Google!Fails
<1> QED BY <1>1, <1>2, <1>3, <1>4, <1>5, <1>6 DEF Waits

LEMMA GotoTyped ==
  ASSUME CallsOK, NEW s \in Sessions, NEW call \in Google!Calls, Google!Goto(s, call), UNCHANGED result
  PROVE  pc' \in [Sessions -> Google!Calls] /\ result' \in [Sessions -> {"none", "nil", "error"}]
BY DEF CallsOK, Google!Goto

LEMMA ReturnTyped ==
  ASSUME CallsOK, NEW s \in Sessions, NEW value \in {"nil", "error"}, Google!Return(s, value)
  PROVE  pc' \in [Sessions -> Google!Calls] /\ result' \in [Sessions -> {"none", "nil", "error"}]
<1>1. "over" \in Google!Calls
  BY DEF Google!Calls
<1> QED BY <1>1 DEF CallsOK, Google!Return, Google!Goto

LEMMA CallsStep == ASSUME CallsOK, [Google!Next]_Google!vars PROVE CallsOK'
<1>1. ASSUME NEW s \in Sessions,
             \/ Google!Begin(s) \/ Google!PutBundle(s) \/ Google!CreateDeliveryPipeline(s)
             \/ Google!CreateRelease(s) \/ Google!CreatePlanRollout(s)
             \/ Google!ExecutePlan(s) \/ Google!CreateApplyRollout(s)
             \/ Google!ApproveRollout(s) \/ Google!ExecuteApply(s)
      PROVE  CallsOK'
  <2>1. PICK call \in Google!Calls : Google!Goto(s, call)
    BY <1>1 DEF Google!Begin, Google!PutBundle, Google!CreateDeliveryPipeline,
       Google!CreateRelease, Google!CreatePlanRollout, Google!ExecutePlan,
       Google!CreateApplyRollout, Google!ApproveRollout, Google!ExecuteApply, Google!Calls
  <2>2. UNCHANGED <<result, notified>>
    BY <1>1 DEF Google!Begin, Google!PutBundle, Google!CreateDeliveryPipeline,
       Google!CreateRelease, Google!CreatePlanRollout, Google!ExecutePlan,
       Google!CreateApplyRollout, Google!ApproveRollout, Google!ExecuteApply
  <2> QED BY <2>1, <2>2, GotoTyped DEF CallsOK
<1>2. ASSUME NEW s \in Sessions, Waits(s)
      PROVE  CallsOK'
  BY <1>2, WaitsKeep, GotoTyped, ReturnTyped DEF CallsOK
<1>3. ASSUME NEW s \in Sessions, Google!PollPendingApproval(s)
      PROVE  CallsOK'
  BY <1>3 DEF Google!PollPendingApproval, Google!Ask, Google!Goto, Google!Calls, CallsOK
<1>4. ASSUME NEW s \in Sessions, Google!PollApplyRollout(s)
      PROVE  CallsOK'
  <2>1. notified' \in [Sessions -> BOOLEAN]
    BY <1>4 DEF Google!PollApplyRollout, Google!Announce, CallsOK
  <2>2. \/ UNCHANGED <<pc, result>>
        \/ Google!Goto(s, "applyJob") /\ UNCHANGED result
        \/ Google!Return(s, "error")
    BY <1>4 DEF Google!PollApplyRollout
  <2>3. "applyJob" \in Google!Calls
    BY DEF Google!Calls
  <2> QED BY <2>1, <2>2, <2>3, GotoTyped, ReturnTyped DEF CallsOK
<1>5. ASSUME NEW s \in Sessions,
             \/ Google!RenderEnds(s) \/ Google!PendingStarts(s) \/ Google!RolloutEnds(s)
             \/ Google!JobEnds(s) \/ Google!PersonDecides(s)
      PROVE  CallsOK'
  BY <1>5 DEF Google!RenderEnds, Google!PendingStarts, Google!RolloutEnds, Google!JobEnds,
     Google!PersonDecides, CallsOK
<1>6. CASE UNCHANGED Google!vars
  BY <1>6 DEF Google!vars, CallsOK
<1> QED BY StepCases, <1>1, <1>2, <1>3, <1>4, <1>5, <1>6

\* A session has its terms from the moment it begins.
LEMMA TermsStep ==
  ASSUME TermsTyped, [Google!Next]_Google!vars
  PROVE  /\ TermsTyped' /\ UNCHANGED step
         /\ \/ UNCHANGED <<cmd, auto>>
            \/ \E s \in Sessions, command \in {"run", "update"},
                  approves \in Google!AutoApproves(step.approve) :
                 /\ Google!Begin(s) /\ cmd' = [cmd EXCEPT ![s] = command]
                 /\ auto' = [auto EXCEPT ![s] = approves]
<1>1. ASSUME NEW s \in Sessions, Google!Begin(s)
      PROVE  /\ UNCHANGED step
             /\ \E command \in {"run", "update"},
                   approves \in Google!AutoApproves(step.approve) :
                  cmd' = [cmd EXCEPT ![s] = command] /\ auto' = [auto EXCEPT ![s] = approves]
  BY <1>1 DEF Google!Begin
<1>2. ASSUME NEW s \in Sessions,
             \/ Google!PutBundle(s) \/ Google!CreateDeliveryPipeline(s)
             \/ Google!CreateRelease(s) \/ Waits(s) \/ Google!CreatePlanRollout(s)
             \/ Google!ExecutePlan(s) \/ Google!CreateApplyRollout(s)
             \/ Google!PollPendingApproval(s) \/ Google!ApproveRollout(s)
             \/ Google!PollApplyRollout(s) \/ Google!ExecuteApply(s) \/ Google!RenderEnds(s)
             \/ Google!PendingStarts(s) \/ Google!RolloutEnds(s) \/ Google!JobEnds(s)
             \/ Google!PersonDecides(s)
      PROVE  UNCHANGED <<step, cmd, auto>>
  BY <1>2, WaitsKeep DEF Google!PutBundle, Google!CreateDeliveryPipeline,
     Google!CreateRelease, Google!CreatePlanRollout, Google!ExecutePlan,
     Google!CreateApplyRollout, Google!PollPendingApproval, Google!ApproveRollout,
     Google!PollApplyRollout, Google!ExecuteApply, Google!RenderEnds, Google!PendingStarts,
     Google!RolloutEnds, Google!JobEnds, Google!PersonDecides
<1>3. UNCHANGED Google!vars => UNCHANGED <<step, cmd, auto>>
  BY DEF Google!vars
<1>4. \A approve : Google!AutoApproves(approve) \subseteq BOOLEAN
  BY DEF Google!AutoApproves
<1> QED BY StepCases, <1>1, <1>2, <1>3, <1>4 DEF TermsTyped

LEMMA ReleasesStep == ASSUME ReleasesOK, [Google!Next]_Google!vars PROVE ReleasesOK'
<1>1. ASSUME NEW s \in Sessions,
             Google!PutBundle(s) \/ Google!CreateDeliveryPipeline(s) \/ Google!CreateRelease(s)
      PROVE  ReleasesOK'
  BY <1>1 DEF Google!PutBundle, Google!CreateDeliveryPipeline, Google!CreateRelease,
     ReleasesOK
<1>2. ASSUME NEW s \in Sessions, Google!RenderEnds(s)
      PROVE  ReleasesOK'
  BY <1>2 DEF Google!RenderEnds, ReleasesOK
<1>3. ASSUME NEW s \in Sessions,
             \/ Google!Begin(s) \/ Waits(s) \/ Google!CreatePlanRollout(s)
             \/ Google!ExecutePlan(s) \/ Google!CreateApplyRollout(s)
             \/ Google!PollPendingApproval(s) \/ Google!ApproveRollout(s)
             \/ Google!PollApplyRollout(s) \/ Google!ExecuteApply(s)
             \/ Google!PendingStarts(s) \/ Google!RolloutEnds(s) \/ Google!JobEnds(s)
             \/ Google!PersonDecides(s)
      PROVE  ReleasesOK'
  <2>1. UNCHANGED Google!release_vars
    BY <1>3, WaitsKeep DEF Google!Begin, Google!CreatePlanRollout, Google!ExecutePlan,
       Google!CreateApplyRollout, Google!PollPendingApproval, Google!ApproveRollout,
       Google!PollApplyRollout, Google!ExecuteApply, Google!PendingStarts,
       Google!RolloutEnds, Google!JobEnds, Google!PersonDecides
  <2> QED BY <2>1 DEF Google!release_vars, ReleasesOK
<1>4. CASE UNCHANGED Google!vars
  BY <1>4 DEF Google!vars, Google!release_vars, ReleasesOK
<1> QED BY StepCases, <1>1, <1>2, <1>3, <1>4

\* What happens to the rollout of a session to a target.
Moved(s, stage, state) == rollout' = [rollout EXCEPT ![s][stage] = state]

LEMMA StartMoves ==
  ASSUME NEW s \in Sessions, NEW stage \in Google!Stages, Google!Start(s, stage)
  PROVE  \E state \in {"pending", "inProgress"} :
           Moved(s, stage, state) /\ (state = "inProgress" => ~Google!Taken(stage))
BY DEF Google!Start, Moved

LEMMA MovedTyped ==
  ASSUME RolloutsOK, NEW s \in Sessions, NEW stage \in Google!Stages, NEW state \in Google!RolloutStates,
         Moved(s, stage, state)
  PROVE  /\ rollout' \in [Sessions -> [Google!Stages -> Google!RolloutStates]]
         /\ rollout'[s][stage] = state
         /\ \A t \in Sessions, other \in Google!Stages :
              t # s \/ other # stage => rollout'[t][other] = rollout[t][other]
BY DEF RolloutsOK, Moved

\* The steps that change rollouts, approvals or definitions of jobs.
LEMMA RolloutSteps ==
  ASSUME [Google!Next]_Google!vars
  PROVE  \/ UNCHANGED Google!rollout_vars
         \/ \E s \in Sessions :
              \/ Google!CreatePlanRollout(s) \/ Google!CreateApplyRollout(s)
              \/ Google!ApproveRollout(s) \/ Google!PendingStarts(s)
              \/ Google!RolloutEnds(s) \/ Google!PersonDecides(s)
<1>1. ASSUME NEW s \in Sessions,
             \/ Google!Begin(s) \/ Google!PutBundle(s) \/ Google!CreateDeliveryPipeline(s)
             \/ Google!CreateRelease(s) \/ Waits(s) \/ Google!ExecutePlan(s)
             \/ Google!PollPendingApproval(s) \/ Google!PollApplyRollout(s)
             \/ Google!ExecuteApply(s) \/ Google!RenderEnds(s) \/ Google!JobEnds(s)
      PROVE  UNCHANGED Google!rollout_vars
  BY <1>1, WaitsKeep DEF Google!Begin, Google!PutBundle, Google!CreateDeliveryPipeline,
     Google!CreateRelease, Google!ExecutePlan, Google!PollPendingApproval,
     Google!PollApplyRollout, Google!ExecuteApply, Google!RenderEnds, Google!JobEnds
<1>2. UNCHANGED Google!vars => UNCHANGED Google!rollout_vars
  BY DEF Google!vars, Google!rollout_vars
<1> QED BY StepCases, <1>1, <1>2

LEMMA RolloutsStep == ASSUME RolloutsOK, ReleasesOK, [Google!Next]_Google!vars PROVE RolloutsOK'
<1> USE DEF Google!rollout_vars
<1>0. {"pending", "inProgress", "pendingApproval", "rejected", "failed", "succeeded"}
        \subseteq Google!RolloutStates
  BY DEF Google!RolloutStates
<1>1. ASSUME NEW s \in Sessions, Google!CreatePlanRollout(s)
      PROVE  RolloutsOK'
  <2>1. PICK state \in {"pending", "inProgress"} : Moved(s, "plan", state)
    BY <1>1, StartMoves DEF Google!CreatePlanRollout, Google!Stages
  <2>2. rollout' \in [Sessions -> [Google!Stages -> Google!RolloutStates]]
    BY <1>0, <2>1, MovedTyped DEF Google!Stages
  <2> QED BY <1>1, <2>2 DEF Google!CreatePlanRollout, RolloutsOK
<1>2. ASSUME NEW s \in Sessions, Google!CreateApplyRollout(s)
      PROVE  RolloutsOK'
  <2>1. Moved(s, "apply", "pendingApproval")
    BY <1>2 DEF Google!CreateApplyRollout, Moved
  <2>2. rollout' \in [Sessions -> [Google!Stages -> Google!RolloutStates]]
    BY <1>0, <2>1, MovedTyped DEF Google!Stages
  <2> QED BY <1>2, <2>2 DEF Google!CreateApplyRollout, RolloutsOK
<1>3. ASSUME NEW s \in Sessions, NEW who \in {"agent", "person"}, Google!Approve(s, who),
             UNCHANGED job, late' \subseteq late \cup {s}
      PROVE  RolloutsOK'
  <2>1. PICK state \in {"pending", "inProgress"} : Moved(s, "apply", state)
    BY <1>3, StartMoves DEF Google!Approve, Google!Stages
  <2>2. rollout' \in [Sessions -> [Google!Stages -> Google!RolloutStates]]
    BY <1>0, <2>1, MovedTyped DEF Google!Stages
  <2> QED BY <1>3, <2>2 DEF Google!Approve, RolloutsOK
<1>4. ASSUME NEW s \in Sessions, Google!ApproveRollout(s)
      PROVE  RolloutsOK'
  BY <1>3, <1>4 DEF Google!ApproveRollout, RolloutsOK
<1>5. ASSUME NEW s \in Sessions, Google!PersonDecides(s)
      PROVE  RolloutsOK'
  <2>1. CASE Google!Approve(s, "person") /\ late' = IF Google!Over(s) THEN late \cup {s} ELSE late
    BY <1>3, <1>5, <2>1 DEF Google!PersonDecides
  <2>2. CASE Moved(s, "apply", "rejected") /\ UNCHANGED <<approvedBy, late>>
    <3>1. rollout' \in [Sessions -> [Google!Stages -> Google!RolloutStates]]
      BY <1>0, <2>2, MovedTyped DEF Google!Stages
    <3> QED BY <1>5, <2>2, <3>1 DEF Google!PersonDecides, RolloutsOK
  <2> QED BY <1>5, <2>1, <2>2 DEF Google!PersonDecides, Moved
<1>6. ASSUME NEW s \in Sessions, Google!PendingStarts(s)
      PROVE  RolloutsOK'
  <2>1. PICK stage \in Google!Stages : Moved(s, stage, "inProgress")
    BY <1>6 DEF Google!PendingStarts, Moved
  <2>2. rollout' \in [Sessions -> [Google!Stages -> Google!RolloutStates]]
    BY <1>0, <2>1, MovedTyped
  <2> QED BY <1>6, <2>2 DEF Google!PendingStarts, RolloutsOK
<1>7. ASSUME NEW s \in Sessions, Google!RolloutEnds(s)
      PROVE  RolloutsOK'
  <2>1. PICK stage \in Google!Stages, state \in {"succeeded", "failed"} :
          Moved(s, stage, state) /\ job' \in {job, [job EXCEPT ![stage] = release[s]]}
    BY <1>7 DEF Google!RolloutEnds, Moved
  <2>2. rollout' \in [Sessions -> [Google!Stages -> Google!RolloutStates]]
    BY <1>0, <2>1, MovedTyped
  <2>3. job' \in [Google!Stages -> Sessions \cup {Nobody}]
    BY <2>1 DEF RolloutsOK, ReleasesOK
  <2> QED BY <1>7, <2>2, <2>3 DEF Google!RolloutEnds, RolloutsOK
<1>8. CASE UNCHANGED Google!rollout_vars
  BY <1>8 DEF RolloutsOK
<1> QED BY RolloutSteps, <1>1, <1>2, <1>4, <1>5, <1>6, <1>7, <1>8

LEMMA JobSteps ==
  ASSUME [Google!Next]_Google!vars
  PROVE  \/ UNCHANGED Google!job_vars
         \/ \E s \in Sessions : Google!ExecutePlan(s) \/ Google!ExecuteApply(s) \/ Google!JobEnds(s)
<1>1. ASSUME NEW s \in Sessions,
             \/ Google!Begin(s) \/ Google!PutBundle(s) \/ Google!CreateDeliveryPipeline(s)
             \/ Google!CreateRelease(s) \/ Waits(s) \/ Google!CreatePlanRollout(s)
             \/ Google!CreateApplyRollout(s) \/ Google!PollPendingApproval(s)
             \/ Google!ApproveRollout(s) \/ Google!PollApplyRollout(s)
             \/ Google!RenderEnds(s) \/ Google!PendingStarts(s) \/ Google!RolloutEnds(s)
             \/ Google!PersonDecides(s)
      PROVE  UNCHANGED Google!job_vars
  BY <1>1, WaitsKeep DEF Google!Begin, Google!PutBundle, Google!CreateDeliveryPipeline,
     Google!CreateRelease, Google!CreatePlanRollout, Google!CreateApplyRollout,
     Google!PollPendingApproval, Google!ApproveRollout, Google!PollApplyRollout,
     Google!RenderEnds, Google!PendingStarts, Google!RolloutEnds, Google!PersonDecides
<1>2. UNCHANGED Google!vars => UNCHANGED Google!job_vars
  BY DEF Google!vars, Google!job_vars
<1> QED BY StepCases, <1>1, <1>2

LEMMA JobsStep == ASSUME JobsOK, RolloutsOK, [Google!Next]_Google!vars PROVE JobsOK'
<1>1. ASSUME NEW s \in Sessions, NEW stage \in Google!Stages, Google!Execute(s, stage), UNCHANGED found
      PROVE  JobsOK'
  BY <1>1 DEF Google!Execute, JobsOK, RolloutsOK
<1>2. ASSUME NEW s \in Sessions, Google!ExecutePlan(s) \/ Google!ExecuteApply(s)
      PROVE  JobsOK'
  BY <1>1, <1>2 DEF Google!ExecutePlan, Google!ExecuteApply, Google!Stages
<1>3. ASSUME NEW s \in Sessions, Google!JobEnds(s)
      PROVE  JobsOK'
  <2>1. PICK stage \in Google!Stages, state \in {"succeeded", "failed"} :
          /\ execution' = [execution EXCEPT ![s][stage] = state]
          /\ \/ UNCHANGED found
             \/ \E changes \in Plans : found' = [found EXCEPT ![s] = changes]
    BY <1>3 DEF Google!JobEnds
  <2>2. execution' \in [Sessions -> [Google!Stages -> {"none", "running", "succeeded", "failed"}]]
    BY <2>1 DEF JobsOK
  <2>3. found' \in [Sessions -> Google!PipelineChanges \cup {NoPlan}]
    BY <2>1, PlansAssumption, SameProperties DEF JobsOK
  <2> QED BY <1>3, <2>2, <2>3 DEF Google!JobEnds, JobsOK
<1>4. CASE UNCHANGED Google!job_vars
  BY <1>4 DEF Google!job_vars, JobsOK
<1> QED BY JobSteps, <1>2, <1>3, <1>4

LEMMA TypesStep == ASSUME Google!TypeOK, [Google!Next]_Google!vars PROVE Google!TypeOK'
<1>1. CallsOK' /\ TermsTyped' /\ ReleasesOK' /\ RolloutsOK' /\ JobsOK'
  BY TypeParts, CallsStep, TermsStep, ReleasesStep, RolloutsStep, JobsStep
<1> QED BY <1>1 DEF Google!TypeOK, CallsOK, TermsTyped, ReleasesOK, RolloutsOK, JobsOK

LEMMA TypesInit == Google!Init => Google!TypeOK
<1> SUFFICES ASSUME Google!Init PROVE Google!TypeOK
  OBVIOUS
<1>1. "idle" \in Google!Calls /\ "none" \in Google!RolloutStates
  BY DEF Google!Calls, Google!RolloutStates
<1>2. CallsOK /\ TermsTyped /\ ReleasesOK
  BY <1>1 DEF Google!Init, CallsOK, TermsTyped, ReleasesOK
<1>3. RolloutsOK /\ JobsOK
  BY <1>1 DEF Google!Init, RolloutsOK, JobsOK
<1> QED BY <1>2, <1>3, TypeParts
------------------------------------------------------------------------------
(***************************************************************************)
(* A session, its plan and its rollout, where it is                        *)
(***************************************************************************)
BeforePlan == {"idle", "put", "deliver", "release", "render", "planRollout", "planWait", "planJob"}
AfterDecision == {"applyRollout", "applyWait", "approve", "applyJob", "applying"}
Unapproved == {"none", "pendingApproval", "rejected"}

CallInv(s) ==
  /\ pc[s] # "over" => result[s] = "none"
  /\ pc[s] # "idle" => auto[s] \in Google!AutoApproves(step.approve)

PlanInv(s) ==
  /\ pc[s] \in BeforePlan => execution[s]["plan"] = "none"
  /\ found[s] # NoPlan <=> execution[s]["plan"] = "succeeded"
  /\ pc[s] = "decide" \/ pc[s] \in AfterDecision => found[s] # NoPlan
  /\ pc[s] \in AfterDecision => ~Google!ShouldStop(found[s], step.approve, Google!Manual(s))
  /\ pc[s] = "approve" => Google!ShouldApprove(found[s], step.approve, auto[s], Google!Manual(s))

ApplyInv(s) ==
  /\ pc[s] \in BeforePlan \cup {"planning", "decide", "applyRollout"} => rollout[s]["apply"] = "none"
  /\ rollout[s]["apply"] # "none" => found[s] # NoPlan
  /\ approvedBy[s] = "nobody" <=> rollout[s]["apply"] \in Unapproved
  /\ pc[s] = "applyJob" => rollout[s]["apply"] = "succeeded"
  /\ execution[s]["apply"] # "none" => pc[s] \in {"applying", "over"} /\ approvedBy[s] # "nobody"

Course == \A s \in Sessions : CallInv(s) /\ PlanInv(s) /\ ApplyInv(s)

LEMMA CourseInit == Google!Init => Course
BY DEF Google!Init, Course, CallInv, PlanInv, ApplyInv, BeforePlan, AfterDecision,
   Unapproved, Google!Stages

\* A step of one session changes nothing of another one but who may run.
Acts(s) ==
  \/ Google!Begin(s) \/ Google!PutBundle(s) \/ Google!CreateDeliveryPipeline(s)
  \/ Google!CreateRelease(s) \/ Waits(s) \/ Google!CreatePlanRollout(s)
  \/ Google!ExecutePlan(s) \/ Google!CreateApplyRollout(s) \/ Google!PollPendingApproval(s)
  \/ Google!ApproveRollout(s) \/ Google!PollApplyRollout(s) \/ Google!ExecuteApply(s)
  \/ Google!RenderEnds(s) \/ Google!PendingStarts(s) \/ Google!RolloutEnds(s)
  \/ Google!JobEnds(s) \/ Google!PersonDecides(s)

View(s) == <<pc[s], result[s], cmd[s], auto[s], rollout[s], approvedBy[s], execution[s], found[s]>>

LEMMA MovesApart ==
  ASSUME Google!TypeOK, NEW s \in Sessions, NEW t \in Sessions, t # s, Acts(s)
  PROVE  pc'[t] = pc[t] /\ result'[t] = result[t]
<1>1. CASE UNCHANGED <<pc, result>>
  BY <1>1
<1>2. CASE (\E call \in Google!Calls : Google!Goto(s, call)) /\ UNCHANGED result
  BY <1>2 DEF Google!TypeOK, Google!Goto
<1>3. CASE \E value \in {"nil", "error"} : Google!Return(s, value)
  BY <1>3 DEF Google!TypeOK, Google!Return, Google!Goto
<1>4. CASE Waits(s)
  BY <1>2, <1>3, <1>4, WaitsKeep
<1>5. CASE \/ Google!Begin(s) \/ Google!PutBundle(s) \/ Google!CreateDeliveryPipeline(s)
           \/ Google!CreateRelease(s) \/ Google!CreatePlanRollout(s)
           \/ Google!ExecutePlan(s) \/ Google!CreateApplyRollout(s)
           \/ Google!ApproveRollout(s) \/ Google!ExecuteApply(s)
  BY <1>2, <1>5 DEF Google!Begin, Google!PutBundle, Google!CreateDeliveryPipeline,
     Google!CreateRelease, Google!CreatePlanRollout, Google!ExecutePlan,
     Google!CreateApplyRollout, Google!ApproveRollout, Google!ExecuteApply, Google!Calls
<1>6. CASE Google!PollPendingApproval(s) \/ Google!PollApplyRollout(s)
  BY <1>1, <1>2, <1>3, <1>6 DEF Google!PollPendingApproval, Google!PollApplyRollout,
     Google!Calls
<1>7. CASE \/ Google!RenderEnds(s) \/ Google!PendingStarts(s) \/ Google!RolloutEnds(s)
           \/ Google!JobEnds(s) \/ Google!PersonDecides(s)
  BY <1>1, <1>7 DEF Google!RenderEnds, Google!PendingStarts, Google!RolloutEnds,
     Google!JobEnds, Google!PersonDecides
<1> QED BY <1>4, <1>5, <1>6, <1>7 DEF Acts

LEMMA RolloutsApart ==
  ASSUME Google!TypeOK, NEW s \in Sessions, NEW t \in Sessions, t # s, Acts(s)
  PROVE  rollout'[t] = rollout[t] /\ approvedBy'[t] = approvedBy[t]
<1> USE DEF Google!rollout_vars, Google!TypeOK
<1>1. ASSUME NEW stage \in Google!Stages, Google!Start(s, stage)
      PROVE  rollout'[t] = rollout[t]
  BY <1>1 DEF Google!Start
<1>2. CASE Google!CreatePlanRollout(s) \/ Google!CreateApplyRollout(s)
  BY <1>1, <1>2 DEF Google!CreatePlanRollout, Google!CreateApplyRollout, Google!Stages
<1>3. ASSUME NEW who \in {"agent", "person"}, Google!Approve(s, who)
      PROVE  rollout'[t] = rollout[t] /\ approvedBy'[t] = approvedBy[t]
  BY <1>1, <1>3 DEF Google!Approve, Google!Stages
<1>4. CASE Google!ApproveRollout(s) \/ Google!PersonDecides(s)
  BY <1>3, <1>4 DEF Google!ApproveRollout, Google!PersonDecides
<1>5. CASE Google!PendingStarts(s) \/ Google!RolloutEnds(s)
  BY <1>5 DEF Google!PendingStarts, Google!RolloutEnds
<1>6. CASE \/ Google!Begin(s) \/ Google!PutBundle(s) \/ Google!CreateDeliveryPipeline(s)
           \/ Google!CreateRelease(s) \/ Waits(s) \/ Google!ExecutePlan(s)
           \/ Google!PollPendingApproval(s) \/ Google!PollApplyRollout(s)
           \/ Google!ExecuteApply(s) \/ Google!RenderEnds(s) \/ Google!JobEnds(s)
  BY <1>6, WaitsKeep DEF Google!Begin, Google!PutBundle, Google!CreateDeliveryPipeline,
     Google!CreateRelease, Google!ExecutePlan, Google!PollPendingApproval,
     Google!PollApplyRollout, Google!ExecuteApply, Google!RenderEnds, Google!JobEnds
<1> QED BY <1>2, <1>4, <1>5, <1>6 DEF Acts

LEMMA JobsApart ==
  ASSUME Google!TypeOK, NEW s \in Sessions, NEW t \in Sessions, t # s, Acts(s)
  PROVE  execution'[t] = execution[t] /\ found'[t] = found[t] /\ ran'[t] = ran[t]
<1>1. CASE Google!ExecutePlan(s) \/ Google!ExecuteApply(s)
  BY <1>1 DEF Google!ExecutePlan, Google!ExecuteApply, Google!Execute, Google!TypeOK
<1>2. CASE Google!JobEnds(s)
  BY <1>2 DEF Google!JobEnds, Google!TypeOK
<1>3. CASE \/ Google!Begin(s) \/ Google!PutBundle(s) \/ Google!CreateDeliveryPipeline(s)
           \/ Google!CreateRelease(s) \/ Waits(s) \/ Google!CreatePlanRollout(s)
           \/ Google!CreateApplyRollout(s) \/ Google!PollPendingApproval(s)
           \/ Google!ApproveRollout(s) \/ Google!PollApplyRollout(s) \/ Google!RenderEnds(s)
           \/ Google!PendingStarts(s) \/ Google!RolloutEnds(s) \/ Google!PersonDecides(s)
  BY <1>3, WaitsKeep DEF Google!Begin, Google!PutBundle, Google!CreateDeliveryPipeline,
     Google!CreateRelease, Google!CreatePlanRollout, Google!CreateApplyRollout,
     Google!PollPendingApproval, Google!ApproveRollout, Google!PollApplyRollout,
     Google!RenderEnds, Google!PendingStarts, Google!RolloutEnds, Google!PersonDecides,
     Google!job_vars
<1> QED BY <1>1, <1>2, <1>3 DEF Acts

LEMMA TermsApart ==
  ASSUME Google!TypeOK, NEW s \in Sessions, NEW t \in Sessions, t # s, Acts(s)
  PROVE  cmd'[t] = cmd[t] /\ auto'[t] = auto[t]
<1>1. CASE Google!Begin(s)
  BY <1>1 DEF Google!Begin, Google!TypeOK
<1>2. CASE \/ Google!PutBundle(s) \/ Google!CreateDeliveryPipeline(s)
           \/ Google!CreateRelease(s) \/ Waits(s) \/ Google!CreatePlanRollout(s)
           \/ Google!ExecutePlan(s) \/ Google!CreateApplyRollout(s)
           \/ Google!PollPendingApproval(s) \/ Google!ApproveRollout(s)
           \/ Google!PollApplyRollout(s) \/ Google!ExecuteApply(s) \/ Google!RenderEnds(s)
           \/ Google!PendingStarts(s) \/ Google!RolloutEnds(s) \/ Google!JobEnds(s)
           \/ Google!PersonDecides(s)
  BY <1>2, WaitsKeep DEF Google!PutBundle, Google!CreateDeliveryPipeline,
     Google!CreateRelease, Google!CreatePlanRollout, Google!ExecutePlan,
     Google!CreateApplyRollout, Google!PollPendingApproval, Google!ApproveRollout,
     Google!PollApplyRollout, Google!ExecuteApply, Google!RenderEnds, Google!PendingStarts,
     Google!RolloutEnds, Google!JobEnds, Google!PersonDecides
<1> QED BY <1>1, <1>2 DEF Acts

LEMMA StepKept == ASSUME NEW s \in Sessions, Acts(s) PROVE UNCHANGED step
BY WaitsKeep DEF Acts, Google!Begin, Google!PutBundle, Google!CreateDeliveryPipeline,
   Google!CreateRelease, Google!CreatePlanRollout, Google!ExecutePlan,
   Google!CreateApplyRollout, Google!PollPendingApproval, Google!ApproveRollout,
   Google!PollApplyRollout, Google!ExecuteApply, Google!RenderEnds, Google!PendingStarts,
   Google!RolloutEnds, Google!JobEnds, Google!PersonDecides

LEMMA SameViewSameCourse ==
  ASSUME NEW s \in Sessions, CallInv(s), PlanInv(s), ApplyInv(s), UNCHANGED <<View(s), step>>
  PROVE  CallInv(s)' /\ PlanInv(s)' /\ ApplyInv(s)'
<1>1. /\ pc'[s] = pc[s] /\ result'[s] = result[s] /\ cmd'[s] = cmd[s] /\ auto'[s] = auto[s]
      /\ rollout'[s] = rollout[s] /\ approvedBy'[s] = approvedBy[s]
      /\ execution'[s] = execution[s] /\ found'[s] = found[s] /\ step' = step
  BY DEF View
<1> QED BY <1>1 DEF CallInv, PlanInv, ApplyInv, Google!Manual

LEMMA GotoSets ==
  ASSUME Google!TypeOK, NEW s \in Sessions
  PROVE  /\ \A call : Google!Goto(s, call) => pc'[s] = call
         /\ \A value : Google!Return(s, value) => pc'[s] = "over" /\ result'[s] = value
BY DEF Google!TypeOK, Google!Goto, Google!Return

\* The course of the session that makes a step.
LEMMA CourseStep ==
  ASSUME Google!TypeOK, NEW s \in Sessions, CallInv(s), PlanInv(s), ApplyInv(s), Acts(s)
  PROVE  CallInv(s)' /\ PlanInv(s)' /\ ApplyInv(s)'
<1> USE GotoSets DEF BeforePlan, AfterDecision
<1>0. UNCHANGED step
  BY StepKept
<1>1. CASE Google!Begin(s)
  <2>1. pc[s] = "idle" /\ pc'[s] = "put" /\ auto'[s] \in Google!AutoApproves(step.approve)
    BY <1>1 DEF Google!Begin, Google!TypeOK
  <2>2. UNCHANGED <<result, rollout, approvedBy, execution, found, step>>
    BY <1>1 DEF Google!Begin, Google!rollout_vars, Google!job_vars
  <2> QED BY <2>1, <2>2 DEF CallInv, PlanInv, ApplyInv
<1>2. ASSUME UNCHANGED <<cmd, auto, rollout, approvedBy, execution, found>>,
             pc[s] \in BeforePlan \ {"idle"}, pc'[s] \in BeforePlan \ {"idle"}, UNCHANGED result
      PROVE  CallInv(s)' /\ PlanInv(s)' /\ ApplyInv(s)'
  BY <1>0, <1>2 DEF CallInv, PlanInv, ApplyInv
<1>3. ASSUME UNCHANGED <<cmd, auto, rollout, approvedBy, execution, found>>,
             pc[s] # "idle", pc'[s] = "over"
      PROVE  CallInv(s)' /\ PlanInv(s)' /\ ApplyInv(s)'
  BY <1>0, <1>3 DEF CallInv, PlanInv, ApplyInv
<1>4. CASE Google!PutBundle(s) \/ Google!CreateDeliveryPipeline(s) \/ Google!CreateRelease(s)
  BY <1>2, <1>4 DEF Google!PutBundle, Google!CreateDeliveryPipeline, Google!CreateRelease,
     Google!rollout_vars, Google!job_vars
<1>5. CASE Waits(s)
  <2>1. UNCHANGED <<cmd, auto, rollout, approvedBy, execution, found>>
    BY <1>5, WaitsKeep DEF Google!rollout_vars, Google!job_vars
  <2>2. CASE Google!WaitForRender(s) \/ Google!WaitForPlanRollout(s)
    BY <1>2, <1>3, <2>1, <2>2 DEF Google!WaitForRender, Google!WaitForPlanRollout
  <2>3. CASE Google!PlanExecuted(s)
    <3>1. CASE pc'[s] = "over"
      BY <1>3, <2>1, <2>3, <3>1 DEF Google!PlanExecuted
    <3>2. CASE pc'[s] = "decide"
      BY <1>0, <2>1, <2>3, <3>2 DEF Google!PlanExecuted, CallInv, PlanInv, ApplyInv
    <3> QED BY <2>3, <3>1, <3>2 DEF Google!PlanExecuted
  <2>4. CASE Google!Decide(s)
    <3>1. CASE Google!ShouldStop(found[s], step.approve, Google!Manual(s))
      BY <1>3, <2>1, <2>4, <3>1 DEF Google!Decide, Google!Changes
    <3>2. CASE ~Google!ShouldStop(found[s], step.approve, Google!Manual(s))
      <4>1. pc[s] = "decide" /\ pc'[s] = "applyRollout" /\ result' = result
        BY <2>4, <3>2 DEF Google!Decide, Google!Changes
      <4> QED BY <1>0, <2>1, <3>2, <4>1 DEF CallInv, PlanInv, ApplyInv, Google!Manual
    <3> QED BY <3>1, <3>2
  <2>5. CASE Google!ApplyTimesOut(s) \/ Google!ApplyExecuted(s) \/ Google!Fails(s)
    BY <1>3, <2>1, <2>5 DEF Google!ApplyTimesOut, Google!ApplyExecuted, Google!Fails
  <2> QED BY <1>5, <2>2, <2>3, <2>4, <2>5 DEF Waits
<1>6. CASE Google!CreatePlanRollout(s)
  <2>1. PICK state \in {"pending", "inProgress"} : Moved(s, "plan", state)
    BY <1>6, StartMoves DEF Google!CreatePlanRollout, Google!Stages
  <2>2. rollout'[s]["apply"] = rollout[s]["apply"]
    BY <2>1 DEF Moved, Google!TypeOK, Google!Stages
  <2>3. /\ pc[s] = "planRollout" /\ pc'[s] = "planWait"
        /\ UNCHANGED <<cmd, auto, result, approvedBy, execution, found>>
    BY <1>6 DEF Google!CreatePlanRollout, Google!job_vars
  <2> QED BY <1>0, <2>2, <2>3 DEF CallInv, PlanInv, ApplyInv
<1>7. CASE Google!ExecutePlan(s)
  <2>1. execution'[s]["plan"] = "running" /\ execution'[s]["apply"] = execution[s]["apply"]
    BY <1>7 DEF Google!ExecutePlan, Google!Execute, Google!TypeOK, Google!Stages
  <2>2. /\ pc[s] = "planJob" /\ pc'[s] = "planning"
        /\ UNCHANGED <<cmd, auto, result, approvedBy, rollout, found>>
    BY <1>7 DEF Google!ExecutePlan, Google!rollout_vars
  <2> QED BY <1>0, <2>1, <2>2 DEF CallInv, PlanInv, ApplyInv
<1>8. CASE Google!CreateApplyRollout(s)
  <2>1. rollout'[s]["apply"] = "pendingApproval"
    BY <1>8 DEF Google!CreateApplyRollout, Google!TypeOK, Google!Stages
  <2>2. /\ pc[s] = "applyRollout" /\ pc'[s] = "applyWait"
        /\ UNCHANGED <<cmd, auto, result, approvedBy, execution, found>>
    BY <1>8 DEF Google!CreateApplyRollout, Google!job_vars
  <2> QED BY <1>0, <2>1, <2>2 DEF CallInv, PlanInv, ApplyInv, Unapproved, Google!Manual
<1>9. CASE Google!PollPendingApproval(s)
  <2>1. UNCHANGED <<cmd, auto, result, rollout, approvedBy, execution, found>>
    BY <1>9 DEF Google!PollPendingApproval, Google!rollout_vars, Google!job_vars
  <2>2. CASE Google!ShouldApprove(found[s], step.approve, auto[s], Google!Manual(s))
    <3>1. pc[s] = "applyWait" /\ pc'[s] = "approve"
      BY <1>9, <2>2 DEF Google!PollPendingApproval, Google!Changes
    <3> QED BY <1>0, <2>1, <2>2, <3>1 DEF CallInv, PlanInv, ApplyInv, Google!Manual
  <2>3. CASE ~Google!ShouldApprove(found[s], step.approve, auto[s], Google!Manual(s))
    <3>1. pc' = pc
      BY <1>9, <2>3 DEF Google!PollPendingApproval, Google!Changes
    <3> QED BY <1>0, <2>1, <3>1, SameViewSameCourse DEF View
  <2> QED BY <2>2, <2>3
<1>10. ASSUME NEW who \in {"agent", "person"}, Google!Approve(s, who),
              UNCHANGED <<cmd, auto, result, execution, found>>,
              pc'[s] = pc[s] \/ (pc[s] = "approve" /\ pc'[s] = "applyWait")
       PROVE  CallInv(s)' /\ PlanInv(s)' /\ ApplyInv(s)'
  <2>1. PICK state \in {"pending", "inProgress"} : Moved(s, "apply", state)
    BY <1>10, StartMoves DEF Google!Approve, Google!Stages
  <2>2. rollout'[s]["apply"] = state /\ approvedBy'[s] = who /\ rollout[s]["apply"] = "pendingApproval"
    BY <1>10, <2>1 DEF Moved, Google!Approve, Google!TypeOK, Google!Stages
  <2> QED BY <1>0, <1>10, <2>2 DEF CallInv, PlanInv, ApplyInv, Unapproved, Google!Manual
<1>11. CASE Google!ApproveRollout(s)
  <2>1. /\ pc[s] = "approve" /\ pc'[s] = "applyWait"
        /\ UNCHANGED <<cmd, auto, result, execution, found>>
    BY <1>11 DEF Google!ApproveRollout, Google!job_vars
  <2>2. CASE UNCHANGED <<rollout, approvedBy>>
    BY <1>0, <2>1, <2>2 DEF CallInv, PlanInv, ApplyInv, Google!Manual
  <2> QED BY <1>10, <1>11, <2>1, <2>2 DEF Google!ApproveRollout
<1>12. CASE Google!PollApplyRollout(s)
  <2>1. /\ UNCHANGED <<cmd, auto, rollout, approvedBy, execution, found>>
        /\ pc[s] = "applyWait"
    BY <1>12 DEF Google!PollApplyRollout, Google!rollout_vars, Google!job_vars
  <2>2. CASE UNCHANGED <<pc, result>>
    BY <1>0, <2>1, <2>2, SameViewSameCourse DEF View
  <2>3. CASE /\ pc'[s] = "applyJob" /\ rollout[s]["apply"] = "succeeded" /\ result' = result
    BY <1>0, <2>1, <2>3 DEF CallInv, PlanInv, ApplyInv, Google!Manual
  <2> QED BY <1>3, <1>12, <2>1, <2>2, <2>3 DEF Google!PollApplyRollout
<1>13. CASE Google!ExecuteApply(s)
  <2>1. execution'[s]["apply"] = "running" /\ execution'[s]["plan"] = execution[s]["plan"]
    BY <1>13 DEF Google!ExecuteApply, Google!Execute, Google!TypeOK, Google!Stages
  <2>2. /\ pc[s] = "applyJob" /\ pc'[s] = "applying"
        /\ UNCHANGED <<cmd, auto, result, approvedBy, rollout, found>>
    BY <1>13 DEF Google!ExecuteApply, Google!rollout_vars
  <2> QED BY <1>0, <2>1, <2>2 DEF CallInv, PlanInv, ApplyInv, Unapproved, Google!Manual
<1>14. CASE Google!RenderEnds(s)
  BY <1>14, SameViewSameCourse DEF Google!RenderEnds, View, Google!rollout_vars,
     Google!job_vars
<1>15. CASE Google!PendingStarts(s) \/ Google!RolloutEnds(s)
  <2>1. PICK stage \in Google!Stages, state \in {"inProgress", "succeeded", "failed"} :
          /\ Moved(s, stage, state) /\ rollout[s][stage] \in {"pending", "inProgress"}
          /\ rollout[s][stage] = "pending" \/ rollout[s][stage] = "inProgress"
    BY <1>15 DEF Google!PendingStarts, Google!RolloutEnds, Moved
  <2>2. /\ rollout'[s]["apply"] = rollout[s]["apply"]
           \/ (rollout'[s]["apply"] = state /\ rollout[s]["apply"] \in {"pending", "inProgress"})
    BY <2>1 DEF Moved, Google!TypeOK, Google!Stages
  <2>3. UNCHANGED <<pc, cmd, auto, result, approvedBy, execution, found>>
    BY <1>15 DEF Google!PendingStarts, Google!RolloutEnds, Google!job_vars
  <2> QED BY <1>0, <2>2, <2>3 DEF CallInv, PlanInv, ApplyInv, Unapproved, Google!Manual
<1>16. CASE Google!JobEnds(s)
  <2>1. UNCHANGED <<pc, cmd, auto, result, approvedBy, rollout>>
    BY <1>16 DEF Google!JobEnds, Google!rollout_vars
  <2>2. PICK stage \in Google!Stages, state \in {"succeeded", "failed"} :
          /\ execution[s][stage] = "running"
          /\ execution' = [execution EXCEPT ![s][stage] = state]
          /\ IF stage = "plan" /\ state = "succeeded"
             THEN \E changes \in Plans : found' = [found EXCEPT ![s] = changes]
             ELSE UNCHANGED found
    BY <1>16 DEF Google!JobEnds
  <2>3. CASE stage = "plan"
    <3>1. execution'[s]["plan"] = state /\ execution'[s]["apply"] = execution[s]["apply"]
      BY <2>2, <2>3 DEF Google!TypeOK, Google!Stages
    <3>2. pc[s] \notin BeforePlan \cup {"decide"} \cup AfterDecision
      BY <2>2, <2>3 DEF PlanInv
    <3>3. found'[s] # NoPlan <=> state = "succeeded"
      BY <2>2, <2>3, PlansAssumption, SameProperties DEF PlanInv, Google!TypeOK
    <3> QED BY <1>0, <2>1, <2>2, <2>3, <3>1, <3>2, <3>3 DEF CallInv, PlanInv, ApplyInv
  <2>4. CASE stage = "apply"
    <3>1. execution'[s]["apply"] = state /\ execution'[s]["plan"] = execution[s]["plan"]
      BY <2>2, <2>4 DEF Google!TypeOK, Google!Stages
    <3>2. found' = found
      BY <2>2, <2>4
    <3> QED BY <1>0, <2>1, <2>2, <2>4, <3>1, <3>2 DEF CallInv, PlanInv, ApplyInv,
               Google!Manual
  <2> QED BY <2>3, <2>4 DEF Google!Stages
<1>17. CASE Google!PersonDecides(s)
  <2>1. UNCHANGED <<pc, cmd, auto, result, execution, found>>
    BY <1>17 DEF Google!PersonDecides, Google!job_vars
  <2>2. CASE Google!Approve(s, "person")
    BY <1>10, <2>1, <2>2
  <2>3. CASE /\ rollout[s]["apply"] = "pendingApproval" /\ UNCHANGED approvedBy
             /\ rollout' = [rollout EXCEPT ![s]["apply"] = "rejected"]
    <3>1. rollout'[s]["apply"] = "rejected"
      BY <2>3 DEF Google!TypeOK, Google!Stages
    <3> QED BY <1>0, <2>1, <2>3, <3>1 DEF CallInv, PlanInv, ApplyInv, Unapproved,
               Google!Manual
  <2> QED BY <1>17, <2>2, <2>3 DEF Google!PersonDecides
<1> QED BY <1>1, <1>4, <1>5, <1>6, <1>7, <1>8, <1>9, <1>11, <1>12, <1>13, <1>14, <1>15,
           <1>16, <1>17 DEF Acts

LEMMA CourseKept == ASSUME Google!TypeOK, Course, [Google!Next]_Google!vars PROVE Course'
<1>1. ASSUME NEW s \in Sessions, NEW t \in Sessions, Acts(s), t # s
      PROVE  UNCHANGED <<View(t), step>>
  BY <1>1, MovesApart, RolloutsApart, JobsApart, TermsApart, StepKept DEF View
<1>2. ASSUME NEW s \in Sessions, NEW t \in Sessions, Acts(s)
      PROVE  CallInv(t)' /\ PlanInv(t)' /\ ApplyInv(t)'
  <2>1. CallInv(t) /\ PlanInv(t) /\ ApplyInv(t)
    BY DEF Course
  <2> QED BY <1>1, <1>2, <2>1, CourseStep, SameViewSameCourse
<1>3. ASSUME UNCHANGED Google!vars, NEW t \in Sessions
      PROVE  CallInv(t)' /\ PlanInv(t)' /\ ApplyInv(t)'
  <2>1. UNCHANGED <<View(t), step>>
    BY <1>3 DEF Google!vars, Google!rollout_vars, Google!job_vars, View
  <2> QED BY <2>1, SameViewSameCourse DEF Course
<1>4. UNCHANGED Google!vars \/ \E s \in Sessions : Acts(s)
  BY StepCases DEF Acts
<1> QED BY <1>2, <1>3, <1>4 DEF Course

SInv == Google!TypeOK /\ Course

\* The types of the state, and where a session is with its plan and its rollout,
\* for any number of sessions (CreatePipeline, WaitPipelineExecution).
THEOREM SessionsConsistent == Google!Spec => []SInv
<1>1. Google!Init => SInv
  BY TypesInit, CourseInit DEF SInv
<1>2. SInv /\ [Google!Next]_Google!vars => SInv'
  BY TypesStep, CourseKept DEF SInv
<1> QED BY <1>1, <1>2, PTL DEF Google!Spec
------------------------------------------------------------------------------
(***************************************************************************)
(* A session keeps the promise of a pipeline                               *)
(***************************************************************************)
MTerms == [s \in Sessions |-> [approve |-> step.approve, manual |-> Google!Manual(s), auto |-> auto[s]]]
AppliedOf(state) ==
  CASE state = "none" -> "no" [] state = "succeeded" -> "done" [] OTHER -> "begun"
MApplied == [s \in Sessions |-> AppliedOf(execution[s]["apply"])]

LEMMA AppliedValues ==
  /\ AppliedOf("none") = "no" /\ AppliedOf("succeeded") = "done"
  /\ AppliedOf("running") = "begun" /\ AppliedOf("failed") = "begun"
BY DEF AppliedOf

\* What the steps of the promise say, of the state of the sessions.
LEMMA PromiseSays ==
  ASSUME NEW s \in Sessions
  PROVE  /\ Google!Promise!Begin(s) <=>
              /\ found[s] = NoPlan /\ result[s] = "none"
              /\ MTerms'[s] \in Google!Promise!Terms /\ MTerms' = [MTerms EXCEPT ![s] = MTerms'[s]]
              /\ UNCHANGED <<found, approvedBy, MApplied, result>>
         /\ Google!Promise!Plan(s) <=>
              /\ found[s] = NoPlan
              /\ found'[s] \in Google!Promise!PipelineChanges /\ found' = [found EXCEPT ![s] = found'[s]]
              /\ UNCHANGED <<MTerms, approvedBy, MApplied, result>>
         /\ \A who : Google!Promise!Consent(s, who) <=>
              /\ found[s] # NoPlan /\ approvedBy[s] = "nobody"
              /\ who = "agent" => Google!Promise!MayConsent(s) /\ result[s] = "none"
              /\ approvedBy' = [approvedBy EXCEPT ![s] = who]
              /\ UNCHANGED <<MTerms, found, MApplied, result>>
         /\ Google!Promise!Apply(s) <=>
              /\ approvedBy[s] # "nobody" /\ MApplied[s] = "no"
              /\ MApplied' = [MApplied EXCEPT ![s] = "begun"]
              /\ UNCHANGED <<MTerms, found, approvedBy, result>>
         /\ Google!Promise!ApplyEnds(s) <=>
              /\ MApplied[s] = "begun" /\ MApplied' = [MApplied EXCEPT ![s] = "done"]
              /\ UNCHANGED <<MTerms, found, approvedBy, result>>
         /\ \A value : Google!Promise!Return(s, value) <=>
              /\ result[s] = "none" /\ (value = "nil" => Google!Promise!Fulfilled(s))
              /\ result' = [result EXCEPT ![s] = value]
              /\ UNCHANGED <<MTerms, found, approvedBy, MApplied>>
         /\ Google!Promise!Fulfilled(s) <=>
              \/ MApplied[s] = "done"
              \/ found[s] # NoPlan /\ found[s].noChanges
                 /\ ~Google!Promise!RejectsPlans(step.approve, Google!Manual(s))
         /\ UNCHANGED Google!Promise!vars <=> UNCHANGED <<MTerms, found, approvedBy, MApplied, result>>
<1> USE DEF MTerms, MApplied, AppliedOf
<1>1. Google!Promise!Begin(s) <=>
              /\ found[s] = NoPlan /\ result[s] = "none"
              /\ MTerms'[s] \in Google!Promise!Terms /\ MTerms' = [MTerms EXCEPT ![s] = MTerms'[s]]
              /\ UNCHANGED <<found, approvedBy, MApplied, result>>
  BY Zenon DEF Google!Promise!Begin
<1>2. Google!Promise!Plan(s) <=>
              /\ found[s] = NoPlan
              /\ found'[s] \in Google!Promise!PipelineChanges /\ found' = [found EXCEPT ![s] = found'[s]]
              /\ UNCHANGED <<MTerms, approvedBy, MApplied, result>>
  BY Zenon DEF Google!Promise!Plan
<1>3. \A who : Google!Promise!Consent(s, who) <=>
              /\ found[s] # NoPlan /\ approvedBy[s] = "nobody"
              /\ who = "agent" => Google!Promise!MayConsent(s) /\ result[s] = "none"
              /\ approvedBy' = [approvedBy EXCEPT ![s] = who]
              /\ UNCHANGED <<MTerms, found, MApplied, result>>
  BY Zenon DEF Google!Promise!Consent
<1>4. Google!Promise!Apply(s) <=>
              /\ approvedBy[s] # "nobody" /\ MApplied[s] = "no"
              /\ MApplied' = [MApplied EXCEPT ![s] = "begun"]
              /\ UNCHANGED <<MTerms, found, approvedBy, result>>
  BY Zenon DEF Google!Promise!Apply
<1>5. Google!Promise!ApplyEnds(s) <=>
              /\ MApplied[s] = "begun" /\ MApplied' = [MApplied EXCEPT ![s] = "done"]
              /\ UNCHANGED <<MTerms, found, approvedBy, result>>
  BY Zenon DEF Google!Promise!ApplyEnds
<1>6. \A value : Google!Promise!Return(s, value) <=>
              /\ result[s] = "none" /\ (value = "nil" => Google!Promise!Fulfilled(s))
              /\ result' = [result EXCEPT ![s] = value]
              /\ UNCHANGED <<MTerms, found, approvedBy, MApplied>>
  BY Zenon DEF Google!Promise!Return
<1>7. Google!Promise!Fulfilled(s) <=>
              \/ MApplied[s] = "done"
              \/ found[s] # NoPlan /\ found[s].noChanges
                 /\ ~Google!Promise!RejectsPlans(MTerms[s].approve, MTerms[s].manual)
  BY Zenon DEF Google!Promise!Fulfilled
<1>8. UNCHANGED Google!Promise!vars <=> UNCHANGED <<MTerms, found, approvedBy, MApplied, result>>
  BY Zenon DEF Google!Promise!vars
<1>9. MTerms[s].approve = step.approve /\ MTerms[s].manual = Google!Manual(s)
  BY DEF MTerms
<1> QED BY <1>1, <1>2, <1>3, <1>4, <1>5, <1>6, <1>7, <1>8, <1>9

LEMMA TermsAre ==
  \A a \in Google!ApproveTypes, m \in Google!ManualApproveTypes, b \in BOOLEAN :
    [approve |-> a, manual |-> m, auto |-> b] \in Google!Promise!Terms
BY DEF Google!Promise!Terms, Google!Promise!ApproveTypes, Google!Promise!ManualApproveTypes,
   Google!ApproveTypes, Google!ManualApproveTypes

LEMMA MTermsTyped ==
  ASSUME TermsTyped
  PROVE  /\ step \in Google!StepProperties /\ step.approve \in Google!ApproveTypes
         /\ \A s \in Sessions : 
              Google!Manual(s) \in Google!ManualApproveTypes /\ MTerms[s] \in Google!Promise!Terms
<1>1. step \in Google!StepProperties /\ step.approve \in Google!ApproveTypes
  BY StepAssumption, SameProperties DEF TermsTyped, Google!StepProperties
<1>2. ASSUME NEW s \in Sessions PROVE Google!Manual(s) \in Google!ManualApproveTypes
  BY <1>1 DEF Google!StepProperties, Google!Manual, Google!ManualApproval,
     Google!ManualApproveTypes
<1>3. ASSUME NEW s \in Sessions PROVE MTerms[s] \in Google!Promise!Terms
  BY <1>1, <1>2 DEF TermsTyped, MTerms, Google!Promise!Terms, Google!Promise!ApproveTypes,
     Google!Promise!ManualApproveTypes, Google!ApproveTypes, Google!ManualApproveTypes
<1> QED BY <1>1, <1>2, <1>3

LEMMA SameNames ==
  /\ Google!Promise!PipelineChanges = Google!PipelineChanges
  /\ \A f, a, b, m : Google!Promise!NeedsPerson(f, a, b, m) <=> Google!NeedsPerson(f, a, b, m)
  /\ \A a, m : Google!Promise!RejectsPlans(a, m) <=> Google!RejectsPlans(a, m)
BY DEF Google!Promise!PipelineChanges, Google!PipelineChanges, Google!Promise!NeedsPerson,
   Google!NeedsPerson, Google!Promise!RejectsPlans, Google!RejectsPlans

LEMMA InitPromises == ASSUME Google!Init, Google!TypeOK PROVE Google!Promise!Init
<1>1. MTerms \in [Sessions -> Google!Promise!Terms]
  BY MTermsTyped, TypeParts DEF MTerms
<1>2. MApplied = [s \in Sessions |-> "no"]
  <2>1. \A s \in Sessions : execution[s]["apply"] = "none"
    BY DEF Google!Init, Google!Stages
  <2> QED BY <2>1, AppliedValues DEF MApplied
<1>3. /\ found = [s \in Sessions |-> NoPlan] /\ approvedBy = [s \in Sessions |-> "nobody"]
      /\ result = [s \in Sessions |-> "none"]
  BY DEF Google!Init
<1> QED BY <1>1, <1>2, <1>3, Zenon DEF Google!Promise!Init, MTerms, MApplied, AppliedOf

\* The agent approves no rollout that needs a person.
LEMMA AgentApproves ==
  ASSUME SInv, NEW s \in Sessions, pc[s] = "approve"
  PROVE  Google!Promise!MayConsent(s)
<1>1. /\ found[s] \in Google!PipelineChanges /\ ~Google!ShouldStop(found[s], step.approve, Google!Manual(s))
      /\ Google!ShouldApprove(found[s], step.approve, auto[s], Google!Manual(s))
  BY DEF SInv, Google!TypeOK, Course, PlanInv, AfterDecision
<1>2. step \in [approve : Google!ApproveTypes, run : Google!ManualApproveTypes,
                update : Google!ManualApproveTypes]
  BY MTermsTyped, TypeParts DEF SInv, Google!StepProperties
<1>3. cmd[s] \in {"run", "update"} /\ auto[s] \in Google!AutoApproves(step.approve)
  BY DEF SInv, Google!TypeOK, Course, CallInv
<1>4. ~found[s].noChanges /\ ~Google!NeedsPerson(found[s], step.approve, auto[s], Google!Manual(s))
  BY <1>1, <1>2, <1>3, GoogleDecides DEF Google!Manual
<1> HIDE DEF MTerms
<1>5. MTerms[s].approve = step.approve /\ MTerms[s].auto = auto[s] /\ MTerms[s].manual = Google!Manual(s)
  BY DEF MTerms
<1>6. Google!Promise!MayConsent(s) <=>
        /\ ~found[s].noChanges
        /\ ~Google!Promise!NeedsPerson(found[s], MTerms[s].approve, MTerms[s].auto, MTerms[s].manual)
  BY Zenon DEF Google!Promise!MayConsent, MTerms
<1> QED BY <1>4, <1>5, <1>6, SameNames

LEMMA SameTerms == ASSUME UNCHANGED <<step, cmd, auto>> PROVE UNCHANGED MTerms
BY DEF MTerms, Google!Manual

LEMMA SameApplied == ASSUME UNCHANGED execution PROVE UNCHANGED MApplied
BY DEF MApplied

\* A rollout that is approved has the consent of who approved it.
LEMMA ApproveConsents ==
  ASSUME SInv, NEW s \in Sessions, NEW who \in {"agent", "person"}, Google!Approve(s, who),
         who = "agent" => pc[s] = "approve",
         UNCHANGED <<step, cmd, auto, found, execution, result>>
  PROVE  Google!Promise!Consent(s, who)
<1>1. found[s] # NoPlan /\ approvedBy[s] = "nobody"
  BY DEF SInv, Course, ApplyInv, Google!Approve, Unapproved
<1>2. who = "agent" => Google!Promise!MayConsent(s) /\ result[s] = "none"
  BY AgentApproves DEF SInv, Course, CallInv
<1>3. UNCHANGED <<MTerms, found, MApplied, result>>
  BY SameTerms, SameApplied
<1> QED BY <1>1, <1>2, <1>3, PromiseSays DEF Google!Approve

LEMMA ReturnReturns ==
  ASSUME SInv, NEW s \in Sessions, NEW value \in {"nil", "error"}, pc[s] # "over",
         Google!Return(s, value), value = "nil" => Google!Promise!Fulfilled(s),
         UNCHANGED <<step, cmd, auto, found, approvedBy, execution>>
  PROVE  Google!Promise!Return(s, value)
<1>1. result[s] = "none"
  BY DEF SInv, Course, CallInv
<1>2. UNCHANGED <<MTerms, MApplied>>
  BY SameTerms, SameApplied
<1> QED BY <1>1, <1>2, PromiseSays DEF Google!Return

LEMMA WaitsPromise ==
  ASSUME SInv, NEW s \in Sessions, Waits(s)
  PROVE  Google!Promise!Next \/ UNCHANGED Google!Promise!vars
<1>1. UNCHANGED <<step, cmd, auto, found, approvedBy, execution>>
  BY WaitsKeep, StepKept DEF Google!rollout_vars, Google!job_vars, Acts
<1>2. ASSUME NEW value \in {"nil", "error"}, Google!Return(s, value), pc[s] # "over",
             value = "nil" => Google!Promise!Fulfilled(s)
      PROVE  Google!Promise!Next
  BY <1>1, <1>2, ReturnReturns DEF Google!Promise!Next
<1>3. CASE UNCHANGED result
  BY <1>1, <1>3, SameTerms, SameApplied, PromiseSays
<1>4. CASE \/ Google!WaitForRender(s) \/ Google!WaitForPlanRollout(s) \/ Google!PlanExecuted(s)
           \/ Google!ApplyTimesOut(s) \/ Google!Fails(s)
  BY <1>2, <1>3, <1>4 DEF Google!WaitForRender, Google!WaitForPlanRollout,
     Google!PlanExecuted, Google!ApplyTimesOut, Google!Fails
<1>5. CASE Google!Decide(s) /\ Google!ShouldStop(found[s], step.approve, Google!Manual(s))
  <2>1. Google!Return(s, IF Google!Rejects(s) THEN "error" ELSE "nil") /\ pc[s] = "decide"
    BY <1>5 DEF Google!Decide, Google!Changes
  <2>2. found[s] # NoPlan
    BY <2>1 DEF SInv, Course, PlanInv
  <2>3. ~Google!Rejects(s) => Google!Promise!Fulfilled(s)
    BY <1>5, <2>2, PromiseSays, SameNames DEF Google!Rejects, Google!ShouldStop
  <2>4. CASE Google!Rejects(s)
    BY <1>2, <2>1, <2>4
  <2>5. CASE ~Google!Rejects(s)
    BY <1>2, <2>1, <2>3, <2>5
  <2> QED BY <2>4, <2>5
<1>6. CASE Google!Decide(s) /\ ~Google!ShouldStop(found[s], step.approve, Google!Manual(s))
  BY <1>3, <1>6 DEF Google!Decide, Google!Changes
<1>7. CASE Google!ApplyExecuted(s)
  <2>1. /\ pc[s] = "applying"
        /\ Google!Return(s, IF execution[s]["apply"] = "succeeded" THEN "nil" ELSE "error")
    BY <1>7 DEF Google!ApplyExecuted
  <2>2. execution[s]["apply"] = "succeeded" => Google!Promise!Fulfilled(s)
    BY AppliedValues, PromiseSays DEF MApplied
  <2>3. CASE execution[s]["apply"] = "succeeded"
    BY <1>2, <2>1, <2>2, <2>3
  <2>4. CASE execution[s]["apply"] # "succeeded"
    BY <1>2, <2>1, <2>4
  <2> QED BY <2>3, <2>4
<1> QED BY <1>4, <1>5, <1>6, <1>7 DEF Waits

\* What becomes of the executions, for the promise.
LEMMA ExecutionMoves ==
  ASSUME Google!TypeOK, NEW s \in Sessions, NEW stage \in Google!Stages,
         NEW state \in {"running", "succeeded", "failed"},
         execution' = [execution EXCEPT ![s][stage] = state]
  PROVE  /\ stage = "plan" => UNCHANGED MApplied
         /\ stage = "apply" => MApplied' = [MApplied EXCEPT ![s] = AppliedOf(state)]
<1>1. \A t \in Sessions : execution'[t]["apply"] =
        IF t = s /\ stage = "apply" THEN state ELSE execution[t]["apply"]
  BY DEF Google!TypeOK, Google!Stages
<1>2. MApplied = [t \in Sessions |-> AppliedOf(execution[t]["apply"])]
  BY DEF MApplied
<1>3. MApplied' = [t \in Sessions |-> AppliedOf(execution'[t]["apply"])]
  BY Zenon DEF MApplied, AppliedOf
<1> HIDE DEF MApplied, AppliedOf
<1> QED BY <1>1, <1>2, <1>3

LEMMA JobsPromise ==
  ASSUME SInv, NEW s \in Sessions, Google!ExecutePlan(s) \/ Google!ExecuteApply(s) \/ Google!JobEnds(s)
  PROVE  Google!Promise!Next \/ UNCHANGED Google!Promise!vars
<1>1. UNCHANGED MTerms /\ UNCHANGED <<approvedBy, result>>
  BY SameTerms DEF Google!ExecutePlan, Google!ExecuteApply, Google!JobEnds,
     Google!rollout_vars
<1>2. CASE Google!ExecutePlan(s)
  <2>1. execution' = [execution EXCEPT ![s]["plan"] = "running"] /\ found' = found
    BY <1>2 DEF Google!ExecutePlan, Google!Execute
  <2>2. UNCHANGED MApplied
    BY <2>1, ExecutionMoves DEF SInv, Google!Stages
  <2> QED BY <1>1, <2>1, <2>2, PromiseSays
<1>3. CASE Google!ExecuteApply(s)
  <2>1. /\ pc[s] = "applyJob" /\ found' = found
        /\ execution' = [execution EXCEPT ![s]["apply"] = "running"]
    BY <1>3 DEF Google!ExecuteApply, Google!Execute
  <2>2. MApplied' = [MApplied EXCEPT ![s] = "begun"]
    BY <2>1, ExecutionMoves, AppliedValues DEF SInv, Google!Stages
  <2>3. approvedBy[s] # "nobody" /\ execution[s]["apply"] = "none"
    BY <2>1 DEF SInv, Course, ApplyInv, Unapproved
  <2>4. MApplied[s] = "no"
    BY <2>3, AppliedValues DEF MApplied
  <2>5. Google!Promise!Apply(s)
    BY <1>1, <2>1, <2>2, <2>3, <2>4, PromiseSays
  <2> QED BY <2>5 DEF Google!Promise!Next
<1>4. CASE Google!JobEnds(s)
  <2>1. PICK stage \in Google!Stages, state \in {"succeeded", "failed"} :
          /\ execution[s][stage] = "running"
          /\ execution' = [execution EXCEPT ![s][stage] = state]
          /\ IF stage = "plan" /\ state = "succeeded"
             THEN \E changes \in Plans : found' = [found EXCEPT ![s] = changes]
             ELSE UNCHANGED found
    BY <1>4 DEF Google!JobEnds
  <2>2. CASE stage = "plan"
    <3>1. UNCHANGED MApplied
      BY <2>1, <2>2, ExecutionMoves DEF SInv
    <3>2. CASE state = "failed"
      BY <1>1, <2>1, <2>2, <3>1, <3>2, PromiseSays
    <3>3. CASE state = "succeeded"
      <4>1. found[s] = NoPlan
        BY <2>1, <2>2 DEF SInv, Course, PlanInv
      <4>2. PICK changes \in Plans : found' = [found EXCEPT ![s] = changes]
        BY <2>1, <2>2, <3>3
      <4>3. found'[s] = changes /\ changes \in Google!Promise!PipelineChanges
        BY <4>2, PlansAssumption, SameProperties, SameNames DEF SInv, Google!TypeOK
      <4>4. Google!Promise!Plan(s)
        BY <1>1, <3>1, <4>1, <4>2, <4>3, PromiseSays
      <4> QED BY <4>4 DEF Google!Promise!Next
    <3> QED BY <3>2, <3>3
  <2>3. CASE stage = "apply"
    <3>1. found' = found /\ MApplied' = [MApplied EXCEPT ![s] = AppliedOf(state)]
      BY <2>1, <2>3, ExecutionMoves DEF SInv
    <3>2. MApplied[s] = "begun"
      BY <2>1, <2>3, AppliedValues DEF MApplied
    <3>3. CASE state = "succeeded"
      <4>1. Google!Promise!ApplyEnds(s)
        BY <1>1, <3>1, <3>2, <3>3, AppliedValues, PromiseSays
      <4> QED BY <4>1 DEF Google!Promise!Next
    <3>4. CASE state = "failed"
      <4>1. MApplied' = MApplied
        <5>1. MApplied' = [MApplied EXCEPT ![s] = "begun"]
          BY <3>1, <3>4, AppliedValues
        <5>2. MApplied \in [Sessions -> {AppliedOf(execution[t]["apply"]) : t \in Sessions}]
          BY DEF MApplied
        <5> HIDE DEF MApplied
        <5> QED BY <3>2, <5>1, <5>2
      <4> QED BY <1>1, <3>1, <4>1, PromiseSays
    <3> QED BY <3>3, <3>4
  <2> QED BY <2>2, <2>3 DEF Google!Stages
<1> QED BY <1>2, <1>3, <1>4

\* Every step is one of the run of a pipeline, or none.
LEMMA StepPromises ==
  ASSUME SInv, SInv', [Google!Next]_Google!vars
  PROVE  Google!Promise!Next \/ UNCHANGED Google!Promise!vars
<1>1. ASSUME UNCHANGED <<step, cmd, auto, found, approvedBy, execution, result>>
      PROVE  UNCHANGED Google!Promise!vars
  BY <1>1, SameTerms, SameApplied, PromiseSays DEF Google!Promise!vars, MTerms, MApplied,
     AppliedOf
<1>2. ASSUME NEW s \in Sessions, Google!Begin(s)
      PROVE  Google!Promise!Next
  <2>1. found[s] = NoPlan /\ result[s] = "none"
    BY <1>2 DEF Google!Begin, SInv, Course, CallInv, PlanInv, BeforePlan
  <2>2. UNCHANGED <<found, approvedBy, execution, result, step>>
    BY <1>2 DEF Google!Begin, Google!rollout_vars, Google!job_vars
  <2>3. MTerms'[s] \in Google!Promise!Terms
    <3>1. /\ step' = step /\ step.approve \in Google!ApproveTypes
          /\ step \in Google!StepProperties /\ auto'[s] \in BOOLEAN
      BY <2>2, MTermsTyped, TypeParts DEF SInv, Google!TypeOK
    <3>2. Google!Manual(s)' \in Google!ManualApproveTypes
      BY <3>1 DEF Google!StepProperties, Google!Manual, Google!ManualApproval,
         Google!ManualApproveTypes
    <3>3. MTerms'[s] = [approve |-> step.approve, manual |-> Google!Manual(s)', auto |-> auto'[s]]
      BY <3>1 DEF MTerms
    <3> QED BY <3>1, <3>2, <3>3, TermsAre, Zenon
  <2>4. MTerms' = [MTerms EXCEPT ![s] = MTerms'[s]]
    <3>1. \A t \in Sessions \ {s} : MTerms'[t] = MTerms[t]
      BY <1>2, <2>2, TermsApart DEF MTerms, Google!Manual, SInv, Acts
    <3>2. MTerms' = [t \in Sessions |-> MTerms'[t]] /\ MTerms = [t \in Sessions |-> MTerms[t]]
      BY DEF MTerms
    <3> HIDE DEF MTerms
    <3> QED BY <3>1, <3>2
  <2>5. Google!Promise!Begin(s)
    BY <2>1, <2>2, <2>3, <2>4, SameApplied, PromiseSays
  <2> QED BY <2>5 DEF Google!Promise!Next
<1>3. ASSUME NEW s \in Sessions,
             \/ Google!PutBundle(s) \/ Google!CreateDeliveryPipeline(s)
             \/ Google!CreateRelease(s) \/ Google!CreatePlanRollout(s)
             \/ Google!CreateApplyRollout(s) \/ Google!PollPendingApproval(s)
             \/ Google!RenderEnds(s) \/ Google!PendingStarts(s) \/ Google!RolloutEnds(s)
      PROVE  UNCHANGED Google!Promise!vars
  <2>1. UNCHANGED <<step, cmd, auto, found, approvedBy, execution, result>>
    BY <1>3 DEF Google!PutBundle, Google!CreateDeliveryPipeline, Google!CreateRelease,
       Google!CreatePlanRollout, Google!CreateApplyRollout, Google!PollPendingApproval,
       Google!RenderEnds, Google!PendingStarts, Google!RolloutEnds, Google!rollout_vars,
       Google!job_vars
  <2> QED BY <1>1, <2>1
<1>4. ASSUME NEW s \in Sessions, Google!ApproveRollout(s)
      PROVE  Google!Promise!Next \/ UNCHANGED Google!Promise!vars
  <2>1. UNCHANGED <<step, cmd, auto, found, execution, result>> /\ pc[s] = "approve"
    BY <1>4 DEF Google!ApproveRollout, Google!job_vars
  <2>2. CASE Google!Approve(s, "agent")
    <3>1. Google!Promise!Consent(s, "agent")
      BY <2>1, <2>2, ApproveConsents
    <3> QED BY <3>1 DEF Google!Promise!Next
  <2>3. CASE UNCHANGED approvedBy
    BY <1>1, <2>1, <2>3
  <2> QED BY <1>4, <2>2, <2>3 DEF Google!ApproveRollout
<1>5. ASSUME NEW s \in Sessions, Google!PersonDecides(s)
      PROVE  Google!Promise!Next \/ UNCHANGED Google!Promise!vars
  <2>1. UNCHANGED <<step, cmd, auto, found, execution, result>>
    BY <1>5 DEF Google!PersonDecides, Google!job_vars
  <2>2. CASE Google!Approve(s, "person")
    <3>1. Google!Promise!Consent(s, "person")
      BY <2>1, <2>2, ApproveConsents
    <3> QED BY <3>1 DEF Google!Promise!Next
  <2>3. CASE UNCHANGED approvedBy
    BY <1>1, <2>1, <2>3
  <2> QED BY <1>5, <2>2, <2>3 DEF Google!PersonDecides
<1>6. ASSUME NEW s \in Sessions, Google!PollApplyRollout(s)
      PROVE  Google!Promise!Next \/ UNCHANGED Google!Promise!vars
  <2>1. UNCHANGED <<step, cmd, auto, found, approvedBy, execution>> /\ pc[s] = "applyWait"
    BY <1>6 DEF Google!PollApplyRollout, Google!rollout_vars, Google!job_vars
  <2>2. CASE UNCHANGED result
    BY <1>1, <2>1, <2>2
  <2>3. CASE Google!Return(s, "error")
    <3>1. Google!Promise!Return(s, "error")
      BY <2>1, <2>3, ReturnReturns
    <3> QED BY <3>1 DEF Google!Promise!Next
  <2> QED BY <1>6, <2>2, <2>3 DEF Google!PollApplyRollout
<1>7. CASE UNCHANGED Google!vars
  BY <1>1, <1>7 DEF Google!vars, Google!rollout_vars, Google!job_vars
<1> QED BY StepCases, WaitsPromise, JobsPromise, <1>2, <1>3, <1>4, <1>5, <1>6, <1>7

\* Whatever a session's plan finds, whoever approves its rollout, and however
\* many sessions there are at a time: a session applies its plan only with
\* consent, the agent's own being what the documentation allows for that plan,
\* and returns without an error only when it has applied it or had nothing to
\* apply (WaitPipelineExecution implements StepPipeline).
THEOREM SessionsKeepPromise == Google!Spec => Google!KeepsPromise
<1>1. Google!Init => Google!Promise!Init
  BY TypesInit, InitPromises
<1>2. SInv /\ SInv' /\ [Google!Next]_Google!vars => [Google!Promise!Next]_Google!Promise!vars
  BY StepPromises
<1> QED BY <1>1, <1>2, SessionsConsistent, PTL DEF Google!Spec, Google!KeepsPromise,
           Google!Promise!Spec
------------------------------------------------------------------------------
(***************************************************************************)
(* Whose definition a job has, while one session runs at a time            *)
(***************************************************************************)
Active(s) == pc[s] \notin {"idle", "over"}
Alone == \A s, t \in Sessions : Active(s) /\ Active(t) => s = t

Unreleased == {"idle", "put", "deliver", "release"}
\* The release of a session, and what is rolled out of it.
OwnRelease(s) ==
  /\ release[s] \in {Nobody, s}
  /\ pc[s] \in {"deliver", "release"} => bundle = s
  /\ Active(s) /\ pc[s] \notin Unreleased => release[s] = s
  /\ pc[s] \in Unreleased \cup {"render", "planRollout"} => rollout[s]["plan"] = "none"
  /\ \A stage \in Google!Stages : rollout[s][stage] # "none" => release[s] = s
  /\ pc[s] = "planJob" => rollout[s]["plan"] = "succeeded"

\* A target takes one rollout at a time, and after that of the session that runs
\* only those that begin late.
OwnJob(stage) ==
  /\ \A s, t \in Sessions :
       rollout[s][stage] = "inProgress" /\ rollout[t][stage] = "inProgress" => s = t
  /\ \A s \in Sessions :
       Active(s) /\ rollout[s][stage] = "succeeded" =>
         /\ job[stage] \in {s} \cup late
         /\ \A t \in Sessions \ {s} : rollout[t][stage] = "inProgress" => t \in late

Releases == \A s \in Sessions : OwnRelease(s)
Jobs == \A stage \in Google!Stages : OwnJob(stage)

\* Only a session that begins becomes active.
LEMMA ActivesKept ==
  ASSUME Google!TypeOK, NEW s \in Sessions, Acts(s)
  PROVE  /\ \A t \in Sessions : Active(t)' => Active(t) \/ (t = s /\ Google!Begin(s))
         /\ Google!Begin(s) => pc[s] = "idle"
         /\ \/ Google!Begin(s) \/ Active(s) \/ Google!RenderEnds(s)
            \/ Google!PendingStarts(s) \/ Google!RolloutEnds(s) \/ Google!JobEnds(s)
            \/ Google!PersonDecides(s)
<1>1. Google!Begin(s) => pc[s] = "idle"
  BY DEF Google!Begin
<1>2. Waits(s) => Active(s)
  BY DEF Waits, Google!WaitForRender, Google!WaitForPlanRollout, Google!PlanExecuted,
     Google!Decide, Google!ApplyTimesOut, Google!ApplyExecuted, Google!Fails, Active
<1>3. ASSUME
           \/ Google!PutBundle(s) \/ Google!CreateDeliveryPipeline(s)
           \/ Google!CreateRelease(s) \/ Google!CreatePlanRollout(s)
           \/ Google!ExecutePlan(s) \/ Google!CreateApplyRollout(s)
           \/ Google!PollPendingApproval(s) \/ Google!ApproveRollout(s)
           \/ Google!PollApplyRollout(s) \/ Google!ExecuteApply(s)
      PROVE  Active(s)
  BY <1>3 DEF Google!PutBundle, Google!CreateDeliveryPipeline, Google!CreateRelease,
     Google!CreatePlanRollout, Google!ExecutePlan, Google!CreateApplyRollout,
     Google!PollPendingApproval, Google!ApproveRollout, Google!PollApplyRollout,
     Google!ExecuteApply, Active
<1>4. ASSUME \/ Google!RenderEnds(s) \/ Google!PendingStarts(s) \/ Google!RolloutEnds(s)
             \/ Google!JobEnds(s) \/ Google!PersonDecides(s)
      PROVE  pc' = pc
  BY <1>4 DEF Google!RenderEnds, Google!PendingStarts, Google!RolloutEnds, Google!JobEnds,
     Google!PersonDecides
<1>5. Google!Begin(s) \/ Active(s) \/ pc' = pc
  BY <1>2, <1>3, <1>4 DEF Acts
<1>6. \A t \in Sessions \ {s} : pc'[t] = pc[t]
  BY MovesApart
<1> QED BY <1>1, <1>2, <1>3, <1>4, <1>5, <1>6 DEF Active, Acts

LEMMA AloneKept ==
  ASSUME Google!TypeOK, Alone, ~Overlap, NEW s \in Sessions, Acts(s)
  PROVE  Alone'
<1>1. CASE Google!Begin(s)
  <2>1. \A t \in Sessions : ~Active(t)
    BY <1>1 DEF Google!Begin, Active
  <2> QED BY <2>1, ActivesKept DEF Alone
<1>2. CASE ~Google!Begin(s)
  BY <1>2, ActivesKept DEF Alone
<1> QED BY <1>1, <1>2

LEMMA ReleasesApart ==
  ASSUME Google!TypeOK, NEW s \in Sessions, Acts(s)
  PROVE  /\ \A t \in Sessions \ {s} : release'[t] = release[t]
         /\ release'[s] = release[s] \/ Google!CreateRelease(s)
         /\ bundle' = bundle \/ Google!PutBundle(s)
<1>1. CASE \/ Google!PutBundle(s) \/ Google!CreateDeliveryPipeline(s) \/ Google!CreateRelease(s)
           \/ Google!RenderEnds(s)
  BY <1>1 DEF Google!PutBundle, Google!CreateDeliveryPipeline, Google!CreateRelease,
     Google!RenderEnds, Google!TypeOK
<1>2. CASE \/ Google!Begin(s) \/ Waits(s) \/ Google!CreatePlanRollout(s)
           \/ Google!ExecutePlan(s) \/ Google!CreateApplyRollout(s)
           \/ Google!PollPendingApproval(s) \/ Google!ApproveRollout(s)
           \/ Google!PollApplyRollout(s) \/ Google!ExecuteApply(s)
           \/ Google!PendingStarts(s) \/ Google!RolloutEnds(s) \/ Google!JobEnds(s)
           \/ Google!PersonDecides(s)
  BY <1>2, WaitsKeep DEF Google!Begin, Google!CreatePlanRollout, Google!ExecutePlan,
     Google!CreateApplyRollout, Google!PollPendingApproval, Google!ApproveRollout,
     Google!PollApplyRollout, Google!ExecuteApply, Google!PendingStarts, Google!RolloutEnds,
     Google!JobEnds, Google!PersonDecides, Google!release_vars
<1> QED BY <1>1, <1>2 DEF Acts

\* The release of the session that makes a step.
LEMMA OwnReleaseStep ==
  ASSUME SInv, NEW s \in Sessions, OwnRelease(s), Acts(s)
  PROVE  OwnRelease(s)'
<1> USE GotoSets DEF Unreleased, Active
<1>t. Google!TypeOK
  BY DEF SInv
<1>1. CASE Google!Begin(s)
  <2>1. pc[s] = "idle" /\ pc'[s] = "put" /\ UNCHANGED <<release, bundle, rollout>>
    BY <1>t, <1>1 DEF Google!Begin, Google!release_vars, Google!rollout_vars
  <2> QED BY <2>1 DEF OwnRelease
<1>2. CASE Google!PutBundle(s)
  <2>1. pc[s] = "put" /\ pc'[s] = "deliver" /\ bundle' = s /\ UNCHANGED <<release, rollout>>
    BY <1>t, <1>2 DEF Google!PutBundle, Google!rollout_vars
  <2> QED BY <2>1 DEF OwnRelease
<1>3. CASE Google!CreateDeliveryPipeline(s)
  <2>1. pc[s] = "deliver" /\ pc'[s] = "release" /\ UNCHANGED <<bundle, release, rollout>>
    BY <1>t, <1>3 DEF Google!CreateDeliveryPipeline, Google!rollout_vars
  <2> QED BY <2>1 DEF OwnRelease
<1>4. CASE Google!CreateRelease(s)
  <2>1. pc[s] = "release" /\ pc'[s] = "render" /\ UNCHANGED <<bundle, rollout>>
    BY <1>t, <1>4 DEF Google!CreateRelease, Google!rollout_vars
  <2>2. release'[s] = bundle /\ bundle = s
    BY <1>t, <1>4, <2>1 DEF Google!CreateRelease, OwnRelease, Google!TypeOK
  <2> QED BY <2>1, <2>2 DEF OwnRelease
<1>5. ASSUME UNCHANGED <<bundle, release, rollout>>, Active(s), pc[s] \notin Unreleased,
             pc'[s] \notin Unreleased, pc'[s] # "render",
             pc'[s] = "planRollout" => pc[s] = "render",
             pc'[s] = "planJob" => rollout[s]["plan"] = "succeeded"
      PROVE  OwnRelease(s)'
  BY <1>5 DEF OwnRelease
<1>6. ASSUME UNCHANGED <<bundle, release, rollout>>, pc'[s] = "over"
      PROVE  OwnRelease(s)'
  BY <1>6 DEF OwnRelease
<1>7. CASE Waits(s)
  <2>1. UNCHANGED <<bundle, release, rollout>>
    BY <1>7, WaitsKeep DEF Google!release_vars, Google!rollout_vars
  <2>2. CASE Google!WaitForRender(s)
    BY <1>t, <1>5, <1>6, <2>1, <2>2 DEF Google!WaitForRender
  <2>3. CASE Google!WaitForPlanRollout(s)
    BY <1>t, <1>5, <1>6, <2>1, <2>3 DEF Google!WaitForPlanRollout
  <2>4. CASE Google!PlanExecuted(s)
    BY <1>t, <1>5, <1>6, <2>1, <2>4 DEF Google!PlanExecuted
  <2>5. CASE Google!Decide(s)
    BY <1>t, <1>5, <1>6, <2>1, <2>5 DEF Google!Decide
  <2>6. CASE Google!ApplyTimesOut(s) \/ Google!ApplyExecuted(s) \/ Google!Fails(s)
    BY <1>t, <1>6, <2>1, <2>6 DEF Google!ApplyTimesOut, Google!ApplyExecuted, Google!Fails
  <2> QED BY <1>7, <2>2, <2>3, <2>4, <2>5, <2>6 DEF Waits
<1>8. CASE \/ Google!ExecutePlan(s) \/ Google!PollPendingApproval(s) \/ Google!PollApplyRollout(s)
           \/ Google!ExecuteApply(s)
  <2>1. UNCHANGED <<bundle, release, rollout>>
    BY <1>8 DEF Google!ExecutePlan, Google!PollPendingApproval, Google!PollApplyRollout,
       Google!ExecuteApply, Google!release_vars, Google!rollout_vars
  <2>2. CASE Google!ExecutePlan(s) \/ Google!ExecuteApply(s)
    BY <1>t, <1>5, <2>1, <2>2 DEF Google!ExecutePlan, Google!ExecuteApply
  <2>3. CASE Google!PollPendingApproval(s)
    <3>1. pc[s] = "applyWait" /\ pc'[s] \in {"applyWait", "approve"}
      BY <1>t, <2>3 DEF Google!PollPendingApproval
    <3> QED BY <1>5, <2>1, <3>1
  <2>4. CASE Google!PollApplyRollout(s)
    <3>1. pc[s] = "applyWait" /\ pc'[s] \in {"applyWait", "applyJob", "over"}
      BY <1>t, <2>4 DEF Google!PollApplyRollout
    <3> QED BY <1>5, <2>1, <3>1
  <2> QED BY <1>8, <2>2, <2>3, <2>4
<1>9. CASE Google!RenderEnds(s) \/ Google!JobEnds(s)
  BY <1>9 DEF Google!RenderEnds, Google!JobEnds, OwnRelease, Google!release_vars,
     Google!rollout_vars
<1>10. CASE Google!CreatePlanRollout(s)
  <2>1. /\ pc[s] = "planRollout" /\ pc'[s] = "planWait" /\ UNCHANGED <<bundle, release>>
        /\ release[s] = s
    BY <1>t, <1>10 DEF Google!CreatePlanRollout, Google!release_vars, OwnRelease
  <2> QED BY <2>1 DEF OwnRelease
<1>11. CASE Google!CreateApplyRollout(s)
  <2>1. /\ pc[s] = "applyRollout" /\ pc'[s] = "applyWait" /\ UNCHANGED <<bundle, release>>
        /\ release[s] = s
    BY <1>t, <1>11 DEF Google!CreateApplyRollout, Google!release_vars, OwnRelease
  <2> QED BY <2>1 DEF OwnRelease
<1>12. CASE Google!ApproveRollout(s)
  <2>1. /\ pc[s] = "approve" /\ pc'[s] = "applyWait" /\ UNCHANGED <<bundle, release>>
        /\ release[s] = s
    BY <1>t, <1>12 DEF Google!ApproveRollout, Google!release_vars, OwnRelease
  <2> QED BY <2>1 DEF OwnRelease
<1>13. CASE Google!PersonDecides(s)
  <2>1. rollout[s]["apply"] = "pendingApproval"
    BY <1>13 DEF Google!PersonDecides, Google!Approve
  <2>2. rollout'[s]["plan"] = rollout[s]["plan"] /\ UNCHANGED <<pc, bundle, release>>
    BY <1>t, <1>13 DEF Google!PersonDecides, Google!Approve, Google!Start, Google!TypeOK,
       Google!Stages, Google!release_vars
  <2>3. release[s] = s
    BY <2>1 DEF OwnRelease, Google!Stages
  <2> QED BY <2>2, <2>3 DEF OwnRelease
<1>14. CASE Google!PendingStarts(s) \/ Google!RolloutEnds(s)
  <2>1. PICK stage \in Google!Stages, state \in {"inProgress", "succeeded", "failed"} :
          Moved(s, stage, state) /\ rollout[s][stage] \in {"pending", "inProgress"}
    BY <1>14 DEF Google!PendingStarts, Google!RolloutEnds, Moved
  <2>2. UNCHANGED <<pc, bundle, release>>
    BY <1>14 DEF Google!PendingStarts, Google!RolloutEnds, Google!release_vars
  <2>3. release[s] = s
    BY <2>1 DEF OwnRelease
  <2>4. rollout'[s]["plan"] = rollout[s]["plan"] \/ rollout[s]["plan"] \in {"pending", "inProgress"}
    BY <1>t, <2>1 DEF Moved, Google!TypeOK, Google!Stages
  <2> QED BY <2>2, <2>3, <2>4 DEF OwnRelease
<1> QED BY <1>1, <1>2, <1>3, <1>4, <1>7, <1>8, <1>9, <1>10, <1>11, <1>12, <1>13, <1>14
           DEF Acts

LEMMA ReleasesKept ==
  ASSUME SInv, Alone, Releases, NEW s \in Sessions, Acts(s)
  PROVE  Releases'
<1>1. ASSUME NEW t \in Sessions, t # s
      PROVE  OwnRelease(t)'
  <2>1. /\ pc'[t] = pc[t] /\ rollout'[t] = rollout[t] /\ release'[t] = release[t]
    BY <1>1, MovesApart, RolloutsApart, ReleasesApart DEF SInv
  <2>2. pc[t] \in {"deliver", "release"} => bundle' = bundle
    <3>1. Google!PutBundle(s) => ~Active(t)
      BY <1>1 DEF Google!PutBundle, Alone, Active
    <3> QED BY <3>1, ReleasesApart DEF SInv, Active
  <2>3. OwnRelease(t)
    BY DEF Releases
  <2> QED BY <2>1, <2>2, <2>3 DEF OwnRelease, Active
<1>2. OwnRelease(s)'
  BY OwnReleaseStep DEF Releases
<1> QED BY <1>1, <1>2 DEF Releases

\* A rollout that is created, decided on or started.
LEMMA MoveKeeps ==
  ASSUME SInv, NEW s \in Sessions, NEW stage \in Google!Stages,
         NEW state \in {"pending", "inProgress", "pendingApproval", "rejected", "failed"},
         Moved(s, stage, state), state = "inProgress" => ~Google!Taken(stage),
         state = "inProgress" => \A t \in Sessions \ {s} : ~Active(t) \/ s \in late',
         Jobs, UNCHANGED job, late \subseteq late',
         \A t \in Sessions : Active(t)' => Active(t)
  PROVE  Jobs'
<1>1. \A t \in Sessions, other \in Google!Stages :
        rollout'[t][other] = IF t = s /\ other = stage THEN state ELSE rollout[t][other]
  BY DEF Moved, SInv, Google!TypeOK
<1> SUFFICES ASSUME NEW other \in Google!Stages PROVE OwnJob(other)'
  BY DEF Jobs
<1>2. OwnJob(other)
  BY DEF Jobs
<1>3. other = stage /\ state = "inProgress" => \A t \in Sessions : rollout[t][other] # "inProgress"
  BY DEF Google!Taken
<1>4. ASSUME NEW u \in Sessions, NEW t \in Sessions,
             rollout'[u][other] = "inProgress", rollout'[t][other] = "inProgress"
      PROVE  u = t
  BY <1>1, <1>2, <1>3, <1>4 DEF OwnJob
<1>5. ASSUME NEW u \in Sessions, Active(u)', rollout'[u][other] = "succeeded"
      PROVE  /\ job'[other] \in {u} \cup late'
             /\ \A t \in Sessions \ {u} : rollout'[t][other] = "inProgress" => t \in late'
  <2>1. Active(u) /\ rollout[u][other] = "succeeded"
    BY <1>1, <1>5
  <2>2. /\ job[other] \in {u} \cup late
        /\ \A t \in Sessions \ {u} : rollout[t][other] = "inProgress" => t \in late
    BY <1>2, <2>1 DEF OwnJob
  <2>3. ASSUME NEW t \in Sessions \ {u}, rollout'[t][other] = "inProgress"
        PROVE  t \in late'
    <3>1. CASE t = s /\ other = stage
      BY <1>1, <2>1, <2>3, <3>1
    <3>2. CASE ~(t = s /\ other = stage)
      BY <1>1, <2>2, <2>3, <3>2
    <3> QED BY <3>1, <3>2
  <2> QED BY <2>2, <2>3
<1> QED BY <1>4, <1>5 DEF OwnJob

LEMMA JobsStay ==
  ASSUME Jobs, UNCHANGED <<rollout, job>>, late \subseteq late',
         \A t \in Sessions :
           Active(t)' => Active(t) \/ \A stage \in Google!Stages : rollout[t][stage] = "none"
  PROVE  Jobs'
<1> SUFFICES ASSUME NEW stage \in Google!Stages PROVE OwnJob(stage)'
  BY DEF Jobs
<1>1. OwnJob(stage)
  BY DEF Jobs
<1>2. ASSUME NEW u \in Sessions, Active(u)', rollout'[u][stage] = "succeeded"
      PROVE  /\ job'[stage] \in {u} \cup late'
             /\ \A t \in Sessions \ {u} : rollout'[t][stage] = "inProgress" => t \in late'
  BY <1>1, <1>2 DEF OwnJob
<1>3. \A u, t \in Sessions :
        rollout'[u][stage] = "inProgress" /\ rollout'[t][stage] = "inProgress" => u = t
  BY <1>1 DEF OwnJob
<1> QED BY <1>2, <1>3 DEF OwnJob

\* Of the steps that begin a rollout only those of who is not active make it late.
LEMMA BeginsLate ==
  ASSUME SInv, Alone, Releases, NEW s \in Sessions, NEW stage \in Google!Stages,
         rollout[s][stage] # "none", late' = IF Google!Over(s) THEN late \cup {s} ELSE late
  PROVE  /\ \A t \in Sessions \ {s} : ~Active(t) \/ s \in late'
         /\ late \subseteq late'
<1>1. pc[s] # "idle"
  BY DEF SInv, Course, ApplyInv, BeforePlan, Releases, OwnRelease, Unreleased, Google!Stages
<1>2. Active(s) \/ s \in late'
  BY <1>1 DEF Google!Over, Active
<1> QED BY <1>2 DEF Alone

LEMMA JobsKept ==
  ASSUME SInv, Alone, Releases, Jobs, NEW s \in Sessions, Acts(s)
  PROVE  Jobs' /\ late \subseteq late'
<1>t. Google!TypeOK
  BY DEF SInv
<1>1. CASE Google!Begin(s)
  <2>1. UNCHANGED <<rollout, job, late>> /\ pc[s] = "idle"
    BY <1>1 DEF Google!Begin, Google!rollout_vars
  <2>2. \A stage \in Google!Stages : rollout[s][stage] = "none"
    BY <2>1 DEF SInv, Course, ApplyInv, BeforePlan, Releases, OwnRelease, Unreleased,
       Google!Stages
  <2> QED BY <1>t, <2>1, <2>2, ActivesKept, JobsStay
<1>a. ~Google!Begin(s) => \A t \in Sessions : Active(t)' => Active(t)
  BY <1>t, ActivesKept
<1>2. CASE UNCHANGED Google!rollout_vars /\ ~Google!Begin(s)
  BY <1>2, <1>a, JobsStay DEF Google!rollout_vars
<1>3. CASE Google!CreatePlanRollout(s)
  <2>1. PICK state \in {"pending", "inProgress"} :
          Moved(s, "plan", state) /\ (state = "inProgress" => ~Google!Taken("plan"))
    BY <1>3, StartMoves DEF Google!CreatePlanRollout, Google!Stages
  <2>2. UNCHANGED <<job, late>> /\ Active(s) /\ ~Google!Begin(s)
    BY <1>3 DEF Google!CreatePlanRollout, Active, Google!Begin
  <2>3. \A t \in Sessions \ {s} : ~Active(t)
    BY <2>2 DEF Alone
  <2> QED BY <1>a, <2>1, <2>2, <2>3, MoveKeeps DEF Google!Stages
<1>4. CASE Google!CreateApplyRollout(s)
  <2>1. Moved(s, "apply", "pendingApproval") /\ UNCHANGED <<job, late>> /\ ~Google!Begin(s)
    BY <1>4 DEF Google!CreateApplyRollout, Moved, Google!Begin
  <2> QED BY <1>a, <2>1, MoveKeeps DEF Google!Stages
<1>5. CASE Google!ApproveRollout(s)
  <2>1. UNCHANGED <<job, late>> /\ Active(s) /\ ~Google!Begin(s)
    BY <1>5 DEF Google!ApproveRollout, Active, Google!Begin
  <2>2. CASE UNCHANGED rollout
    BY <1>a, <2>1, <2>2, JobsStay
  <2>3. CASE Google!Start(s, "apply")
    <3>1. PICK state \in {"pending", "inProgress"} :
            Moved(s, "apply", state) /\ (state = "inProgress" => ~Google!Taken("apply"))
      BY <2>3, StartMoves DEF Google!Stages
    <3>2. \A t \in Sessions \ {s} : ~Active(t)
      BY <2>1 DEF Alone
    <3> QED BY <1>a, <2>1, <3>1, <3>2, MoveKeeps DEF Google!Stages
  <2> QED BY <1>5, <2>2, <2>3 DEF Google!ApproveRollout, Google!Approve
<1>6. CASE Google!PersonDecides(s)
  <2>1. UNCHANGED <<job, pc>> /\ rollout[s]["apply"] = "pendingApproval"
    BY <1>6 DEF Google!PersonDecides, Google!Approve
  <2>2. \A t \in Sessions : Active(t)' => Active(t)
    BY <2>1 DEF Active
  <2>3. CASE Google!Start(s, "apply") /\ late' = IF Google!Over(s) THEN late \cup {s} ELSE late
    <3>1. PICK state \in {"pending", "inProgress"} :
            Moved(s, "apply", state) /\ (state = "inProgress" => ~Google!Taken("apply"))
      BY <2>3, StartMoves DEF Google!Stages
    <3>2. (\A t \in Sessions \ {s} : ~Active(t) \/ s \in late') /\ late \subseteq late'
      BY <2>1, <2>3, BeginsLate DEF Google!Stages
    <3> QED BY <2>1, <2>2, <3>1, <3>2, MoveKeeps DEF Google!Stages
  <2>4. CASE Moved(s, "apply", "rejected") /\ UNCHANGED late
    BY <2>1, <2>2, <2>4, MoveKeeps DEF Google!Stages
  <2> QED BY <1>6, <2>3, <2>4 DEF Google!PersonDecides, Google!Approve, Moved
<1>7. CASE Google!PendingStarts(s)
  <2>1. PICK stage \in Google!Stages : /\ rollout[s][stage] = "pending" /\ ~Google!Taken(stage)
                                /\ Moved(s, stage, "inProgress")
    BY <1>7 DEF Google!PendingStarts, Moved
  <2>2. UNCHANGED <<job, pc>> /\ late' = IF Google!Over(s) THEN late \cup {s} ELSE late
    BY <1>7 DEF Google!PendingStarts
  <2>3. (\A t \in Sessions \ {s} : ~Active(t) \/ s \in late') /\ late \subseteq late'
    BY <2>1, <2>2, BeginsLate
  <2>4. \A t \in Sessions : Active(t)' => Active(t)
    BY <2>2 DEF Active
  <2> QED BY <2>1, <2>2, <2>3, <2>4, MoveKeeps
<1>8. CASE Google!RolloutEnds(s)
  <2>1. PICK stage \in Google!Stages :
          /\ rollout[s][stage] = "inProgress"
          /\ \/ Moved(s, stage, "succeeded") /\ job' = [job EXCEPT ![stage] = release[s]]
             \/ Moved(s, stage, "failed") /\ UNCHANGED job
    BY <1>8 DEF Google!RolloutEnds, Moved
  <2>2. UNCHANGED <<pc, late>>
    BY <1>8 DEF Google!RolloutEnds
  <2>3. \A t \in Sessions : Active(t)' <=> Active(t)
    BY <2>2 DEF Active
  <2>4. CASE Moved(s, stage, "failed") /\ UNCHANGED job
    BY <2>2, <2>3, <2>4, MoveKeeps
  <2>5. CASE Moved(s, stage, "succeeded") /\ job' = [job EXCEPT ![stage] = release[s]]
    <3>1. \A t \in Sessions, other \in Google!Stages :
            rollout'[t][other] = IF t = s /\ other = stage THEN "succeeded" ELSE rollout[t][other]
      BY <1>t, <2>5 DEF Moved, Google!TypeOK
    <3>2. \A other \in Google!Stages : job'[other] = IF other = stage THEN s ELSE job[other]
      BY <1>t, <2>1, <2>5 DEF Google!TypeOK, Releases, OwnRelease
    <3>3. ASSUME NEW other \in Google!Stages
          PROVE  OwnJob(other)'
      <4>1. OwnJob(other)
        BY DEF Jobs
      <4>2. \A u, t \in Sessions :
              rollout'[u][other] = "inProgress" /\ rollout'[t][other] = "inProgress" => u = t
        BY <3>1, <4>1 DEF OwnJob
      <4>3. ASSUME NEW u \in Sessions, Active(u)', rollout'[u][other] = "succeeded"
            PROVE  /\ job'[other] \in {u} \cup late'
                   /\ \A t \in Sessions \ {u} : rollout'[t][other] = "inProgress" => t \in late'
        <5>1. Active(u)
          BY <2>3, <4>3
        <5>2. CASE other # stage
          BY <2>2, <3>1, <3>2, <4>1, <4>3, <5>1, <5>2 DEF OwnJob
        <5>3. CASE other = stage /\ u = s
          BY <2>1, <3>1, <3>2, <4>1, <5>3 DEF OwnJob
        <5>4. CASE other = stage /\ u # s
          <6>1. rollout[u][stage] = "succeeded"
            BY <3>1, <4>3, <5>4
          <6>2. \A t \in Sessions \ {u} : rollout[t][stage] = "inProgress" => t \in late
            BY <4>1, <5>1, <5>4, <6>1 DEF OwnJob
          <6>3. s \in late
            BY <2>1, <5>4, <6>2
          <6> QED BY <2>2, <3>1, <3>2, <5>4, <6>2, <6>3
        <5> QED BY <5>2, <5>3, <5>4
      <4> QED BY <4>2, <4>3 DEF OwnJob
    <3> QED BY <2>2, <3>3 DEF Jobs
  <2> QED BY <2>1, <2>4, <2>5
<1>9. CASE \/ Google!PutBundle(s) \/ Google!CreateDeliveryPipeline(s)
           \/ Google!CreateRelease(s) \/ Waits(s) \/ Google!ExecutePlan(s)
           \/ Google!PollPendingApproval(s) \/ Google!PollApplyRollout(s)
           \/ Google!ExecuteApply(s) \/ Google!RenderEnds(s) \/ Google!JobEnds(s)
  <2>1. UNCHANGED Google!rollout_vars
    BY <1>9, WaitsKeep DEF Google!PutBundle, Google!CreateDeliveryPipeline,
       Google!CreateRelease, Google!ExecutePlan, Google!PollPendingApproval,
       Google!PollApplyRollout, Google!ExecuteApply, Google!RenderEnds, Google!JobEnds
  <2> QED BY <1>1, <1>2, <2>1 DEF Google!rollout_vars
<1> QED BY <1>1, <1>3, <1>4, <1>5, <1>6, <1>7, <1>8, <1>9 DEF Acts

LEMMA DefinitionsKept ==
  ASSUME SInv, Releases, Jobs, Google!DefinitionsAreOwn, NEW s \in Sessions, Acts(s),
         late \subseteq late'
  PROVE  Google!DefinitionsAreOwn'
<1>t. Google!TypeOK
  BY DEF SInv
<1>1. ASSUME NEW stage \in Google!Stages, Active(s), rollout[s][stage] = "succeeded",
             Google!Execute(s, stage)
      PROVE  Google!DefinitionsAreOwn'
  <2>1. job[stage] \in {s} \cup late
    BY <1>1 DEF Jobs, OwnJob
  <2>2. \A t \in Sessions, other \in Google!Stages :
          /\ ran'[t][other] = IF t = s /\ other = stage THEN job[stage] ELSE ran[t][other]
          /\ t # s \/ other # stage => execution'[t][other] = execution[t][other]
    BY <1>t, <1>1 DEF Google!Execute, Google!TypeOK
  <2> QED BY <2>1, <2>2 DEF Google!DefinitionsAreOwn
<1>2. CASE Google!ExecutePlan(s)
  BY <1>1, <1>2 DEF Google!ExecutePlan, Active, Releases, OwnRelease, Google!Stages
<1>3. CASE Google!ExecuteApply(s)
  BY <1>1, <1>3 DEF Google!ExecuteApply, Active, SInv, Course, ApplyInv, Google!Stages
<1>4. CASE Google!JobEnds(s)
  <2>1. \A t \in Sessions, stage \in Google!Stages :
          execution'[t][stage] # "none" => execution[t][stage] # "none"
    BY <1>t, <1>4 DEF Google!JobEnds, Google!TypeOK
  <2>2. ran' = ran
    BY <1>4 DEF Google!JobEnds
  <2> QED BY <2>1, <2>2 DEF Google!DefinitionsAreOwn
<1>5. CASE ~Google!ExecutePlan(s) /\ ~Google!ExecuteApply(s) /\ ~Google!JobEnds(s)
  <2>1. UNCHANGED <<execution, ran>>
    BY <1>5, WaitsKeep DEF Acts, Google!Begin, Google!PutBundle,
       Google!CreateDeliveryPipeline, Google!CreateRelease, Google!CreatePlanRollout,
       Google!CreateApplyRollout, Google!PollPendingApproval, Google!ApproveRollout,
       Google!PollApplyRollout, Google!RenderEnds, Google!PendingStarts, Google!RolloutEnds,
       Google!PersonDecides, Google!job_vars
  <2> QED BY <2>1 DEF Google!DefinitionsAreOwn
<1> QED BY <1>2, <1>3, <1>4, <1>5

OwnInv == Alone /\ Releases /\ Jobs /\ Google!DefinitionsAreOwn

LEMMA OwnInit == Google!Init => OwnInv
<1> SUFFICES ASSUME Google!Init PROVE OwnInv
  OBVIOUS
<1>1. \A s \in Sessions : /\ pc[s] = "idle" /\ release[s] = Nobody
                          /\ \A stage \in Google!Stages :
                               rollout[s][stage] = "none" /\ execution[s][stage] = "none"
  BY DEF Google!Init
<1> QED BY <1>1 DEF OwnInv, Alone, Active, Releases, OwnRelease, Unreleased, Jobs, OwnJob,
        Google!DefinitionsAreOwn, Google!Stages

LEMMA OwnKept == ASSUME ~Overlap, SInv, OwnInv, [Google!Next]_Google!vars PROVE OwnInv'
<1>1. ASSUME NEW s \in Sessions, Acts(s)
      PROVE  OwnInv'
  <2>1. Alone' /\ Releases'
    BY <1>1, AloneKept, ReleasesKept DEF SInv, OwnInv
  <2>2. Jobs' /\ late \subseteq late'
    BY <1>1, JobsKept DEF OwnInv
  <2>3. Google!DefinitionsAreOwn'
    BY <1>1, <2>2, DefinitionsKept DEF OwnInv
  <2> QED BY <2>1, <2>2, <2>3 DEF OwnInv
<1>2. CASE UNCHANGED Google!vars
  BY <1>2 DEF Google!vars, Google!release_vars, Google!rollout_vars, Google!job_vars,
     OwnInv, Alone, Active, Releases, OwnRelease, Jobs, OwnJob, Google!DefinitionsAreOwn
<1> QED BY <1>1, <1>2, StepCases DEF Acts

\* Sessions that come one after the other execute the jobs as they defined them,
\* for any number of sessions, although all use the same two jobs and what one
\* has begun at the provider goes on without it; only a rollout that a person
\* approved, or that began, when its session had ended can have put back an
\* older definition (waitForPlanRollout, waitForApplyRollout, executeJob).
THEOREM DefinitionsOwn == ASSUME ~Overlap PROVE Google!Spec => []DefinitionsAreOwn
<1>1. SInv /\ OwnInv /\ [Google!Next]_Google!vars => OwnInv'
  BY OwnKept
<1>2. OwnInv => DefinitionsAreOwn
  BY DEF OwnInv, Google!DefinitionsAreOwn, Google!Stages, DefinitionsAreOwn, Stages
<1> QED BY <1>1, <1>2, OwnInit, SessionsConsistent, PTL DEF Google!Spec
==============================================================================
