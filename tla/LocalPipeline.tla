--------------------------- MODULE LocalPipeline ---------------------------
(***************************************************************************)
(* The pipelines of the steps that the agent runs itself                   *)
(* (service/local.go): plan, decide, apply, as commands of its own         *)
(* process. Steps of a release run in parallel, as goroutines that share   *)
(* one terminal: what a step asks is asked under a lock, with the log of   *)
(* all of them kept in a buffer meanwhile. What a command writes goes to   *)
(* the writer the log had when the command began.                          *)
(***************************************************************************)
EXTENDS Naturals, Approval

CONSTANTS
  Steps,          \* steps that run in parallel
  Nobody,         \* no step
  Terminal,       \* the writer of the log when nothing is asked
  NoPlan,         \* before a plan has been made
  StepApprovals,  \* the approval properties a step may have
  Plans           \* what a plan may find

ASSUME NamesAssumption == Nobody \notin Steps /\ Terminal \notin Steps /\ Nobody # Terminal
ASSUME StepAssumption == StepApprovals \subseteq StepProperties
ASSUME PlansAssumption == Plans \subseteq PipelineChanges /\ NoPlan \notin PipelineChanges

Commands == {"plan", "apply"}
Messages == Steps \X (Commands \cup {"start"})
Answers == {"yes", "no", "other"}
NoLine == [answer |-> "none", to |-> Nobody]

VARIABLES
  step, cmd, auto,  \* properties of the steps, the agent's command, autoApprove
  pc,               \* step -> what it does next
  found,            \* step -> what its plan found
  consent,          \* step -> who let it be applied
  applied,          \* step -> is it applied
  result,           \* step -> what executeLocalPipeline returned
  lock,             \* who holds inputLock
  log,              \* the writer of the log: the terminal or the buffer of a step
  original,         \* step -> the writer it found when it asked
  buffer,           \* step -> the messages in its buffer
  writer,           \* step -> where its command writes
  question,         \* whose question the terminal shows
  line,             \* what a person has typed and nobody has read
  readFor,          \* step -> the question its answer was typed for (history)
  via,              \* message -> the writer it was written to (history)
  printed,          \* message -> how often the terminal shows it
  shared            \* buffers that a command writes to as well (history)

terms_vars == <<step, cmd, auto>>
run_vars == <<found, consent, applied>>
log_vars == <<log, original, buffer, writer, via, printed, shared>>
input_vars == <<lock, question, line, readFor>>
vars == <<terms_vars, run_vars, log_vars, input_vars, pc, result>>

Init ==
  /\ step \in [Steps -> StepApprovals] /\ cmd \in {"run", "update"}
  /\ auto \in [Steps -> BOOLEAN] /\ \A s \in Steps : auto[s] \in AutoApproves(step[s].approve)
  /\ pc = [s \in Steps |-> "start"] /\ found = [s \in Steps |-> NoPlan]
  /\ consent = [s \in Steps |-> "nobody"] /\ applied = [s \in Steps |-> "no"]
  /\ result = [s \in Steps |-> "none"]
  /\ lock = Nobody /\ question = Nobody /\ line = NoLine
  /\ readFor = [s \in Steps |-> Nobody]
  /\ log = Terminal /\ original = [s \in Steps |-> Terminal]
  /\ writer = [s \in Steps |-> Terminal] /\ buffer = [s \in Steps |-> {}]
  /\ via = [m \in Messages |-> Nobody] /\ printed = [m \in Messages |-> 0] /\ shared = {}
------------------------------------------------------------------------------
Goto(s, next) == pc' = [pc EXCEPT ![s] = next]
Return(s, value) == Goto(s, "over") /\ result' = [result EXCEPT ![s] = value]
Over(s) == pc[s] = "over"

\* log.Printf, which the log serialises.
Log(message) ==
  /\ via' = [via EXCEPT ![message] = log]
  /\ IF log = Terminal
     THEN printed' = [printed EXCEPT ![message] = @ + 1] /\ UNCHANGED buffer
     ELSE buffer' = [buffer EXCEPT ![log] = @ \cup {message}] /\ UNCHANGED printed

\* What a command writes to a buffer the log does not serialise: writes at the
\* same time may both arrive, or one in the place of the other.
Write(s, message) ==
  /\ via[message] = Nobody /\ via' = [via EXCEPT ![message] = writer[s]]
  /\ IF writer[s] = Terminal
     THEN printed' = [printed EXCEPT ![message] = @ + 1] /\ UNCHANGED buffer
     ELSE /\ \E lost \in SUBSET (buffer[writer[s]] \cup {message}) :
               buffer' = [buffer EXCEPT ![writer[s]] = (@ \cup {message}) \ lost]
          /\ UNCHANGED printed

Start(s) ==
  /\ pc[s] = "start" /\ Log(<<s, "start">>) /\ Goto(s, "plan")
  /\ UNCHANGED <<terms_vars, run_vars, log, original, writer, shared, input_vars, result>>
------------------------------------------------------------------------------
(***************************************************************************)
(* executeWrapper                                                          *)
(***************************************************************************)
Running(command) == IF command = "plan" THEN "planning" ELSE "applying"

StartCommand(s) ==
  /\ pc[s] \in Commands /\ Goto(s, Running(pc[s]))
  /\ writer' = [writer EXCEPT ![s] = log]
  /\ shared' = IF log = Terminal THEN shared ELSE shared \cup {log}
  /\ applied' = IF pc[s] = "apply" THEN [applied EXCEPT ![s] = "begun"] ELSE applied
  /\ UNCHANGED <<terms_vars, found, consent, log, original, buffer, via, printed,
                 input_vars, result>>

Output(s) ==
  /\ \E command \in Commands : pc[s] = Running(command) /\ Write(s, <<s, command>>)
  /\ UNCHANGED <<terms_vars, run_vars, log, original, writer, shared, input_vars, pc, result>>

Ended(s, command) == pc[s] = Running(command) /\ via[<<s, command>>] # Nobody

\* The plan is in the output, unless a line of it is too long to be scanned.
PlanEnds(s) ==
  /\ Ended(s, "plan")
  /\ \E changes \in Plans : found' = [found EXCEPT ![s] = changes]
  /\ Goto(s, "decide")
  /\ UNCHANGED <<terms_vars, consent, applied, log_vars, input_vars, result>>

ApplyEnds(s) ==
  /\ Ended(s, "apply") /\ applied' = [applied EXCEPT ![s] = "done"] /\ Goto(s, "applied")
  /\ UNCHANGED <<terms_vars, found, consent, log_vars, input_vars, result>>

Applied(s) ==
  /\ pc[s] = "applied" /\ Return(s, "nil")
  /\ UNCHANGED <<terms_vars, run_vars, log_vars, input_vars>>

\* The command fails or is killed, or nothing in its output is a plan.
CommandFails(s) ==
  /\ pc[s] \in {"planning", "applying"} /\ Return(s, "error")
  /\ UNCHANGED <<terms_vars, run_vars, log_vars, input_vars>>
------------------------------------------------------------------------------
(***************************************************************************)
(* getApproval, getManualApproval                                          *)
(***************************************************************************)
Manual(s) == ManualApproval(step[s], cmd)

Decide(s) ==
  /\ pc[s] = "decide"
  /\ \/ ShouldStop(found[s], step[s].approve, Manual(s)) /\ UNCHANGED consent
        /\ Return(s, IF RejectsPlans(step[s].approve, Manual(s)) THEN "error" ELSE "nil")
     \/ /\ ~ShouldStop(found[s], step[s].approve, Manual(s)) /\ UNCHANGED result
        /\ IF ShouldApprove(found[s], step[s].approve, auto[s], Manual(s))
           THEN consent' = [consent EXCEPT ![s] = "agent"] /\ Goto(s, "apply")
           ELSE UNCHANGED consent /\ Goto(s, "ask")
  /\ UNCHANGED <<terms_vars, found, applied, log_vars, input_vars>>

\* Mutant: the lock is taken without waiting for it.
TakesLock(s) == lock' = s

Lock(s) == lock = Nobody /\ lock' = s

Redirect(s) ==
  /\ pc[s] = "ask" /\ Lock(s) /\ Goto(s, "show")
  /\ original' = [original EXCEPT ![s] = log] /\ log' = s
  /\ UNCHANGED <<terms_vars, run_vars, buffer, writer, via, printed, shared, question,
                 line, readFor, result>>

\* The question itself is printed past the log.
Show(s) ==
  /\ pc[s] = "show" /\ Goto(s, "read") /\ question' = s
  /\ UNCHANGED <<terms_vars, run_vars, log_vars, lock, line, readFor, result>>

\* A person types one line at a time, for the question on the terminal.
PersonTypes ==
  /\ question # Nobody /\ pc[question] = "read" /\ line = NoLine
  /\ \E answer \in Answers : line' = [answer |-> answer, to |-> question]
  /\ UNCHANGED <<terms_vars, run_vars, log_vars, lock, question, readFor, pc, result>>

\* An answer is read by whoever asks for one; anything but a yes or a no is
\* read again.
ReadLine(s) ==
  /\ line # NoLine /\ line' = NoLine
  /\ readFor' = [readFor EXCEPT ![s] = line.to]
  /\ IF line.answer = "other" THEN UNCHANGED pc ELSE Goto(s, "restore")
  /\ consent' = IF line.answer = "yes" THEN [consent EXCEPT ![s] = "person"] ELSE consent

\* Mutant: an input that is at its end is read again.
ReadAgain(s) == FALSE /\ UNCHANGED vars

InputEnds(s) ==
  line = NoLine /\ Goto(s, "restore") /\ UNCHANGED <<line, readFor, consent>>

\* AskForConfirmation
Read(s) ==
  /\ pc[s] = "read" /\ (ReadLine(s) \/ InputEnds(s))
  /\ UNCHANGED <<terms_vars, found, applied, log_vars, lock, question, result>>

Restore(s) ==
  /\ pc[s] = "restore" /\ Goto(s, "print") /\ log' = original[s]
  /\ UNCHANGED <<terms_vars, run_vars, original, buffer, writer, via, printed, shared,
                 input_vars, result>>

\* Mutant: the buffer is printed before the log is restored, into itself.
PrintsFirst(s) ==
  /\ pc[s] = "print" /\ Goto(s, "unlock") /\ UNCHANGED log_vars
  /\ UNCHANGED <<terms_vars, run_vars, input_vars, result>>

PrintBuffer(s) ==
  /\ pc[s] = "print" /\ Goto(s, "unlock")
  /\ IF log = Terminal
     THEN printed' = [m \in Messages |->
                       IF m \in buffer[s] THEN printed[m] + 1 ELSE printed[m]]
          /\ UNCHANGED buffer
     ELSE buffer' = [buffer EXCEPT ![log] = @ \cup buffer[s]] /\ UNCHANGED printed
  /\ UNCHANGED <<terms_vars, run_vars, log, original, writer, via, shared, input_vars, result>>

Unlock(s) ==
  /\ pc[s] = "unlock" /\ lock' = Nobody
  /\ IF consent[s] = "person" THEN Goto(s, "apply") /\ UNCHANGED result ELSE Return(s, "error")
  /\ UNCHANGED <<terms_vars, run_vars, log_vars, question, line, readFor>>
------------------------------------------------------------------------------
Goroutine(s) ==
  \/ Start(s) \/ StartCommand(s) \/ PlanEnds(s) \/ ApplyEnds(s) \/ Applied(s)
  \/ CommandFails(s) \/ Output(s) \/ Decide(s) \/ Redirect(s) \/ Show(s)
  \/ Restore(s) \/ PrintBuffer(s) \/ Unlock(s)

Finished == (\A s \in Steps : Over(s)) /\ UNCHANGED vars

Next == (\E s \in Steps : Goroutine(s) \/ Read(s)) \/ PersonTypes \/ Finished

Spec == Init /\ [][Next]_vars

Answered(s) == Read(s) /\ pc'[s] = "restore"

\* Commands end, and a person says yes or no, or closes the input, in the end.
FairSpec ==
  Spec /\ \A s \in Steps : WF_vars(Goroutine(s)) /\ WF_vars(Read(s)) /\ SF_vars(Answered(s))
------------------------------------------------------------------------------
(***************************************************************************)
(* Properties                                                              *)
(***************************************************************************)
Promise == INSTANCE StepPipeline WITH
  Runs <- Steps, plan <- found,
  terms <- [s \in Steps |-> [approve |-> step[s].approve, manual |-> Manual(s), auto |-> auto[s]]]

\* A step that the agent runs itself keeps the promise of the pipelines at the
\* providers (executeLocalPipeline implements StepPipeline).
KeepsPromise == Promise!Spec

\* The answer a step acts on was typed for its own question, however many steps
\* want to ask at a time (getManualApproval's lock).
AnswerIsForItsQuestion ==
  \A s \in Steps : readFor[s] \in {Nobody, s} /\ (consent[s] = "person" => readFor[s] = s)

\* When nothing is asked the log is on the terminal, and what was logged during
\* a question has been printed after it, once; only into a buffer that a command
\* writes to as well may something get lost (getManualApproval's buffer).
LogComesBack ==
  /\ lock = Nobody => log = Terminal
  /\ \A m \in Messages :
       /\ printed[m] <= 1
       /\ via[m] \in Steps \ shared /\ pc[via[m]] \in {"unlock", "apply", "applying", "applied", "over"}
            => printed[m] = 1

\* Every step ends, whatever the answers (executeLocalPipeline).
StepsEnd == <>(\A s \in Steps : Over(s))
==============================================================================
