----------------------------- MODULE RunMessages -----------------------------
(***************************************************************************)
(* The messages of one execution of run or update: Run (service/runner.go)  *)
(* with the loops of Process and processRelease (service/update.go) as far  *)
(* as they tell something, the fan-out of a message to all notifiers that   *)
(* listen to its type (notify/manager.go), the client that posts it to an   *)
(* API with retries and one deadline (notify/api), and the signal that      *)
(* cancels the context. What a step does is in Updater; here it fails or    *)
(* not. Messages of modules, schedules and approvals are left out, and so   *)
(* are the cases in which one is not sent for want of its content, which a  *)
(* receiver cannot tell from one that was lost.                             *)
(***************************************************************************)
EXTENDS Naturals, Functions

CONSTANTS
  NumSteps,     \* steps of the configuration
  MaxReleases,  \* releases an update may go through
  Api,          \* notifiers that post to an API
  Chat,         \* notifiers of Slack and Teams
  Types,        \* the types of messages each notifier listens to
  MaxFaults     \* messages that are not sent at the first attempt

ASSUME ConstantsAssumption ==
  /\ NumSteps \in Nat \ {0} /\ MaxReleases \in Nat /\ MaxFaults \in Nat
  /\ Api \cap Chat = {}
  /\ Types \in [Api \cup Chat -> SUBSET {"started", "success", "failure", "progress", "sources"}]

Steps == 1 .. NumSteps
Notifiers == Api \cup Chat
Attempts == 3   \* NewHttpClient(ctx, 30*time.Second, 3, ...)
Main == 0       \* the goroutine of Run; a step's own is named by the step
Posters == {Main} \cup Steps

VARIABLES
  main,       \* where Run is
  releases,   \* how many there are to go through
  release,    \* the one it is at
  at,         \* where each step is in this release
  cancelled,  \* the signal: "no", "early" or "late", before or after finalize
  finalize,   \* the status finalize.Do was used for
  post,       \* the message each goroutine is sending, and the tries by notifier
  down,       \* APIs that have stopped answering
  faults,     \* messages with which something went wrong so far
  heard,      \* history: what each notifier's receiver has got
  told,       \* history: all messages sent
  lost        \* history: notifiers that have given up on the outcome

loop == <<releases, release, at>>
sending == <<post, down, faults>>
history == <<heard, told, lost>>
vars == <<main, loop, cancelled, finalize, sending, history>>

NoPost == [message |-> <<>>, tries |-> <<>>]
Idle(poster) == DOMAIN post[poster].tries = {}

OfRun(status) == [level |-> "run", release |-> 0, step |-> 0, attempt |-> 0, status |-> status]
OfPipeline(status) ==
  [level |-> "pipeline", release |-> release, step |-> 0, attempt |-> 0, status |-> status]
OfStep(step, status) ==
  [level |-> "step", release |-> release, step |-> step,
   attempt |-> IF main = "retries" THEN 2 ELSE 1, status |-> status]

\* Type of each message (model/messages.go).
Type(message) ==
  CASE message.level # "run" -> "progress"
    [] message.status = "skipped" -> "success"
    [] message.status = "terminated" -> "failure"
    [] OTHER -> message.status

Statuses == {"success", "skipped", "failure", "terminated"}
HasNotifier(type) == \E notifier \in Notifiers : type \in Types[notifier]

Init ==
  /\ main = "new" /\ releases \in 0 .. MaxReleases /\ release = 1
  /\ at = [step \in Steps |-> "todo"]
  /\ cancelled = "no" /\ finalize = "none"
  /\ post = [poster \in Posters |-> NoPost] /\ down = {} /\ faults = 0
  /\ heard = [notifier \in Notifiers |-> {}] /\ told = {} /\ lost = {}
------------------------------------------------------------------------------
(***************************************************************************)
(* Sending                                                                 *)
(***************************************************************************)
\* A message dies with the context of the run, except the one for which
\* notifyTerminationIfCanceled makes another.
Dead(message) == cancelled # "no" /\ message.status # "terminated"

\* Notify, fanout: one goroutine for each notifier that listens, all of which
\* are waited for. Slack and Teams take no context.
Notify(poster, message) ==
  LET listening == {n \in Notifiers : Type(message) \in Types[n]}
      begins == IF Dead(message) THEN listening \cap Chat ELSE listening
  IN /\ post' = [post EXCEPT ![poster] =
                   [message |-> message, tries |-> [n \in begins |-> 0]]]
     /\ told' = told \cup {message}
     /\ UNCHANGED <<down, faults, heard, lost>>

Silent == UNCHANGED <<sending, history>>

\* A receiver tells a repeated message by its id (toCampaignNotification).
Hears(notifier, message) ==
  heard' = [heard EXCEPT ![notifier] = @ \cup {message}]

\* The dispatch to one notifier has returned.
Returns(poster, notifier) ==
  post' = [post EXCEPT ![poster].tries = Restrict(@, DOMAIN @ \ {notifier})]
IsOutcome(message) == message.level = "run" /\ message.status \in Statuses
GivesUp(poster, notifier) ==
  /\ Returns(poster, notifier)
  /\ lost' = IF IsOutcome(post[poster].message) THEN lost \cup {notifier} ELSE lost

Requested(poster, notifier) == notifier \in DOMAIN post[poster].tries
Lives == main # "gone"

Accepted(poster, notifier) ==
  /\ Lives /\ Requested(poster, notifier) /\ notifier \notin down
  /\ Hears(notifier, post[poster].message) /\ Returns(poster, notifier)
  /\ UNCHANGED <<main, loop, cancelled, finalize, down, faults, told, lost>>

\* MaxFaults bounds the messages, not the attempts at one.
GoesWrong(poster, notifier) ==
  IF post[poster].tries[notifier] > 0 THEN UNCHANGED faults
  ELSE faults < MaxFaults /\ faults' = faults + 1

\* doWithRetry: the request failed, or the answer was one after which another
\* attempt is made; the receiver may have it all the same.
Again(poster, notifier) ==
  IF post[poster].tries[notifier] + 1 < Attempts
  THEN post' = [post EXCEPT ![poster].tries[notifier] = @ + 1] /\ UNCHANGED lost
  ELSE GivesUp(poster, notifier)
Retry(poster, notifier) ==
  /\ Lives /\ Requested(poster, notifier) /\ notifier \in Api \ down
  /\ GoesWrong(poster, notifier)
  /\ Hears(notifier, post[poster].message) \/ UNCHANGED heard
  /\ Again(poster, notifier)
  /\ UNCHANGED <<main, loop, cancelled, finalize, down, told>>

\* An answer that is not retried (isRetryable), and any error of a chat.
Refused(poster, notifier) ==
  /\ Lives /\ Requested(poster, notifier) /\ notifier \notin down
  /\ GoesWrong(poster, notifier) /\ GivesUp(poster, notifier)
  /\ UNCHANGED <<main, loop, cancelled, finalize, down, heard, told>>

GoesDown(notifier) ==
  /\ notifier \in Api \ down /\ down' = down \cup {notifier}
  /\ UNCHANGED <<main, loop, cancelled, finalize, post, faults, history>>

\* Mutant: without a deadline.
WaitsForAnswer(poster, notifier) == FALSE /\ UNCHANGED vars

\* The deadline of Do: all attempts at a message share it.
TimesOut(poster, notifier) ==
  /\ Lives /\ Requested(poster, notifier) /\ notifier \in down
  /\ GivesUp(poster, notifier)
  /\ UNCHANGED <<main, loop, cancelled, finalize, down, faults, heard, told>>

\* The context is cancelled while a request is under way: it may be heard.
Cut(poster, notifier) ==
  /\ Lives /\ Requested(poster, notifier) /\ notifier \in Api
  /\ Dead(post[poster].message)
  /\ (notifier \notin down /\ Hears(notifier, post[poster].message)) \/ UNCHANGED heard
  /\ Returns(poster, notifier)
  /\ UNCHANGED <<main, loop, cancelled, finalize, down, faults, told, lost>>
------------------------------------------------------------------------------
(***************************************************************************)
(* Run                                                                     *)
(***************************************************************************)
Started ==
  /\ main = "new" /\ main' = "setup"
  /\ Notify(Main, OfRun("started"))
  /\ UNCHANGED <<loop, cancelled, finalize>>

\* SetupResources, updateAgentJob, which also ends a run whose image was
\* changed, setupEncryption and NewUpdater.
SetUp ==
  /\ main = "setup" /\ Idle(Main) /\ main' \in {"process", "failed"}
  /\ Silent /\ UNCHANGED <<loop, cancelled, finalize>>

Process ==
  /\ main = "process" /\ main' = "loop"
  /\ Notify(Main, OfRun("sources"))
  /\ UNCHANGED <<loop, cancelled, finalize>>

StartPipeline ==
  /\ main = "loop" /\ Idle(Main) /\ release <= releases
  /\ main' = "steps" /\ at' = [step \in Steps |-> "todo"]
  /\ Notify(Main, OfPipeline("starting"))
  /\ UNCHANGED <<releases, release, cancelled, finalize>>

PipelineSucceeded ==
  /\ main = "pipelineSucceeded" /\ Idle(Main)
  /\ main' = "loop" /\ release' = release + 1
  /\ Notify(Main, OfPipeline("success"))
  /\ UNCHANGED <<releases, at, cancelled, finalize>>

PipelineFailed ==
  /\ main = "pipelineFailed" /\ Idle(Main) /\ main' = "failed"
  /\ Notify(Main, OfPipeline("failure"))
  /\ UNCHANGED <<loop, cancelled, finalize>>

\* The end of Run. Without releases the campaign was skipped.
Finish ==
  /\ main = "loop" /\ Idle(Main) /\ release > releases
  /\ main' = "deferred" /\ finalize' = (IF releases = 0 THEN "skipped" ELSE "success")
  /\ Notify(Main, OfRun(finalize'))
  /\ UNCHANGED <<loop, cancelled>>

\* Mutant: notifyError does not look at the context.
NotifyAnyError ==
  /\ main = "failed" /\ Idle(Main) /\ main' = "deferred"
  /\ finalize' = "failure" /\ Notify(Main, OfRun("failure"))
  /\ UNCHANGED <<loop, cancelled>>

NotifyError ==
  /\ main = "failed" /\ Idle(Main) /\ main' = "deferred"
  /\ IF cancelled = "no"
     THEN finalize' = "failure" /\ Notify(Main, OfRun("failure"))
     ELSE UNCHANGED finalize /\ Silent
  /\ UNCHANGED <<loop, cancelled>>

NotifyTerminationIfCanceled ==
  /\ main = "deferred" /\ Idle(Main) /\ main' = "returned"
  /\ IF cancelled # "no" /\ HasNotifier("failure") /\ finalize = "none"
     THEN finalize' = "terminated" /\ Notify(Main, OfRun("terminated"))
     ELSE UNCHANGED finalize /\ Silent
  /\ UNCHANGED <<loop, cancelled>>

Ended == main = "gone" \/ (main = "returned" /\ Idle(Main))

\* signal.NotifyContext.
Cancel ==
  /\ cancelled = "no" /\ ~Ended
  /\ cancelled' = (IF finalize = "none" THEN "early" ELSE "late")
  /\ UNCHANGED <<main, loop, finalize, sending, history>>

\* shutdownGrace is over: the process exits with whatever is under way.
GraceOver ==
  /\ cancelled # "no" /\ ~Ended /\ main' = "gone"
  /\ post' = [poster \in Posters |-> NoPost]
  /\ UNCHANGED <<loop, cancelled, finalize, down, faults, history>>
------------------------------------------------------------------------------
(***************************************************************************)
(* The steps of a release                                                  *)
(***************************************************************************)
Pending == {step \in Steps : at[step] \in {"todo", "prepared", "executing", "saving"}}
\* The steps whose goroutine wg counts.
Running == {step \in Steps : at[step] \in {"running", "recording"} \/ ~Idle(step)}
Turn(step) ==
  /\ main \in {"steps", "retries"} /\ Idle(Main)
  /\ step \in Pending /\ \A other \in Pending : step <= other
Becomes(step, where) == at' = [at EXCEPT ![step] = where]
Break == main' = IF main = "steps" THEN "barrier" ELSE "pipelineFailed"

\* processStep, up to the message that it starts.
BeginStep(step) ==
  /\ Turn(step) /\ at[step] = "todo"
  /\ \/ Becomes(step, "prepared") /\ Notify(Main, OfStep(step, "starting")) /\ UNCHANGED main
     \/ Becomes(step, "failed") /\ Notify(Main, OfStep(step, "failure")) /\ Break
  /\ UNCHANGED <<releases, release, cancelled, finalize>>

FirstRun == release = 1

\* The rest of processStep, and applyRelease.
ApplyRelease(step) ==
  /\ Turn(step) /\ at[step] = "prepared"
  /\ \/ Becomes(step, "failed") /\ Notify(Main, OfStep(step, "failure")) /\ Break
     \* A value is missing that a running step may bring: the step is retried.
     \/ /\ main = "steps" /\ Running # {} /\ Becomes(step, "retry")
        /\ Notify(Main, OfStep(step, "failure")) /\ UNCHANGED main
     \* Nothing to do: all applied, or nothing changed, which is recorded.
     \/ /\ ~FirstRun /\ at' \in {[at EXCEPT ![step] = w] : w \in {"done", "saving"}}
        /\ Notify(Main, OfStep(step, "skipped")) /\ UNCHANGED main
     \/ Becomes(step, "executing") /\ Silent /\ UNCHANGED main
     \/ FirstRun /\ main = "steps" /\ Becomes(step, "running") /\ Silent /\ UNCHANGED main
  /\ UNCHANGED <<releases, release, cancelled, finalize>>

\* stateLock is held while the message of an applied step is sent.
LockFree == \A step \in Steps : at[step] \notin {"saving", "recording"}

\* executePipeline, in the loop or in a goroutine of its own.
ExecutePipeline(step) ==
  /\ \/ Turn(step) /\ at[step] = "executing"
     \/ Lives /\ at[step] = "running"
  /\ LET poster == IF at[step] = "running" THEN step ELSE Main
     IN \/ /\ Becomes(step, "failed") /\ Notify(poster, OfStep(step, "failure"))
           /\ IF poster = Main THEN Break ELSE UNCHANGED main
        \/ /\ LockFree /\ UNCHANGED main
           /\ Becomes(step, IF poster = Main THEN "saving" ELSE "recording")
           /\ Notify(poster, OfStep(step, "success"))
  /\ UNCHANGED <<releases, release, cancelled, finalize>>

\* The end of putAppliedStateFile: the state file.
PutAppliedStateFile(step) ==
  /\ \/ Turn(step) /\ at[step] = "saving"
     \/ Lives /\ at[step] = "recording" /\ Idle(step)
  /\ \/ Becomes(step, "done") /\ UNCHANGED main
     \/ Becomes(step, "failed") /\ IF at[step] = "saving" THEN Break ELSE UNCHANGED main
  /\ Silent /\ UNCHANGED <<releases, release, cancelled, finalize>>

StepsDone ==
  /\ main \in {"steps", "retries"} /\ Idle(Main) /\ Pending = {}
  /\ main' \in (IF main = "steps" THEN {"barrier"} ELSE {"pipelineSucceeded", "pipelineFailed"})
  /\ Silent /\ UNCHANGED <<loop, cancelled, finalize>>

Failed == \E step \in Steps : at[step] = "failed"
Retried == {step \in Steps : at[step] = "retry"}

\* Mutant: the goroutines are not waited for.
BarrierAtOnce ==
  /\ main = "barrier" /\ Idle(Main)
  /\ \/ main' = "pipelineFailed" /\ UNCHANGED at
     \/ /\ cancelled = "no" /\ ~Failed
        /\ at' = [step \in Steps |-> IF step \in Retried THEN "todo" ELSE at[step]]
        /\ main' = (IF Retried = {} THEN "pipelineSucceeded" ELSE "retries")
  /\ Silent /\ UNCHANGED <<releases, release, cancelled, finalize>>

\* Mutant: the errors of the goroutines are left in their channel.
BarrierForgets ==
  /\ main = "barrier" /\ Idle(Main) /\ Running = {}
  /\ \/ main' = "pipelineFailed" /\ UNCHANGED at
     \/ /\ cancelled = "no" /\ Pending = {}
        /\ at' = [step \in Steps |-> IF step \in Retried THEN "todo" ELSE at[step]]
        /\ main' = (IF Retried = {} THEN "pipelineSucceeded" ELSE "retries")
  /\ Silent /\ UNCHANGED <<releases, release, cancelled, finalize>>

\* processRelease after its loop: wg.Wait, the context, the state file, which
\* may not be written, the steps that failed and those to be retried.
Barrier ==
  /\ main = "barrier" /\ Idle(Main) /\ Running = {}
  /\ \/ main' = "pipelineFailed" /\ UNCHANGED at
     \/ /\ cancelled = "no" /\ ~Failed
        /\ at' = [step \in Steps |-> IF step \in Retried THEN "todo" ELSE at[step]]
        /\ main' = (IF Retried = {} THEN "pipelineSucceeded" ELSE "retries")
  /\ Silent /\ UNCHANGED <<releases, release, cancelled, finalize>>
------------------------------------------------------------------------------
Sends(poster, notifier) ==
  \/ Accepted(poster, notifier) \/ Retry(poster, notifier) \/ Refused(poster, notifier)
  \/ TimesOut(poster, notifier) \/ Cut(poster, notifier)
Works(step) ==
  BeginStep(step) \/ ApplyRelease(step) \/ ExecutePipeline(step) \/ PutAppliedStateFile(step)
Runs ==
  \/ Started \/ SetUp \/ Process \/ StartPipeline \/ StepsDone \/ Barrier
  \/ PipelineSucceeded \/ PipelineFailed
  \/ Finish \/ NotifyError \/ NotifyTerminationIfCanceled

Next ==
  \/ Runs \/ \E step \in Steps : Works(step)
  \/ \E poster \in Posters, notifier \in Notifiers : Sends(poster, notifier)
  \/ \E notifier \in Notifiers : GoesDown(notifier)
  \/ Cancel \/ GraceOver
Spec == Init /\ [][Next]_vars

\* The process runs and pipelines end; whoever is up answers. An API that is
\* down does not: there it is the client's deadline that comes.
FairSpec ==
  /\ Spec /\ WF_vars(Runs)
  /\ \A step \in Steps : WF_vars(Works(step))
  /\ \A poster \in Posters :
       /\ \A notifier \in Chat : WF_vars(Accepted(poster, notifier))
       /\ \A notifier \in Api : WF_vars(Accepted(poster, notifier) \/ TimesOut(poster, notifier))
------------------------------------------------------------------------------
(***************************************************************************)
(* Properties                                                              *)
(***************************************************************************)
\* May b be heard after a?
InOrder(a, b) ==
  /\ ~IsOutcome(a)
  /\ b.status # "started"
  /\ a.level # "run" /\ b.level # "run" =>
       /\ a.release <= b.release
       /\ a.release = b.release =>
            /\ ~(a.level = "pipeline" /\ a.status # "starting")
            /\ ~(b.level = "pipeline" /\ b.status = "starting")
            /\ a.level = "step" /\ b.level = "step" /\ a.step = b.step =>
                 \/ a.attempt < b.attempt
                 \/ a.attempt = b.attempt /\ a.status = "starting"

\* "Lifecycle events at three nested levels" (README, Notifications): whoever
\* listens hears the messages of a pipeline between its start and its end, one
\* pipeline after the other, those of a step in their order, and nothing after
\* the outcome; messages may be lost, repeated or cut.
LevelsNest ==
  [][\A notifier \in Notifiers :
       \A a \in heard[notifier], b \in heard'[notifier] \ heard[notifier] : InOrder(a, b)]_vars

\* "A step failure surfaces as a pipeline failure, which surfaces as an agent
\* failure" (README, Failure cascade), for a step that failed for good: one
\* whose values were missing is tried again after its message of a failure.
FailuresSurface ==
  /\ \A end \in told : end.level = "pipeline" /\ end.status = "success" =>
       \A failure \in told :
         failure.level = "step" /\ failure.release = end.release /\ failure.status = "failure" =>
           failure.attempt = 1 /\ [failure EXCEPT !.attempt = 2, !.status = "starting"] \in told
  /\ main \in {"deferred", "returned"} /\ finalize \in {"success", "skipped"} =>
       \A message \in told : message.level = "pipeline" => message.status # "failure"

\* The outcome of a run that returns is heard by all who listen, if their
\* receiver takes it: a failure, or that it was terminated. A run that is
\* cancelled once it tells its outcome, or once its last steps are done, may
\* end without: its context is over and finalize is used.
OutcomeIsHeard ==
  main = "returned" /\ Idle(Main) =>
    /\ finalize = "none" => cancelled # "no" /\ ~HasNotifier("failure")
    /\ cancelled = "no" \/ (cancelled = "early" /\ finalize \in {"failure", "terminated"}) =>
         \A notifier \in Notifiers \ lost :
           finalize # "none" /\ Type(OfRun(finalize)) \in Types[notifier] =>
             OfRun(finalize) \in heard[notifier]

\* A run ends, whatever the APIs it tells of it do (README, Delivery).
RunEnds == <>Ended
==============================================================================
