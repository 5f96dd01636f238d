-------------------------- MODULE RunMessages_proofs --------------------------
(***************************************************************************)
(* Theorems about RunMessages, for any number of steps, releases and       *)
(* notifiers, whatever each of them listens to and however many requests   *)
(* go wrong.                                                               *)
(***************************************************************************)
EXTENDS RunMessages, TLAPS

(***************************************************************************)
(* Types                                                                   *)
(***************************************************************************)
Calls == {"new", "setup", "process", "loop", "steps", "retries", "barrier", "pipelineSucceeded",
          "pipelineFailed", "failed", "deferred", "returned", "gone"}
Places == {"todo", "prepared", "executing", "saving", "running", "recording", "done", "failed",
           "retry"}
Messages ==
  {m \in [level : {"run", "pipeline", "step"}, release : Nat, step : Steps \cup {0},
          attempt : 0..2,
          status : {"started", "sources", "starting", "success", "skipped", "failure", "terminated"}] :
     /\ m.status = "started" => m.level = "run"
     /\ m.level = "step" => m.step \in Steps}
Tries == UNION {[S -> Nat] : S \in SUBSET Notifiers}
TypeOK ==
  /\ main \in Calls /\ releases \in Nat /\ release \in Nat \ {0} /\ at \in [Steps -> Places]
  /\ cancelled \in {"no", "early", "late"}
  /\ finalize \in {"none", "success", "skipped", "failure", "terminated"}
  /\ post \in [Posters -> [message : Messages \cup {<<>>}, tries : Tries]]
  /\ told \subseteq Messages /\ heard \in [Notifiers -> SUBSET told]
  /\ down \subseteq Api /\ faults \in 0..MaxFaults /\ lost \subseteq Notifiers

Message(poster) == post[poster].message
To(poster) == DOMAIN post[poster].tries

(***************************************************************************)
(* Who sends what                                                          *)
(***************************************************************************)
PostInv ==
  /\ \A poster \in Posters : ~Idle(poster) => Message(poster) \in told
  /\ \A step \in Steps : ~Idle(step) =>
       /\ at[step] \in {"recording", "failed"}
       /\ Message(step).level = "step" /\ Message(step).step = step /\ Message(step).release = release
  /\ main \notin {"steps", "barrier", "gone"} => Running = {}
  /\ ~Idle(Main) /\ Running # {} =>
       /\ Message(Main).level = "step" /\ Message(Main).release = release
       /\ Message(Main).step \notin Running
  /\ main \in {"new", "process"} => Idle(Main)
  /\ main = "gone" => \A poster \in Posters : Idle(poster)

(***************************************************************************)
(* What was told, and where the run is                                     *)
(***************************************************************************)
Attempt == IF main = "retries" THEN 2 ELSE 1
InRelease == {"steps", "retries", "barrier", "pipelineSucceeded", "pipelineFailed"}
ToldInv ==
  /\ main = "new" => told = {}
  /\ main \notin {"deferred", "returned", "gone"} => finalize = "none"
  /\ \A a \in told : IsOutcome(a) => finalize # "none"
  /\ \A a \in told : a.level # "run" =>
       /\ a.release <= release
       /\ main \in {"new", "setup", "process", "loop"} => a.release < release
  /\ main \in InRelease =>
       \A a \in told : a.level = "pipeline" /\ a.release = release => a.status = "starting"
  /\ main \in {"steps", "retries", "barrier"} =>
       \A a \in told : a.level = "step" /\ a.release = release =>
         /\ a.attempt <= Attempt
         /\ at[a.step] = "todo" => a.attempt < Attempt
         /\ at[a.step] \in {"prepared", "executing", "running"} =>
              a.attempt < Attempt \/ a.status = "starting"

NestInv ==
  \A poster \in Posters : \A notifier \in To(poster) : \A a \in heard[notifier] :
    a = Message(poster) \/ InOrder(a, Message(poster))

(***************************************************************************)
(* Failures                                                                *)
(***************************************************************************)
Failures(r) == {a \in told : a.level = "step" /\ a.release = r /\ a.status = "failure"}
\* The step of a failure was tried again.
TriedAgain(failure) ==
  failure.attempt = 1 /\ [failure EXCEPT !.attempt = 2, !.status = "starting"] \in told
FailInv ==
  /\ \A end \in told : end.level = "pipeline" /\ end.status = "success" =>
       end.release < release /\ \A failure \in Failures(end.release) : TriedAgain(failure)
  /\ main \in {"steps", "barrier"} =>
       \A failure \in Failures(release) :
         failure.attempt = 1 /\ at[failure.step] \in {"failed", "retry"}
  /\ main = "retries" =>
       \A failure \in Failures(release) :
         TriedAgain(failure) \/ (failure.attempt = 1 /\ at[failure.step] = "todo")
  /\ main = "pipelineSucceeded" => \A failure \in Failures(release) : TriedAgain(failure)
  /\ \A a \in told : a.level = "pipeline" /\ a.status = "failure" =>
       main \in {"failed", "deferred", "returned", "gone"} /\ finalize \notin {"success", "skipped"}

(***************************************************************************)
(* The outcome                                                             *)
(***************************************************************************)
\* The outcome has been told with a context that was not over.
Told ==
  finalize # "none" /\ (cancelled = "no" \/ (cancelled = "early" /\ finalize = "terminated"))
OutcomeInv ==
  /\ main = "deferred" /\ finalize = "none" => cancelled # "no"
  /\ main = "returned" /\ finalize = "none" => cancelled # "no" /\ ~HasNotifier("failure")
  /\ cancelled = "early" => finalize # "failure"
  /\ main \in {"deferred", "returned"} /\ Told =>
       \A notifier \in Notifiers \ lost : Type(OfRun(finalize)) \in Types[notifier] =>
         \/ OfRun(finalize) \in heard[notifier]
         \/ notifier \in To(Main) /\ Message(Main) = OfRun(finalize)

IInv == TypeOK /\ PostInv /\ ToldInv /\ NestInv /\ FailInv /\ OutcomeInv

(***************************************************************************)
(* What it means to send                                                   *)
(***************************************************************************)
LEMMA NotifyDoes ==
  ASSUME TypeOK, NEW p \in Posters, NEW m \in Messages, Notify(p, m)
  PROVE  /\ post' \in [Posters -> [message : Messages \cup {<<>>}, tries : Tries]]
         /\ Message(p)' = m /\ told' = told \cup {m} /\ UNCHANGED <<down, faults, heard, lost>>
         /\ \A q \in Posters \ {p} : Message(q)' = Message(q) /\ To(q)' = To(q)
         /\ \A n \in Notifiers : ~Dead(m) /\ Type(m) \in Types[n] => n \in To(p)'
<1> DEFINE listening == {n \in Notifiers : Type(m) \in Types[n]}
           begins == IF Dead(m) THEN listening \cap Chat ELSE listening
           sent == [message |-> m, tries |-> [n \in begins |-> 0]]
<1>1. post' = [post EXCEPT ![p] = sent] /\ told' = told \cup {m} /\ UNCHANGED <<down, faults, heard, lost>>
  BY DEF Notify
<1>2. begins \subseteq Notifiers
  OBVIOUS
<1>3. DOMAIN sent.tries = begins /\ sent.message = m
  OBVIOUS
<1>4. sent.tries \in Tries
  <2> HIDE DEF begins
  <2>1. sent.tries = [n \in begins |-> 0]
    OBVIOUS
  <2> HIDE DEF sent
  <2>2. sent.tries \in [begins -> Nat]
    BY <2>1
  <2> QED BY <1>2, <2>2 DEF Tries
<1>5. sent \in [message : Messages \cup {<<>>}, tries : Tries]
  BY <1>4
<1> HIDE DEF sent, begins
<1>6. \A q \in Posters : post'[q] = IF q = p THEN sent ELSE post[q]
  BY <1>1 DEF TypeOK
<1>7. post' \in [Posters -> [message : Messages \cup {<<>>}, tries : Tries]]
  BY <1>1, <1>5 DEF TypeOK
<1> QED BY <1>1, <1>3, <1>6, <1>7 DEF Message, To, begins

LEMMA SendsDo ==
  ASSUME TypeOK, NEW p \in Posters, NEW n \in Notifiers, Sends(p, n)
  PROVE  /\ n \in To(p) /\ main # "gone" /\ UNCHANGED <<main, loop, cancelled, finalize, told>>
         /\ post' \in [Posters -> [message : Messages \cup {<<>>}, tries : Tries]]
         /\ faults' \in 0..MaxFaults /\ down' = down
         /\ \A q \in Posters : Message(q)' = Message(q) /\ (q # p => To(q)' = To(q))
         /\ To(p)' = To(p) \/ To(p)' = To(p) \ {n}
         /\ heard' = heard \/ heard' = [heard EXCEPT ![n] = @ \cup {Message(p)}]
         /\ lost' = lost \/ (lost' = lost \cup {n} /\ IsOutcome(Message(p)))
         /\ \/ n \in To(p)' \/ n \in lost' \/ ~IsOutcome(Message(p)) \/ Dead(Message(p))
            \/ heard' = [heard EXCEPT ![n] = @ \cup {Message(p)}]
<1> DEFINE Typed == post' \in [Posters -> [message : Messages \cup {<<>>}, tries : Tries]]
           Same == \A q \in Posters : Message(q)' = Message(q) /\ (q # p => To(q)' = To(q))
<1>t. /\ post \in [Posters -> [message : Messages \cup {<<>>}, tries : Tries]]
      /\ To(p) \subseteq Notifiers /\ post[p].tries \in [To(p) -> Nat]
  <2>1. post[p].tries \in Tries
    BY DEF TypeOK
  <2> QED BY <2>1 DEF Tries, To, TypeOK
<1>1. ASSUME Returns(p, n), n \in To(p)
      PROVE  Typed /\ Same /\ To(p)' = To(p) \ {n}
  <2> DEFINE left == Restrict(post[p].tries, DOMAIN post[p].tries \ {n})
  <2>1. left \in [To(p) \ {n} -> Nat]
    BY <1>t DEF Restrict, To
  <2>2. left \in Tries
    BY <2>1, <1>t DEF Tries
  <2>3. post' = [post EXCEPT ![p].tries = left]
    BY <1>1 DEF Returns
  <2> HIDE DEF left
  <2>4. \A q \in Posters : post'[q] = IF q = p THEN [post[p] EXCEPT !.tries = left] ELSE post[q]
    BY <2>3, <1>t
  <2>5. [post[p] EXCEPT !.tries = left] \in [message : Messages \cup {<<>>}, tries : Tries]
    BY <2>2, <1>t
  <2>6. Typed
    BY <2>3, <2>5, <1>t
  <2>7. [post[p] EXCEPT !.tries = left].tries = left /\ [post[p] EXCEPT !.tries = left].message = post[p].message
    BY <1>t
  <2> QED BY <2>1, <2>4, <2>6, <2>7 DEF Message, To
<1>2. ASSUME post' = [post EXCEPT ![p].tries[n] = @ + 1], n \in To(p)
      PROVE  Typed /\ Same /\ To(p)' = To(p)
  <2> DEFINE more == [post[p].tries EXCEPT ![n] = @ + 1]
  <2>1. more \in [To(p) -> Nat]
    BY <1>t, <1>2
  <2>2. more \in Tries
    BY <2>1, <1>t DEF Tries
  <2>3. post' = [post EXCEPT ![p].tries = more]
    BY <1>2
  <2> HIDE DEF more
  <2>4. \A q \in Posters : post'[q] = IF q = p THEN [post[p] EXCEPT !.tries = more] ELSE post[q]
    BY <2>3, <1>t
  <2>5. [post[p] EXCEPT !.tries = more] \in [message : Messages \cup {<<>>}, tries : Tries]
    BY <2>2, <1>t
  <2>6. Typed
    BY <2>3, <2>5, <1>t
  <2>7. [post[p] EXCEPT !.tries = more].tries = more /\ [post[p] EXCEPT !.tries = more].message = post[p].message
    BY <1>t
  <2> QED BY <2>1, <2>4, <2>6, <2>7 DEF Message, To
<1>3. ASSUME GoesWrong(p, n) PROVE faults' \in 0..MaxFaults
  BY <1>3, ConstantsAssumption DEF GoesWrong, TypeOK
<1>4. n \in To(p) /\ main # "gone" /\ UNCHANGED <<main, loop, cancelled, finalize, told, down>>
  BY DEF Sends, Accepted, Retry, Refused, TimesOut, Cut, Requested, Lives, To
<1>5. CASE Accepted(p, n)
  BY <1>5, <1>1, <1>4 DEF Accepted, Hears, Message, TypeOK
<1>6. CASE Retry(p, n)
  <2>1. CASE Again(p, n) /\ ~GivesUp(p, n)
    BY <1>6, <2>1, <1>2, <1>3, <1>4 DEF Retry, Again, Hears, Message
  <2>2. CASE GivesUp(p, n)
    BY <1>6, <2>2, <1>1, <1>3, <1>4 DEF Retry, GivesUp, Hears, Message
  <2> QED BY <1>6, <2>1, <2>2 DEF Retry
<1>7. CASE Refused(p, n)
  BY <1>7, <1>1, <1>3, <1>4 DEF Refused, GivesUp, Message
<1>8. CASE TimesOut(p, n)
  BY <1>8, <1>1, <1>4 DEF TimesOut, GivesUp, Message, TypeOK
<1>9. CASE Cut(p, n)
  BY <1>9, <1>1, <1>4 DEF Cut, Hears, Message, TypeOK
<1> QED BY <1>5, <1>6, <1>7, <1>8, <1>9 DEF Sends

(***************************************************************************)
(* What the steps of a release do                                          *)
(***************************************************************************)
Quietly(step, place) ==
  /\ Silent /\ Becomes(step, place)
  /\ \/ /\ at[step] = "prepared" /\ Turn(step) /\ UNCHANGED main
        /\ place = "executing" \/ (place = "running" /\ main = "steps")
     \/ /\ at[step] = "saving" /\ Turn(step)
        /\ (place = "done" /\ UNCHANGED main) \/ (place = "failed" /\ Break)
     \/ at[step] = "recording" /\ Lives /\ Idle(step) /\ place \in {"done", "failed"} /\ UNCHANGED main
MainTells(step, place, status) ==
  /\ Turn(step) /\ Becomes(step, place) /\ Notify(Main, OfStep(step, status))
  /\ \/ at[step] = "todo" /\ place = "prepared" /\ status = "starting" /\ UNCHANGED main
     \/ at[step] \in {"todo", "prepared", "executing"} /\ place = "failed" /\ status = "failure" /\ Break
     \/ at[step] = "prepared" /\ place = "retry" /\ status = "failure" /\ main = "steps" /\ UNCHANGED main
     \/ /\ at[step] \in {"prepared", "executing"} /\ place \in {"done", "saving"}
        /\ status \in {"skipped", "success"} /\ UNCHANGED main
GoroutineTells(step, place, status) ==
  /\ Lives /\ at[step] = "running" /\ Becomes(step, place) /\ Notify(step, OfStep(step, status))
  /\ (place = "failed" /\ status = "failure") \/ (place = "recording" /\ status = "success")
  /\ UNCHANGED main

StepStatuses == {"starting", "success", "skipped", "failure"}

LEMMA WorksDo ==
  ASSUME NEW step \in Steps, Works(step)
  PROVE  /\ UNCHANGED <<releases, release, cancelled, finalize>>
         /\ \E place \in Places :
              \/ Quietly(step, place)
              \/ \E status \in StepStatuses :
                   MainTells(step, place, status) \/ GoroutineTells(step, place, status)
<1> USE DEF Places, StepStatuses
<1>1. CASE BeginStep(step)
  BY <1>1 DEF BeginStep, MainTells
<1>2. CASE ApplyRelease(step)
  <2>1. CASE at' \in {[at EXCEPT ![step] = w] : w \in {"done", "saving"}} /\ Notify(Main, OfStep(step, "skipped"))
             /\ UNCHANGED main
    BY <1>2, <2>1 DEF ApplyRelease, MainTells, Becomes
  <2>2. CASE ~(at' \in {[at EXCEPT ![step] = w] : w \in {"done", "saving"}} /\ Notify(Main, OfStep(step, "skipped"))
               /\ UNCHANGED main)
    BY <1>2, <2>2 DEF ApplyRelease, MainTells, Quietly
  <2> QED BY <2>1, <2>2
<1>3. CASE ExecutePipeline(step)
  <2>1. CASE at[step] = "running"
    BY <1>3, <2>1 DEF ExecutePipeline, GoroutineTells, Main, Steps, Turn, Pending
  <2>2. CASE at[step] # "running"
    BY <1>3, <2>2 DEF ExecutePipeline, MainTells
  <2> QED BY <2>1, <2>2
<1>4. CASE PutAppliedStateFile(step)
  BY <1>4 DEF PutAppliedStateFile, Quietly
<1> QED BY <1>1, <1>2, <1>3, <1>4 DEF Works

LEMMA MessageTypes ==
  ASSUME TypeOK
  PROVE  /\ \A status \in {"started", "sources", "success", "skipped", "failure", "terminated"} :
              OfRun(status) \in Messages
         /\ \A status \in {"starting", "success", "failure"} : OfPipeline(status) \in Messages
         /\ \A step \in Steps, status \in StepStatuses : OfStep(step, status) \in Messages
BY DEF TypeOK, Messages, OfRun, OfPipeline, OfStep, StepStatuses

LEMMA PosterTypes == Main \in Posters /\ (\A step \in Steps : step \in Posters /\ step # Main)
BY DEF Main, Posters, Steps

LEMMA NoPostTyped ==
  NoPost \in [message : Messages \cup {<<>>}, tries : Tries] /\ DOMAIN NoPost.tries = {}
<1>1. DOMAIN NoPost.tries = {} /\ NoPost.tries \in [{} -> Nat] /\ NoPost.message = <<>>
  BY DEF NoPost
<1>2. NoPost.tries \in Tries
  BY <1>1 DEF Tries
<1> QED BY <1>1, <1>2 DEF NoPost

LEMMA InitIInv == Init => IInv
<1> SUFFICES ASSUME Init PROVE IInv
  OBVIOUS
<1>1. /\ \A poster \in Posters : Idle(poster) /\ To(poster) = {}
      /\ NoPost \in [message : Messages \cup {<<>>}, tries : Tries]
  BY NoPostTyped DEF Init, Idle, To
<1>2. TypeOK
  BY <1>1, ConstantsAssumption DEF Init, TypeOK, Calls, Places
<1>3. Running = {}
  BY <1>1, PosterTypes DEF Running, Init
<1>4. PostInv
  BY <1>1, <1>3, PosterTypes DEF Init, PostInv
<1>6. ToldInv /\ NestInv
  BY <1>1 DEF Init, ToldInv, NestInv, InRelease
<1>5. FailInv /\ OutcomeInv
  BY DEF Init, FailInv, OutcomeInv, Failures, Told
<1> QED BY <1>2, <1>4, <1>5, <1>6 DEF IInv

(***************************************************************************)
(* Types, and who sends what                                               *)
(***************************************************************************)
LEMMA TypesKept == ASSUME TypeOK, PostInv, Next PROVE TypeOK'
<1> USE DEF TypeOK, loop, sending, history
<1>1. ASSUME NEW p \in Posters, NEW m \in Messages, Notify(p, m),
             main' \in Calls, releases' \in Nat, release' \in Nat \ {0}, at' \in [Steps -> Places],
             cancelled' = cancelled,
             finalize' \in {"none", "success", "skipped", "failure", "terminated"}
      PROVE  TypeOK'
  BY <1>1, NotifyDoes
<1>2. ASSUME Silent, main' \in Calls, releases' \in Nat, release' \in Nat \ {0}, at' \in [Steps -> Places],
             cancelled' = cancelled,
             finalize' \in {"none", "success", "skipped", "failure", "terminated"}
      PROVE  TypeOK'
  BY <1>2 DEF Silent
<1>3. CASE Started \/ Process \/ PipelineFailed
  BY <1>3, <1>1, MessageTypes, PosterTypes DEF Started, Process, PipelineFailed, Calls
<1>4. CASE SetUp \/ StepsDone
  BY <1>4, <1>2 DEF SetUp, StepsDone, Calls
<1>5. CASE StartPipeline
  BY <1>5, <1>1, MessageTypes, PosterTypes DEF StartPipeline, Calls, Places
<1>6. CASE Barrier
  BY <1>6, <1>2 DEF Barrier, Calls, Places
<1>7. CASE PipelineSucceeded
  BY <1>7, <1>1, MessageTypes, PosterTypes DEF PipelineSucceeded, Calls
<1>8. CASE Finish
  BY <1>8, <1>1, MessageTypes, PosterTypes DEF Finish, Calls
<1>9. CASE NotifyError
  BY <1>9, <1>1, <1>2, MessageTypes, PosterTypes DEF NotifyError, Calls
<1>10. CASE NotifyTerminationIfCanceled
  BY <1>10, <1>1, <1>2, MessageTypes, PosterTypes DEF NotifyTerminationIfCanceled, Calls
<1>11. ASSUME NEW step \in Steps, Works(step) PROVE TypeOK'
  <2>1. PICK place \in Places :
          \/ Quietly(step, place)
          \/ \E status \in StepStatuses :
               MainTells(step, place, status) \/ GoroutineTells(step, place, status)
    BY <1>11, WorksDo
  <2>2. UNCHANGED <<releases, release, cancelled, finalize>>
    BY <1>11, WorksDo
  <2>3. CASE Quietly(step, place)
    BY <1>2, <2>2, <2>3 DEF Quietly, Becomes, Break, Calls
  <2>4. ASSUME NEW status \in StepStatuses, MainTells(step, place, status) PROVE TypeOK'
    BY <1>1, <2>2, <2>4, MessageTypes, PosterTypes DEF MainTells, Becomes, Break, Calls
  <2>5. ASSUME NEW status \in StepStatuses, GoroutineTells(step, place, status) PROVE TypeOK'
    BY <1>1, <2>2, <2>5, MessageTypes, PosterTypes DEF GoroutineTells, Becomes, Calls
  <2> QED BY <2>1, <2>3, <2>4, <2>5
<1>12. ASSUME NEW p \in Posters, NEW n \in Notifiers, Sends(p, n) PROVE TypeOK'
  <2>1. Message(p) \in told
    BY <1>12, SendsDo DEF PostInv, Idle, To
  <2>2. heard' \in [Notifiers -> SUBSET told]
    <3>1. heard \in [Notifiers -> SUBSET told]
      OBVIOUS
    <3>2. CASE heard' = heard
      BY <3>1, <3>2
    <3>3. CASE heard' = [heard EXCEPT ![n] = @ \cup {Message(p)}]
      BY <3>1, <3>3, <2>1
    <3> QED BY <1>12, <3>2, <3>3, SendsDo
  <2> QED BY <1>12, <2>2, SendsDo
<1>13. CASE Cancel
  BY <1>13 DEF Cancel
<1>14. CASE GraceOver
  <2>1. post' \in [Posters -> [message : Messages \cup {<<>>}, tries : Tries]]
    BY <1>14, NoPostTyped DEF GraceOver
  <2> QED BY <1>14, <2>1 DEF GraceOver, Calls
<1>15. ASSUME NEW n \in Notifiers, GoesDown(n) PROVE TypeOK'
  BY <1>15 DEF GoesDown
<1> QED BY <1>3, <1>4, <1>5, <1>6, <1>7, <1>8, <1>9, <1>10, <1>11, <1>12, <1>13, <1>14, <1>15
     DEF Next, Runs

LEMMA PostKept == ASSUME IInv, Next PROVE PostInv'
<1> USE DEF IInv, loop, sending, history
<1>r. \A step \in Steps :
        /\ step \in Running <=> at[step] \in {"running", "recording"} \/ ~Idle(step)
        /\ step \in Running' <=> at'[step] \in {"running", "recording"} \/ ~Idle(step)'
  BY DEF Running
<1>s. Running \subseteq Steps /\ Running' \subseteq Steps
  BY DEF Running
<1>i. \A p \in Posters : (Idle(p) <=> To(p) = {}) /\ (Idle(p)' <=> To(p)' = {})
  BY DEF Idle, To
\* The main goroutine sends or goes on while no other runs.
<1>1. ASSUME Running = {}, NEW m \in Messages, Notify(Main, m), main' \notin {"new", "process", "gone"},
             \A step \in Steps : at'[step] = at[step] \/ at'[step] = "todo"
      PROVE  PostInv'
  <2>1. \A step \in Steps : Idle(step) /\ Idle(step)' /\ at'[step] \notin {"running", "recording"}
    BY <1>1, <1>r, <1>i, NotifyDoes, PosterTypes
  <2>2. Running' = {}
    BY <2>1, <1>r, <1>s
  <2>3. \A p \in Posters : ~Idle(p)' => Message(p)' \in told'
    BY <1>1, <1>i, <2>1, NotifyDoes, PosterTypes DEF Posters, PostInv
  <2> QED BY <1>1, <2>1, <2>2, <2>3 DEF PostInv
<1>2. ASSUME Running = {}, Silent, main' \notin {"new", "gone"}, main' = "process" => Idle(Main),
             \A step \in Steps : at'[step] = at[step] \/ at'[step] = "todo"
      PROVE  PostInv'
  <2>1. \A p \in Posters : (Idle(p)' <=> Idle(p)) /\ Message(p)' = Message(p) /\ told' = told
    BY <1>2 DEF Silent, Idle, Message
  <2>2. \A step \in Steps : Idle(step) /\ Idle(step)' /\ at'[step] \notin {"running", "recording"}
    BY <1>2, <1>r, <2>1, PosterTypes
  <2>3. Running' = {}
    BY <2>2, <1>r, <1>s
  <2> QED BY <1>2, <2>1, <2>2, <2>3, PosterTypes DEF PostInv
<1>3. CASE Started \/ Process \/ StartPipeline \/ PipelineSucceeded \/ PipelineFailed \/ Finish
  <2>1. Running = {}
    BY <1>3 DEF PostInv, Started, Process, StartPipeline, PipelineSucceeded, PipelineFailed, Finish
  <2> QED BY <1>1, <1>3, <2>1, MessageTypes
        DEF Started, Process, StartPipeline, PipelineSucceeded, PipelineFailed, Finish, TypeOK
<1>4. CASE SetUp \/ NotifyError \/ NotifyTerminationIfCanceled
  <2>1. Running = {}
    BY <1>4 DEF PostInv, SetUp, NotifyError, NotifyTerminationIfCanceled
  <2> QED BY <1>1, <1>2, <1>4, <2>1, MessageTypes DEF SetUp, NotifyError, NotifyTerminationIfCanceled
<1>5. CASE Barrier
  BY <1>2, <1>5 DEF Barrier, TypeOK
<1>6. CASE StepsDone
  <2>1. CASE main = "retries"
    BY <1>2, <1>6, <2>1 DEF StepsDone, PostInv
  <2>2. CASE main = "steps"
    <3>1. \A p \in Posters : (Idle(p)' <=> Idle(p)) /\ Message(p)' = Message(p)
      BY <1>6 DEF StepsDone, Silent, Idle, Message
    <3>2. Running' = Running
      BY <1>6, <1>r, <1>s, <3>1, PosterTypes DEF StepsDone
    <3> QED BY <1>6, <2>2, <3>1, <3>2, PosterTypes DEF StepsDone, Silent, PostInv
  <2> QED BY <1>6, <2>1, <2>2 DEF StepsDone
<1>7. ASSUME NEW step \in Steps, Works(step) PROVE PostInv'
  <2>1. PICK place \in Places :
          \/ Quietly(step, place)
          \/ \E status \in StepStatuses :
               MainTells(step, place, status) \/ GoroutineTells(step, place, status)
    BY <1>7, WorksDo
  <2>2. UNCHANGED <<releases, release, cancelled, finalize>>
    BY <1>7, WorksDo
  <2>a. at'[step] = place /\ \A s \in Steps \ {step} : at'[s] = at[s]
    BY <2>1 DEF Quietly, MainTells, GoroutineTells, Becomes, TypeOK
  <2>3. CASE Quietly(step, place)
    <3>1. \A p \in Posters : (Idle(p)' <=> Idle(p)) /\ Message(p)' = Message(p) /\ told' = told
      BY <2>3 DEF Quietly, Silent, Idle, Message
    <3>2. at[step] # "recording" => Idle(step)
      BY <2>3 DEF Quietly, PostInv
    <3>3. Running' = Running \/ Running' = Running \ {step} \/ (Running' = Running \cup {step} /\ place = "running")
      BY <2>3, <2>a, <1>r, <1>s, <3>1, <3>2, PosterTypes DEF Quietly
    <3>4. main' \notin {"steps", "barrier", "gone"} => Running' = {}
      <4>1. CASE place = "running"
        BY <2>3, <4>1 DEF Quietly
      <4>2. CASE place # "running"
        BY <2>3, <3>3, <4>2 DEF Quietly, Break, Turn, PostInv
      <4> QED BY <4>1, <4>2
    <3>5. main' \in {"new", "process", "gone"} => main' = main
      BY <2>3 DEF Quietly, Break
    <3>6. \A s \in Steps : ~Idle(s)' => at'[s] \in {"recording", "failed"}
      BY <2>3, <2>a, <3>1, <3>2, PosterTypes DEF Quietly, PostInv
    <3>7. ~Idle(Main) /\ Running' # {} => Running # {} /\ Running' \subseteq Running
      BY <2>3, <3>3 DEF Quietly, Turn
    <3> QED BY <2>2, <3>1, <3>4, <3>5, <3>6, <3>7, PosterTypes DEF PostInv
  <2>4. ASSUME NEW status \in StepStatuses, MainTells(step, place, status) PROVE PostInv'
    <3>1. /\ Notify(Main, OfStep(step, status)) /\ OfStep(step, status) \in Messages
          /\ Idle(step) /\ place \notin {"running", "recording"} /\ at[step] \notin {"running", "recording"}
      BY <2>4, MessageTypes DEF MainTells, PostInv
    <3>2. \A s \in Steps : (Idle(s)' <=> Idle(s)) /\ Message(s)' = Message(s)
      BY <3>1, <1>i, NotifyDoes, PosterTypes
    <3>3. Running' = Running /\ step \notin Running
      BY <2>a, <1>r, <1>s, <3>1, <3>2
    <3>4. \A p \in Posters : ~Idle(p)' => Message(p)' \in told'
      BY <3>1, <3>2, NotifyDoes, PosterTypes DEF PostInv, Posters
    <3>5. Message(Main)'.level = "step" /\ Message(Main)'.release = release /\ Message(Main)'.step = step
      BY <3>1, NotifyDoes, PosterTypes DEF OfStep
    <3>6. main' \notin {"new", "process", "gone"} /\ (main' \notin {"steps", "barrier"} => Running = {})
      BY <2>4 DEF MainTells, Turn, Break, PostInv
    <3>7. \A s \in Steps : ~Idle(s)' => at'[s] \in {"recording", "failed"}
      BY <2>a, <3>1, <3>2 DEF PostInv
    <3> QED BY <2>2, <3>2, <3>3, <3>4, <3>5, <3>6, <3>7 DEF PostInv
  <2>5. ASSUME NEW status \in StepStatuses, GoroutineTells(step, place, status) PROVE PostInv'
    <3>1. /\ Notify(step, OfStep(step, status)) /\ OfStep(step, status) \in Messages
          /\ place \in {"recording", "failed"} /\ at[step] = "running" /\ main' = main /\ main # "gone"
      BY <2>5, MessageTypes DEF GoroutineTells, Lives
    <3>2. \A p \in Posters \ {step} : (Idle(p)' <=> Idle(p)) /\ Message(p)' = Message(p)
      BY <3>1, <1>i, NotifyDoes, PosterTypes
    <3>3. Running' \subseteq Running /\ step \in Running
      BY <2>a, <1>r, <1>s, <3>1, <3>2, PosterTypes
    <3>4. \A p \in Posters : ~Idle(p)' => Message(p)' \in told'
      BY <3>1, <3>2, NotifyDoes, PosterTypes DEF PostInv
    <3>5. Message(step)'.level = "step" /\ Message(step)'.release = release /\ Message(step)'.step = step
      BY <3>1, NotifyDoes, PosterTypes DEF OfStep
    <3>6. \A s \in Steps : ~Idle(s)' =>
            /\ at'[s] \in {"recording", "failed"}
            /\ Message(s)'.level = "step" /\ Message(s)'.release = release /\ Message(s)'.step = s
      BY <2>a, <3>1, <3>2, <3>5, PosterTypes DEF PostInv
    <3> QED BY <2>2, <3>1, <3>2, <3>3, <3>4, <3>6, PosterTypes DEF PostInv
  <2> QED BY <2>1, <2>3, <2>4, <2>5
<1>8. ASSUME NEW p \in Posters, NEW n \in Notifiers, Sends(p, n) PROVE PostInv'
  <2>1. \A q \in Posters : Message(q)' = Message(q) /\ (Idle(q) => Idle(q)')
    BY <1>8, <1>i, SendsDo
  <2>2. Running' \subseteq Running
    BY <1>8, <1>r, <1>s, <2>1, SendsDo, PosterTypes
  <2> QED BY <1>8, <2>1, <2>2, SendsDo, PosterTypes DEF PostInv
<1>9. CASE Cancel \/ \E n \in Notifiers : GoesDown(n)
  <2>1. UNCHANGED <<post, at, main, told, release>>
    BY <1>9 DEF Cancel, GoesDown
  <2>2. Running' = Running /\ \A q \in Posters : Message(q)' = Message(q) /\ (Idle(q) <=> Idle(q)')
    BY <2>1, <1>r, <1>s DEF Message, Idle
  <2> QED BY <2>1, <2>2, PosterTypes DEF PostInv
<1>10. CASE GraceOver
  <2>1. \A p \in Posters : Idle(p)'
    BY <1>10, NoPostTyped DEF GraceOver, Idle
  <2> QED BY <1>10, <2>1, PosterTypes DEF GraceOver, PostInv
<1> QED BY <1>3, <1>4, <1>5, <1>6, <1>7, <1>8, <1>9, <1>10 DEF Next, Runs

(***************************************************************************)
(* The levels nest                                                         *)
(***************************************************************************)
LEMMA ToldKept == ASSUME IInv, Next PROVE ToldInv'
<1> USE DEF IInv, loop, sending, history
<1>t. /\ \A a \in told : a.release \in Nat /\ a.attempt \in Nat
      /\ \A a \in told : a.level = "step" => a.step \in Steps
      /\ release \in Nat
  BY DEF TypeOK, Messages
<1>1. CASE Started \/ Process \/ Finish
  <2>1. PICK status \in {"started", "sources", "success", "skipped"} :
          Notify(Main, OfRun(status)) /\ (finalize' = finalize \/ finalize' = status)
          /\ (status \in {"success", "skipped"} => finalize' = status)
    BY <1>1 DEF Started, Process, Finish
  <2>2. told' = told \cup {OfRun(status)} /\ OfRun(status).level = "run" /\ OfRun(status).status = status
    BY <2>1, MessageTypes, NotifyDoes, PosterTypes DEF OfRun
  <2> QED BY <1>1, <1>t, <2>1, <2>2 DEF Started, Process, Finish, ToldInv, InRelease, IsOutcome, Statuses
<1>2. CASE SetUp \/ StepsDone
  BY <1>2, <1>t DEF SetUp, StepsDone, Silent, ToldInv, InRelease, Attempt
<1>3. CASE StartPipeline
  <2>1. told' = told \cup {OfPipeline("starting")}
    BY <1>3, MessageTypes, NotifyDoes, PosterTypes DEF StartPipeline
  <2> QED BY <1>3, <1>t, <2>1 DEF StartPipeline, ToldInv, InRelease, OfPipeline, IsOutcome
<1>4. CASE PipelineSucceeded
  <2>1. told' = told \cup {OfPipeline("success")}
    BY <1>4, MessageTypes, NotifyDoes, PosterTypes DEF PipelineSucceeded
  <2> QED BY <1>4, <1>t, <2>1 DEF PipelineSucceeded, ToldInv, InRelease, OfPipeline, IsOutcome
<1>5. CASE PipelineFailed
  <2>1. told' = told \cup {OfPipeline("failure")}
    BY <1>5, MessageTypes, NotifyDoes, PosterTypes DEF PipelineFailed
  <2> QED BY <1>5, <1>t, <2>1 DEF PipelineFailed, ToldInv, InRelease, OfPipeline, IsOutcome
<1>6. CASE NotifyError
  <2>1. told' = told \/ (told' = told \cup {OfRun("failure")} /\ finalize' = "failure")
    BY <1>6, MessageTypes, NotifyDoes, PosterTypes DEF NotifyError, Silent
  <2> QED BY <1>6, <1>t, <2>1 DEF NotifyError, ToldInv, InRelease, OfRun
<1>7. CASE NotifyTerminationIfCanceled
  <2>1. told' = told \/ (told' = told \cup {OfRun("terminated")} /\ finalize' = "terminated")
    BY <1>7, MessageTypes, NotifyDoes, PosterTypes DEF NotifyTerminationIfCanceled, Silent
  <2> QED BY <1>7, <1>t, <2>1 DEF NotifyTerminationIfCanceled, ToldInv, InRelease, OfRun
<1>8. CASE Barrier
  BY <1>8, <1>t DEF Barrier, Silent, ToldInv, InRelease, Attempt, TypeOK
<1>9. ASSUME NEW step \in Steps, Works(step) PROVE ToldInv'
  <2>1. PICK place \in Places :
          \/ Quietly(step, place)
          \/ \E status \in StepStatuses :
               MainTells(step, place, status) \/ GoroutineTells(step, place, status)
    BY <1>9, WorksDo
  <2>2. UNCHANGED <<releases, release, cancelled, finalize>>
    BY <1>9, WorksDo
  <2>a. at'[step] = place /\ \A s \in Steps \ {step} : at'[s] = at[s]
    BY <2>1 DEF Quietly, MainTells, GoroutineTells, Becomes, TypeOK
  <2>b. main \in {"steps", "retries", "barrier"}
    <3>1. CASE Quietly(step, place)
      BY <3>1, <2>1 DEF Quietly, Turn, PostInv, Running, Lives
    <3>2. ASSUME NEW status \in StepStatuses, MainTells(step, place, status)
          PROVE  main \in {"steps", "retries", "barrier"}
      BY <3>2 DEF MainTells, Turn
    <3>3. ASSUME NEW status \in StepStatuses, GoroutineTells(step, place, status)
          PROVE  main \in {"steps", "retries", "barrier"}
      BY <3>3 DEF GoroutineTells, PostInv, Running, Lives
    <3> QED BY <2>1, <3>1, <3>2, <3>3
  <2>3. CASE Quietly(step, place)
    BY <1>t, <2>2, <2>3, <2>a, <2>b DEF Quietly, Turn, Pending, Silent, ToldInv, InRelease, Attempt, Break
  <2>4. ASSUME NEW status \in StepStatuses, MainTells(step, place, status) PROVE ToldInv'
    <3>1. told' = told \cup {OfStep(step, status)}
      BY <2>4, MessageTypes, NotifyDoes, PosterTypes DEF MainTells
    <3> QED BY <1>t, <2>2, <2>4, <2>a, <2>b, <3>1
         DEF MainTells, Turn, ToldInv, InRelease, Attempt, OfStep, Break, IsOutcome
  <2>5. ASSUME NEW status \in StepStatuses, GoroutineTells(step, place, status) PROVE ToldInv'
    <3>1. told' = told \cup {OfStep(step, status)}
      BY <2>5, MessageTypes, NotifyDoes, PosterTypes DEF GoroutineTells
    <3> QED BY <1>t, <2>2, <2>5, <2>a, <2>b, <3>1
         DEF GoroutineTells, ToldInv, InRelease, Attempt, OfStep, IsOutcome
  <2> QED BY <2>1, <2>3, <2>4, <2>5
<1>10. ASSUME NEW p \in Posters, NEW n \in Notifiers, Sends(p, n) PROVE ToldInv'
  BY <1>10, SendsDo DEF ToldInv, Attempt
<1>11. CASE Cancel \/ GraceOver \/ \E n \in Notifiers : GoesDown(n)
  BY <1>11 DEF Cancel, GraceOver, GoesDown, ToldInv, InRelease, Attempt
<1> QED BY <1>1, <1>2, <1>3, <1>4, <1>5, <1>6, <1>7, <1>8, <1>9, <1>10, <1>11 DEF Next, Runs

\* What two goroutines send at a time may be heard in any order.
LEMMA AtATime ==
  ASSUME IInv, NEW p \in Posters, NEW q \in Posters, p # q, ~Idle(p), ~Idle(q)
  PROVE  InOrder(Message(p), Message(q))
<1> USE DEF IInv
<1>1. \A s \in Posters : s # Main => s \in Steps
  BY DEF Posters
<1>2. \A s \in Steps : ~Idle(s) => s \in Running
  BY DEF Running
<1>3. /\ Message(p).level = "step" /\ Message(q).level = "step"
      /\ Message(p).release = release /\ Message(q).release = release
      /\ Message(p).step # Message(q).step
  BY <1>1, <1>2 DEF PostInv
<1>4. Message(q).status # "started" /\ release \in Nat
  BY <1>3 DEF PostInv, TypeOK, Messages
<1> QED BY <1>3, <1>4 DEF InOrder, IsOutcome

LEMMA NestKept == ASSUME IInv, Next PROVE NestInv'
<1> USE DEF IInv, loop, sending, history
<1>t. /\ \A a \in told : a.release \in Nat /\ a.attempt \in Nat
      /\ release \in Nat /\ \A n \in Notifiers : heard[n] \subseteq told
      /\ \A p \in Posters : To(p) \subseteq Notifiers
  BY DEF TypeOK, Messages, To, Tries
<1>o. finalize = "none" => \A a \in told : ~IsOutcome(a)
  BY DEF ToldInv
<1>1. ASSUME NEW p \in Posters, NEW m \in Messages, Notify(p, m), \A a \in told : InOrder(a, m)
      PROVE  NestInv'
  <2>1. To(p)' \subseteq Notifiers
    BY <1>1, NotifyDoes DEF To, Tries
  <2> QED BY <1>1, <1>t, <2>1, NotifyDoes DEF NestInv
<1>2. CASE heard' = heard /\ \A p \in Posters : Message(p)' = Message(p) /\ To(p)' \subseteq To(p)
  BY <1>2 DEF NestInv
<1>3. CASE Silent
  BY <1>2, <1>3 DEF Silent, Message, To
<1>4. CASE Started
  BY <1>1, <1>4, MessageTypes, PosterTypes DEF Started, ToldInv
<1>5. CASE Process
  BY <1>1, <1>5, <1>o, MessageTypes, PosterTypes DEF Process, ToldInv, InOrder, OfRun
<1>6. CASE StartPipeline
  BY <1>1, <1>6, <1>o, <1>t, MessageTypes, PosterTypes DEF StartPipeline, ToldInv, InOrder, OfPipeline
<1>7. CASE PipelineSucceeded
  BY <1>1, <1>7, <1>o, <1>t, MessageTypes, PosterTypes
     DEF PipelineSucceeded, ToldInv, InRelease, InOrder, OfPipeline
<1>8. CASE PipelineFailed
  BY <1>1, <1>8, <1>o, <1>t, MessageTypes, PosterTypes
     DEF PipelineFailed, ToldInv, InRelease, InOrder, OfPipeline
<1>9. CASE Finish
  BY <1>1, <1>9, <1>o, MessageTypes, PosterTypes DEF Finish, ToldInv, InOrder, OfRun
<1>10. CASE NotifyError
  BY <1>1, <1>3, <1>10, <1>o, MessageTypes, PosterTypes DEF NotifyError, ToldInv, InOrder, OfRun
<1>11. CASE NotifyTerminationIfCanceled
  BY <1>1, <1>3, <1>11, <1>o, MessageTypes, PosterTypes
     DEF NotifyTerminationIfCanceled, InOrder, OfRun
<1>12. CASE SetUp \/ StepsDone \/ Barrier
  BY <1>3, <1>12 DEF SetUp, StepsDone, Barrier
<1>13. ASSUME NEW step \in Steps, Works(step) PROVE NestInv'
  <2>1. PICK place \in Places :
          \/ Quietly(step, place)
          \/ \E status \in StepStatuses :
               MainTells(step, place, status) \/ GoroutineTells(step, place, status)
    BY <1>13, WorksDo
  <2>2. CASE Quietly(step, place)
    BY <1>3, <2>2 DEF Quietly
  <2>3. ASSUME NEW status \in StepStatuses, MainTells(step, place, status) PROVE NestInv'
    <3>1. main \in {"steps", "retries"}
      BY <2>3 DEF MainTells, Turn
    <3>2. \A a \in told : InOrder(a, OfStep(step, status))
      BY <1>o, <1>t, <2>3, <3>1 DEF MainTells, ToldInv, InRelease, InOrder, OfStep, Attempt, StepStatuses
    <3> QED BY <1>1, <2>3, <3>2, MessageTypes, PosterTypes DEF MainTells
  <2>4. ASSUME NEW status \in StepStatuses, GoroutineTells(step, place, status) PROVE NestInv'
    <3>1. main \in {"steps", "barrier"}
      BY <2>4 DEF GoroutineTells, PostInv, Running, Lives
    <3>2. \A a \in told : InOrder(a, OfStep(step, status))
      BY <1>o, <1>t, <2>4, <3>1 DEF GoroutineTells, ToldInv, InRelease, InOrder, OfStep, Attempt
    <3> QED BY <1>1, <2>4, <3>2, MessageTypes, PosterTypes DEF GoroutineTells
  <2> QED BY <2>1, <2>2, <2>3, <2>4
<1>14. ASSUME NEW p \in Posters, NEW n \in Notifiers, Sends(p, n) PROVE NestInv'
  <2>1. CASE heard' = heard
    BY <1>2, <1>14, <2>1, SendsDo
  <2>2. CASE heard' = [heard EXCEPT ![n] = @ \cup {Message(p)}]
    <3>1. SUFFICES ASSUME NEW q \in Posters, NEW k \in To(q)', NEW a \in heard'[k]
                   PROVE  a = Message(q)' \/ InOrder(a, Message(q)')
      BY DEF NestInv
    <3>2. Message(q)' = Message(q) /\ k \in To(q) /\ k \in Notifiers
      BY <1>14, <1>t, <3>1, SendsDo
    <3>3. a \in heard[k] \/ (k = n /\ a = Message(p))
      BY <2>2, <3>1, <3>2 DEF TypeOK
    <3>4. CASE a \in heard[k]
      BY <3>2, <3>4 DEF NestInv
    <3>5. CASE k = n /\ a = Message(p) /\ p # q
      <4>1. ~Idle(p) /\ ~Idle(q)
        BY <1>14, <3>2, <3>5, SendsDo DEF Idle, To
      <4> QED BY <3>2, <3>5, <4>1, AtATime
    <3> QED BY <3>2, <3>3, <3>4, <3>5
  <2> QED BY <1>14, <2>1, <2>2, SendsDo
<1>15. CASE Cancel \/ \E n \in Notifiers : GoesDown(n)
  BY <1>2, <1>15 DEF Cancel, GoesDown, Message, To
<1>16. CASE GraceOver
  BY <1>16, NoPostTyped DEF GraceOver, NestInv, To
<1> QED BY <1>4, <1>5, <1>6, <1>7, <1>8, <1>9, <1>10, <1>11, <1>12, <1>13, <1>14, <1>15, <1>16
     DEF Next, Runs

(***************************************************************************)
(* Failures surface                                                        *)
(***************************************************************************)
\* The beginning of the second try of a step that failed.
LEMMA SecondTry ==
  ASSUME TypeOK, NEW step \in Steps, NEW failure \in Messages, main = "retries",
         failure.level = "step", failure.release = release, failure.step = step
  PROVE  [failure EXCEPT !.attempt = 2, !.status = "starting"] = OfStep(step, "starting")
<1> DEFINE Fields == [level : {"run", "pipeline", "step"}, release : Nat, step : Steps \cup {0},
                      attempt : 0..2,
                      status : {"started", "sources", "starting", "success", "skipped", "failure",
                                "terminated"}]
           second == [failure EXCEPT !.attempt = 2]
           again == [second EXCEPT !.status = "starting"]
<1>1. failure \in Fields
  BY DEF Messages
<1>2. /\ second \in Fields /\ second.level = "step" /\ second.release = release
      /\ second.step = step /\ second.attempt = 2
  BY <1>1
<1> HIDE DEF second
<1>3. again \in Fields
  BY <1>2
<1>4. /\ again.level = "step" /\ again.release = release /\ again.step = step
      /\ again.attempt = 2 /\ again.status = "starting"
  BY <1>2
<1> HIDE DEF again
<1>5. again = OfStep(step, "starting")
  BY <1>3, <1>4 DEF OfStep
<1>6. [failure EXCEPT !.attempt = 2, !.status = "starting"] = [second EXCEPT !.status = "starting"]
  BY DEF second
<1> QED BY <1>5, <1>6 DEF again

LEMMA FailKept == ASSUME IInv, Next PROVE FailInv'
<1> USE DEF IInv, loop, sending, history
<1>t. /\ \A a \in told : a.release \in Nat /\ a.attempt \in 0..2
      /\ \A a \in told : a.level = "step" => a.step \in Steps
      /\ release \in Nat
  BY DEF TypeOK, Messages
<1>f. \A r : Failures(r)' = {a \in told' : a.level = "step" /\ a.release = r /\ a.status = "failure"}
  BY DEF Failures
<1>g. \A failure : told \subseteq told' /\ TriedAgain(failure) => TriedAgain(failure)'
  BY DEF TriedAgain
<1>n. main \notin {"deferred", "returned", "gone"} => finalize = "none"
  BY DEF ToldInv
<1> USE <1>f, <1>g
\* What is told of the run is no failure of a step.
<1>1. ASSUME NEW m \in Messages, told' = told \cup {m}, m.level = "run", release' = release,
             main \notin {"steps", "barrier", "retries", "pipelineSucceeded"},
             main' \notin {"steps", "barrier", "retries", "pipelineSucceeded"},
             main' \in {"deferred", "returned"} => main \in {"failed", "loop", "deferred"},
             main \in {"failed", "deferred", "returned", "gone"} =>
               main' \in {"deferred", "returned"} /\ finalize' \notin {"success", "skipped"}
      PROVE  FailInv'
  BY <1>1 DEF FailInv, Failures
<1>2. CASE Started \/ Process \/ Finish
  <2>1. PICK status \in {"started", "sources", "success", "skipped"} : Notify(Main, OfRun(status))
    BY <1>2 DEF Started, Process, Finish
  <2>2. told' = told \cup {OfRun(status)} /\ OfRun(status).level = "run" /\ OfRun(status) \in Messages
    BY <2>1, MessageTypes, NotifyDoes, PosterTypes DEF OfRun
  <2> QED BY <1>1, <1>2, <2>2 DEF Started, Process, Finish
<1>3. CASE NotifyError
  <2>1. told' = told \/ told' = told \cup {OfRun("failure")}
    BY <1>3, MessageTypes, NotifyDoes, PosterTypes DEF NotifyError, Silent
  <2>2. finalize' \notin {"success", "skipped"}
    BY <1>3, <1>n DEF NotifyError
  <2> QED BY <1>3, <2>1, <2>2 DEF NotifyError, FailInv, Failures, OfRun
<1>4. CASE NotifyTerminationIfCanceled
  <2>1. told' = told \/ told' = told \cup {OfRun("terminated")}
    BY <1>4, MessageTypes, NotifyDoes, PosterTypes DEF NotifyTerminationIfCanceled, Silent
  <2>2. finalize' = finalize \/ finalize' = "terminated"
    BY <1>4 DEF NotifyTerminationIfCanceled
  <2> QED BY <1>4, <2>1, <2>2 DEF NotifyTerminationIfCanceled, FailInv, Failures, OfRun
<1>5. CASE SetUp
  BY <1>5 DEF SetUp, Silent, FailInv, Failures
<1>6. CASE StartPipeline
  <2>1. told' = told \cup {OfPipeline("starting")}
    BY <1>6, MessageTypes, NotifyDoes, PosterTypes DEF StartPipeline
  <2> QED BY <1>6, <1>t, <2>1 DEF StartPipeline, FailInv, Failures, OfPipeline, ToldInv
<1>7. CASE PipelineSucceeded
  <2>1. told' = told \cup {OfPipeline("success")}
    BY <1>7, MessageTypes, NotifyDoes, PosterTypes DEF PipelineSucceeded
  <2> QED BY <1>7, <1>t, <2>1 DEF PipelineSucceeded, FailInv, Failures, OfPipeline
<1>8. CASE PipelineFailed
  <2>1. told' = told \cup {OfPipeline("failure")}
    BY <1>8, MessageTypes, NotifyDoes, PosterTypes DEF PipelineFailed
  <2> QED BY <1>8, <1>n, <1>t, <2>1 DEF PipelineFailed, FailInv, Failures, OfPipeline
<1>9. CASE StepsDone
  BY <1>9, <1>t DEF StepsDone, Silent, FailInv, Failures, Pending
<1>10. CASE Barrier
  BY <1>10, <1>t DEF Barrier, Silent, FailInv, Failures, Failed, Retried, TypeOK
<1>11. ASSUME NEW step \in Steps, Works(step) PROVE FailInv'
  <2>1. PICK place \in Places :
          \/ Quietly(step, place)
          \/ \E status \in StepStatuses :
               MainTells(step, place, status) \/ GoroutineTells(step, place, status)
    BY <1>11, WorksDo
  <2>2. UNCHANGED <<releases, release, cancelled, finalize>>
    BY <1>11, WorksDo
  <2>a. at'[step] = place /\ \A s \in Steps \ {step} : at'[s] = at[s]
    BY <2>1 DEF Quietly, MainTells, GoroutineTells, Becomes, TypeOK
  <2>3. CASE Quietly(step, place)
    BY <1>t, <2>2, <2>3, <2>a DEF Quietly, Turn, Silent, FailInv, Failures, Break
  <2>4. ASSUME NEW status \in StepStatuses, MainTells(step, place, status) PROVE FailInv'
    <3> DEFINE m == OfStep(step, status)
    <3>1. told' = told \cup {m}
      BY <2>4, MessageTypes, NotifyDoes, PosterTypes DEF MainTells
    <3>2. m.level = "step" /\ m.release = release /\ m.step = step /\ m.status = status
          /\ m.attempt = (IF main = "retries" THEN 2 ELSE 1)
      BY DEF OfStep
    <3>3. CASE main = "retries" /\ status = "starting"
      <4>1. ASSUME NEW failure \in Failures(release), failure.attempt = 1, failure.step = step
            PROVE  TriedAgain(failure)'
        <5>1. failure \in Messages /\ failure.level = "step" /\ failure.release = release
          BY <4>1 DEF Failures, TypeOK
        <5> QED BY <3>1, <3>3, <4>1, <5>1, SecondTry DEF TriedAgain
      <4> HIDE DEF m
      <4> QED BY <1>t, <2>2, <2>4, <2>a, <3>1, <3>2, <3>3, <4>1 DEF MainTells, Break, FailInv, Failures
    <3>4. CASE ~(main = "retries" /\ status = "starting")
      <4> HIDE DEF m
      <4> QED BY <1>t, <2>2, <2>4, <2>a, <3>1, <3>2, <3>4
           DEF MainTells, Turn, Break, FailInv, Failures
    <3> QED BY <3>3, <3>4
  <2>5. ASSUME NEW status \in StepStatuses, GoroutineTells(step, place, status) PROVE FailInv'
    <3> DEFINE m == OfStep(step, status)
    <3>1. told' = told \cup {m}
      BY <2>5, MessageTypes, NotifyDoes, PosterTypes DEF GoroutineTells
    <3>2. main \in {"steps", "barrier"}
      BY <2>5 DEF GoroutineTells, PostInv, Running, Lives
    <3>3. m.level = "step" /\ m.release = release /\ m.step = step /\ m.status = status /\ m.attempt = 1
      BY <3>2 DEF OfStep
    <3> HIDE DEF m
    <3> QED BY <1>t, <2>2, <2>5, <2>a, <3>1, <3>2, <3>3 DEF GoroutineTells, FailInv, Failures
  <2> QED BY <2>1, <2>3, <2>4, <2>5
<1>12. ASSUME NEW p \in Posters, NEW n \in Notifiers, Sends(p, n) PROVE FailInv'
  <2>1. UNCHANGED <<main, at, release, finalize, told>>
    BY <1>12, SendsDo
  <2> QED BY <2>1 DEF FailInv, Failures, TriedAgain
<1>13. CASE Cancel \/ GraceOver \/ \E n \in Notifiers : GoesDown(n)
  BY <1>13 DEF Cancel, GraceOver, GoesDown, FailInv, Failures, TriedAgain
<1> QED BY <1>2, <1>3, <1>4, <1>5, <1>6, <1>7, <1>8, <1>9, <1>10, <1>11, <1>12, <1>13 DEF Next, Runs

(***************************************************************************)
(* The outcome is heard                                                    *)
(***************************************************************************)
LEMMA OutcomeKept == ASSUME IInv, Next PROVE OutcomeInv'
<1> USE DEF IInv, loop, sending, history
<1>n. main \notin {"deferred", "returned", "gone"} => finalize = "none"
  BY DEF ToldInv
\* Whoever tells the outcome of a run with a context that lives sends it to all who listen.
<1>1. ASSUME NEW status \in Statuses, Notify(Main, OfRun(status)), finalize' = status,
             main' \in {"deferred", "returned"}, cancelled' = cancelled,
             cancelled = "early" => status # "failure"
      PROVE  OutcomeInv'
  <2>1. OfRun(status) \in Messages /\ OfRun(status).status = status /\ status # "none"
    BY MessageTypes DEF OfRun, Statuses
  <2>2. Told' => ~Dead(OfRun(status))
    BY <1>1, <2>1 DEF Told, Dead
  <2>3. /\ Message(Main)' = OfRun(status)
        /\ \A n \in Notifiers : ~Dead(OfRun(status)) /\ Type(OfRun(status)) \in Types[n] => n \in To(Main)'
    BY <1>1, <2>1, NotifyDoes, PosterTypes
  <2> QED BY <1>1, <2>1, <2>2, <2>3 DEF OutcomeInv
<1>2. CASE /\ main' \notin {"deferred", "returned"}
           /\ UNCHANGED <<cancelled, finalize>>
  BY <1>2 DEF OutcomeInv
<1>3. CASE Started \/ SetUp \/ Process \/ StartPipeline \/ StepsDone \/ Barrier
           \/ PipelineSucceeded \/ PipelineFailed
  BY <1>2, <1>3 DEF Started, SetUp, Process, StartPipeline, StepsDone, Barrier, PipelineSucceeded,
                    PipelineFailed
<1>4. CASE Finish
  BY <1>1, <1>4 DEF Finish, Statuses
<1>5. CASE NotifyError
  <2>1. CASE cancelled = "no"
    BY <1>1, <1>5, <2>1 DEF NotifyError, Statuses
  <2>2. CASE cancelled # "no"
    BY <1>5, <1>n, <2>2 DEF NotifyError, OutcomeInv, Told
  <2> QED BY <2>1, <2>2
<1>6. CASE NotifyTerminationIfCanceled
  <2> DEFINE Terminates == cancelled # "no" /\ HasNotifier("failure") /\ finalize = "none"
  <2>1. CASE Terminates
    BY <1>1, <1>6, <2>1 DEF NotifyTerminationIfCanceled, Statuses
  <2>2. CASE ~Terminates
    <3>1. /\ main = "deferred" /\ main' = "returned"
          /\ UNCHANGED <<cancelled, finalize, post, heard, lost>>
      BY <1>6, <2>2 DEF NotifyTerminationIfCanceled, Silent
    <3>2. Message(Main)' = Message(Main) /\ To(Main)' = To(Main) /\ Told' = Told
      BY <3>1 DEF Message, To, Told
    <3> QED BY <2>2, <3>1, <3>2 DEF OutcomeInv
  <2> QED BY <2>1, <2>2
<1>7. CASE Cancel
  BY <1>7 DEF Cancel, OutcomeInv, Told
<1>8. CASE GraceOver
  BY <1>2, <1>8 DEF GraceOver
<1>9. ASSUME NEW k \in Notifiers, GoesDown(k) PROVE OutcomeInv'
  <2>1. UNCHANGED <<main, cancelled, finalize, post, heard, lost>>
    BY <1>9 DEF GoesDown
  <2>2. Message(Main)' = Message(Main) /\ To(Main)' = To(Main) /\ Told' = Told
    BY <2>1 DEF Message, To, Told
  <2> QED BY <2>1, <2>2 DEF OutcomeInv
<1>10. ASSUME NEW step \in Steps, Works(step) PROVE OutcomeInv'
  <2>1. main' \notin {"deferred", "returned"}
    <3>1. PICK place \in Places :
            \/ Quietly(step, place)
            \/ \E status \in StepStatuses :
                 MainTells(step, place, status) \/ GoroutineTells(step, place, status)
      BY <1>10, WorksDo
    <3>2. at[step] \in {"running", "recording"} => main \notin {"deferred", "returned"}
      BY DEF PostInv, Running
    <3> QED BY <3>1, <3>2 DEF Quietly, MainTells, GoroutineTells, Turn, Break
  <2> QED BY <1>2, <1>10, <2>1, WorksDo
<1>11. ASSUME NEW p \in Posters, NEW n \in Notifiers, Sends(p, n) PROVE OutcomeInv'
  <2>1. UNCHANGED <<main, cancelled, finalize>> /\ Told' = Told
    BY <1>11, SendsDo DEF Told
  <2>2. SUFFICES ASSUME main \in {"deferred", "returned"}, Told,
                        NEW k \in Notifiers \ lost', Type(OfRun(finalize)) \in Types[k]
                 PROVE  \/ OfRun(finalize) \in heard'[k]
                        \/ k \in To(Main)' /\ Message(Main)' = OfRun(finalize)
    BY <2>1 DEF OutcomeInv
  <2>3. /\ k \notin lost /\ heard[k] \subseteq heard'[k] /\ Message(Main)' = Message(Main)
        /\ heard' = [heard EXCEPT ![n] = @ \cup {Message(p)}] => Message(p) \in heard'[n]
    BY <1>11, SendsDo, PosterTypes DEF TypeOK
  <2>4. CASE OfRun(finalize) \in heard[k]
    BY <2>3, <2>4
  <2>5. CASE k \in To(Main) /\ Message(Main) = OfRun(finalize)
    <3>1. CASE p = Main /\ k = n
      <4>1. IsOutcome(Message(p)) /\ ~Dead(Message(p))
        BY <2>2, <2>5, <3>1 DEF IsOutcome, Dead, Told, OfRun, Statuses, TypeOK
      <4>2. \/ n \in To(p)' \/ n \in lost' \/ ~IsOutcome(Message(p)) \/ Dead(Message(p))
            \/ heard' = [heard EXCEPT ![n] = @ \cup {Message(p)}]
        BY <1>11, SendsDo
      <4> QED BY <2>2, <2>3, <2>5, <3>1, <4>1, <4>2
    <3>2. CASE ~(p = Main /\ k = n)
      <4>1. k \in To(Main)'
        BY <1>11, <2>5, <3>2, SendsDo, PosterTypes
      <4> QED BY <2>3, <2>5, <4>1
    <3> QED BY <3>1, <3>2
  <2> QED BY <2>2, <2>3, <2>4, <2>5 DEF OutcomeInv
<1> QED BY <1>3, <1>4, <1>5, <1>6, <1>7, <1>8, <1>9, <1>10, <1>11 DEF Next, Runs

(***************************************************************************)
(* The theorems                                                            *)
(***************************************************************************)
LEMMA Stutter == IInv /\ UNCHANGED vars => IInv'
<1> SUFFICES ASSUME IInv, UNCHANGED vars PROVE IInv'
  OBVIOUS
<1> USE DEF IInv, vars, loop, sending, history
<1>1. TypeOK'
  BY DEF TypeOK
<1>2. PostInv'
  BY DEF PostInv, Idle, Message, Running
<1>3. ToldInv' /\ FailInv'
  <2>1. ToldInv'
    BY DEF ToldInv, Attempt
  <2>2. told' = told /\ main' = main /\ release' = release /\ at' = at /\ finalize' = finalize
    OBVIOUS
  <2>3. FailInv'
    BY <2>2 DEF FailInv, Failures, TriedAgain
  <2> QED BY <2>1, <2>3
<1>4. NestInv' /\ OutcomeInv'
  BY DEF NestInv, OutcomeInv, Message, To, Told
<1> QED BY <1>1, <1>2, <1>3, <1>4

LEMMA Inductive == IInv /\ [Next]_vars => IInv'
<1> SUFFICES ASSUME IInv, Next PROVE IInv'
  BY Stutter
<1> QED BY TypesKept, PostKept, ToldKept, NestKept, FailKept, OutcomeKept DEF IInv

\* In every state, of any number of steps, releases and notifiers: the values
\* have their types, only what was told is being sent and by whom it belongs to,
\* and what was told fits the place at which processRelease and Run are.
THEOREM Consistent == Spec => []IInv
BY InitIInv, Inductive, PTL DEF Spec

\* What is heard in a step was being sent.
LEMMA HeardIsSent ==
  ASSUME IInv, Next, NEW n \in Notifiers, NEW b \in heard'[n] \ heard[n]
  PROVE  \E p \in Posters : n \in To(p) /\ b = Message(p)
<1> USE DEF IInv, loop, sending, history
<1>1. CASE heard' = heard
  BY <1>1
<1>2. CASE Runs
  BY <1>1, <1>2 DEF Runs, Started, SetUp, Process, StartPipeline, StepsDone, Barrier, PipelineSucceeded,
                    PipelineFailed, Finish, NotifyError, NotifyTerminationIfCanceled, Notify, Silent
<1>3. ASSUME NEW step \in Steps, Works(step) PROVE heard' = heard
  BY <1>3, WorksDo DEF Quietly, MainTells, GoroutineTells, Notify, Silent
<1>4. ASSUME NEW p \in Posters, NEW k \in Notifiers, Sends(p, k)
      PROVE  \E q \in Posters : n \in To(q) /\ b = Message(q)
  BY <1>4, SendsDo DEF TypeOK
<1>5. CASE Cancel \/ GraceOver \/ \E k \in Notifiers : GoesDown(k)
  BY <1>1, <1>5 DEF Cancel, GraceOver, GoesDown
<1> QED BY <1>1, <1>2, <1>3, <1>4, <1>5 DEF Next

\* Whoever listens hears the messages of a pipeline between its start and its
\* end, one pipeline after the other, those of a step in their order, and
\* nothing after the outcome (Run, processRelease, processStep, executePipeline).
THEOREM MessagesNest == Spec => LevelsNest
<1>1. ASSUME IInv, [Next]_vars
      PROVE  [\A notifier \in Notifiers :
                \A a \in heard[notifier], b \in heard'[notifier] \ heard[notifier] : InOrder(a, b)]_vars
  <2>1. SUFFICES ASSUME Next, NEW n \in Notifiers, NEW a \in heard[n], NEW b \in heard'[n] \ heard[n]
                 PROVE  InOrder(a, b)
    BY <1>1
  <2>2. PICK p \in Posters : n \in To(p) /\ b = Message(p)
    BY <1>1, <2>1, HeardIsSent
  <2> QED BY <1>1, <2>1, <2>2 DEF IInv, NestInv
<1> QED BY <1>1, Consistent, PTL DEF Spec, LevelsNest

\* A step that failed for good is followed by the failure of its pipeline, and a
\* pipeline that failed by the failure of the run: no success is told over one
\* (processRelease, executePipeline, Run).
THEOREM CascadeHolds == Spec => []FailuresSurface
<1>1. ASSUME IInv PROVE FailuresSurface
  <2>1. ASSUME NEW end \in told, end.level = "pipeline", end.status = "success", NEW failure \in told,
               failure.level = "step", failure.release = end.release, failure.status = "failure"
        PROVE  TriedAgain(failure)
    BY <1>1, <2>1 DEF IInv, FailInv, Failures
  <2>2. ASSUME main \in {"deferred", "returned"}, finalize \in {"success", "skipped"},
               NEW message \in told, message.level = "pipeline"
        PROVE  message.status # "failure"
    BY <1>1, <2>2 DEF IInv, FailInv
  <2> QED BY <2>1, <2>2 DEF FailuresSurface, TriedAgain
<1> QED BY <1>1, Consistent, PTL

\* When Run has returned, its outcome was heard by all who listen to it and whose
\* receiver took it, also when it is that of a run cancelled at work
\* (notifyError, notifyTerminationIfCanceled, finalize).
THEOREM OutcomeReaches == Spec => []OutcomeIsHeard
<1>1. ASSUME IInv, main = "returned", Idle(Main), finalize # "none",
             cancelled = "no" \/ (cancelled = "early" /\ finalize \in {"failure", "terminated"}),
             NEW notifier \in Notifiers \ lost, Type(OfRun(finalize)) \in Types[notifier]
      PROVE  OfRun(finalize) \in heard[notifier]
  <2>1. Told /\ To(Main) = {}
    BY <1>1 DEF IInv, OutcomeInv, Told, Idle, To
  <2> QED BY <1>1, <2>1 DEF IInv, OutcomeInv
<1>2. ASSUME IInv, main = "returned", finalize = "none" PROVE cancelled # "no" /\ ~HasNotifier("failure")
  BY <1>2 DEF IInv, OutcomeInv
<1>3. IInv => OutcomeIsHeard
  BY <1>1, <1>2 DEF OutcomeIsHeard
<1> QED BY <1>3, Consistent, PTL
=============================================================================
