------------------------------ MODULE LogStream ------------------------------
(***************************************************************************)
(* The wrapper's log stream (wrapper/client.go, wrapper/wrapper.go).       *)
(*                                                                         *)
(* A step's pipeline runs its entrypoint under `provision`, which forwards *)
(* every stdout line, the summary of a plan and the outcome to a backend   *)
(* over a gRPC stream. Three goroutines take part: Provision itself, which *)
(* must never wait for the backend but for a bounded time at the end; the  *)
(* supervisor, which owns the stream and opens it again when it breaks;    *)
(* and one that receives. The stream is gRPC's: Send hands a message over, *)
(* and what has not arrived when the stream breaks is lost.                *)
(***************************************************************************)
EXTENDS Integers, Sequences

CONSTANTS
  NumLines,    \* the entrypoint prints at most so many lines   (bound)
  BufferSize,  \* logBufferSize
  BatchSize,   \* maxBatchSize
  Window,      \* messages the stream takes before Send blocks  (flow control)
  MaxBreaks    \* how often the network or the server breaks it (bound)

ASSUME SizesAssumption ==
  /\ NumLines \in Nat /\ BufferSize \in Nat \ {0} /\ BatchSize \in Nat \ {0}
  /\ Window \in Nat \ {0} /\ MaxBreaks \in Nat

\* What travels: lines, numbered as printed, the plan summary, the outcome.
Lines == 1..NumLines
Plan == NumLines + 1
Complete == NumLines + 2
Items == 1..Complete

VARIABLES
  main,         \* where Provision is
  printed,      \* lines the entrypoint has printed
  logs,         \* channel logs
  planSummary,  \* channel planSummary holds the summary
  done,         \* channel done is closed
  finished,     \* what is in channel finished
  cancelled,    \* g.cancel() and conn.Close() were called
  result,       \* what Disconnect returned
  supervisor,   \* where supervise, runEpoch and reconnect are
  returnTo,     \* where a Send returns to
  pendingLogs,  \* g.pendingLogs
  pendingPlan,  \* g.pendingPlan is set
  stream,       \* the current stream: up or broken
  receiver,     \* runReceive: running, or it has left its error
  flight,       \* messages handed to the current stream, not yet at the server
  breaks,       \* how often a stream was broken
  accepted,     \* history: the lines SendLog took
  handed,       \* history: the lines Send took, over all streams
  planned,      \* history: SendPlan was called
  planHanded,   \* history: Send took the summary
  completed,    \* history: Send took the outcome
  arrived       \* history: what the server received, over all streams

channels == <<logs, planSummary, done, finished>>
pending == <<pendingLogs, pendingPlan>>
provision == <<main, printed, cancelled, result>>
history == <<accepted, handed, planned, planHanded, completed, arrived>>
network == <<stream, receiver, flight, breaks>>
vars == <<main, printed, logs, planSummary, done, finished, cancelled, result,
          supervisor, returnTo, pendingLogs, pendingPlan, stream, receiver,
          flight, breaks, accepted, handed, planned, planHanded, completed, arrived>>

StatesOK ==
  /\ main \in {"start", "run", "disconnect", "wait", "returned"}
  /\ finished \in {"empty", "nil", "error"}
  /\ result \in {"none", "nil", "error", "timeout"}
  /\ supervisor \in {"none", "flush", "select", "drain", "logs", "plan", "complete",
                     "closing", "failing", "broken", "backoff", "open", "ended"}
  /\ returnTo \in {"flush", "select", "drain"}
  /\ stream \in {"up", "broken"} /\ receiver \in {"running", "done"}
  /\ printed \in 0..NumLines /\ breaks \in 0..MaxBreaks

FlagsOK ==
  /\ planSummary \in BOOLEAN /\ pendingPlan \in BOOLEAN
  /\ done \in BOOLEAN /\ cancelled \in BOOLEAN
  /\ planned \in BOOLEAN /\ planHanded \in BOOLEAN /\ completed \in BOOLEAN

SequencesOK ==
  /\ logs \in Seq(Lines) /\ Len(logs) <= BufferSize
  /\ pendingLogs \in Seq(Lines) /\ Len(pendingLogs) <= BatchSize
  /\ flight \in Seq(Seq(Items)) /\ Len(flight) <= Window
  /\ accepted \in Seq(Lines) /\ handed \in Seq(Lines) /\ arrived \in Seq(Items)

TypeOK == StatesOK /\ FlagsOK /\ SequencesOK

Init ==
  /\ main = "start" /\ printed = 0
  /\ logs = <<>> /\ planSummary = FALSE /\ done = FALSE /\ finished = "empty"
  /\ cancelled = FALSE /\ result = "none"
  /\ supervisor = "none" /\ returnTo = "select"
  /\ pendingLogs = <<>> /\ pendingPlan = FALSE
  /\ stream = "broken" /\ receiver = "done" /\ flight = <<>> /\ breaks = 0
  /\ accepted = <<>> /\ handed = <<>> /\ arrived = <<>>
  /\ planned = FALSE /\ planHanded = FALSE /\ completed = FALSE
------------------------------------------------------------------------------
(***************************************************************************)
(* Provision. connectBackend opens the first stream and starts the         *)
(* supervisor; or fails, and the entrypoint runs without a client; or does *)
(* not connect at all because the command has no step type, and the        *)
(* channels have no reader.                                                *)
(***************************************************************************)
OpenedStream ==
  stream' = "up" /\ receiver' = "running" /\ flight' = <<>> /\ UNCHANGED breaks

Connect ==
  /\ main = "start" /\ main' = "run"
  /\ supervisor' = "flush" /\ OpenedStream
  /\ UNCHANGED <<printed, channels, cancelled, result, returnTo, pending, history>>

ConnectFails ==
  /\ main = "start" /\ main' = "returned" /\ cancelled' = TRUE
  /\ UNCHANGED <<printed, channels, result, supervisor, returnTo, pending,
                 network, history>>

NoStepType ==
  /\ main = "start" /\ main' = "run"
  /\ UNCHANGED <<printed, channels, cancelled, result, supervisor, returnTo,
                 pending, network, history>>

\* Mutant: the line waits for room in the buffer.
SendLogBlocking ==
  /\ main = "run" /\ printed < NumLines /\ printed' = printed + 1
  /\ Len(logs) < BufferSize
  /\ logs' = Append(logs, printed') /\ accepted' = Append(accepted, printed')
  /\ UNCHANGED <<main, planSummary, done, finished, cancelled, result,
                 supervisor, returnTo, pending, network, handed, planned,
                 planHanded, completed, arrived>>

\* streamStdout and SendLog: a line is dropped when the buffer is full.
SendLog ==
  /\ main = "run" /\ printed < NumLines /\ printed' = printed + 1
  /\ IF Len(logs) < BufferSize
     THEN logs' = Append(logs, printed') /\ accepted' = Append(accepted, printed')
     ELSE UNCHANGED <<logs, accepted>>
  /\ UNCHANGED <<main, planSummary, done, finished, cancelled, result,
                 supervisor, returnTo, pending, network, handed, planned,
                 planHanded, completed, arrived>>

\* The entrypoint exits; a plan that succeeded is summarised.
Exits == main = "run" /\ printed = NumLines /\ main' = "disconnect"

SendPlan ==
  /\ Exits /\ supervisor # "none"
  /\ planSummary' = TRUE /\ planned' = TRUE
  /\ UNCHANGED <<printed, logs, done, finished, cancelled, result, supervisor,
                 returnTo, pending, network, accepted, handed, planHanded,
                 completed, arrived>>

NoPlan ==
  /\ Exits
  /\ UNCHANGED <<printed, channels, cancelled, result, supervisor, returnTo,
                 pending, network, history>>

\* It is killed with the context of the wrapper, or fails before its last line.
Killed ==
  /\ main = "run" /\ printed < NumLines /\ main' = "disconnect"
  /\ UNCHANGED <<printed, channels, cancelled, result, supervisor, returnTo,
                 pending, network, history>>

Disconnect ==
  /\ main = "disconnect" /\ main' = "wait" /\ done' = TRUE
  /\ UNCHANGED <<printed, logs, planSummary, finished, cancelled, result,
                 supervisor, returnTo, pending, network, history>>

\* The deferred cancel and Close, once there is an answer or no time left.
DisconnectReturns ==
  /\ main = "wait" /\ main' = "returned" /\ cancelled' = TRUE
  /\ \/ finished # "empty" /\ result' = finished /\ finished' = "empty"
     \/ result' = "timeout" /\ UNCHANGED finished
  /\ UNCHANGED <<printed, logs, planSummary, done, supervisor, returnTo,
                 pending, network, history>>
------------------------------------------------------------------------------
(***************************************************************************)
(* The supervisor. A Send blocks while the stream has no room, takes the   *)
(* message, or fails because the stream is broken; what was being sent     *)
(* stays pending and ends the epoch.                                       *)
(***************************************************************************)
Taken(message) ==
  /\ stream = "up" /\ Len(flight) < Window /\ flight' = Append(flight, message)
  /\ UNCHANGED <<stream, receiver, breaks, accepted, planned, arrived>>

supervision == <<supervisor, returnTo>>

\* Mutant: what the broken stream did not take is forgotten.
FlushNothing ==
  /\ supervisor = "flush" /\ supervisor' = "select" /\ UNCHANGED returnTo
  /\ pendingLogs' = <<>> /\ pendingPlan' = FALSE
  /\ UNCHANGED <<provision, channels, network, history>>

\* flushPending, at the head of runEpoch.
FlushPending ==
  /\ supervisor = "flush"
  /\ supervisor' = (IF pendingLogs # <<>> THEN "logs"
                    ELSE IF pendingPlan THEN "plan" ELSE "select")
  /\ returnTo' = (IF pendingLogs = <<>> /\ ~pendingPlan THEN returnTo ELSE "flush")
  /\ UNCHANGED <<provision, channels, pending, network, history>>

Smaller(x, y) == IF x <= y THEN x ELSE y

\* The cases of the selects of runEpoch and drainPending; drainLogBatch.
TakeLogs ==
  /\ supervisor \in {"select", "drain"} /\ logs # <<>>
  /\ LET size == Smaller(BatchSize, Len(logs))
     IN /\ pendingLogs' = SubSeq(logs, 1, size)
        /\ logs' = SubSeq(logs, size + 1, Len(logs))
  /\ supervisor' = "logs" /\ returnTo' = supervisor
  /\ UNCHANGED <<provision, planSummary, done, finished, pendingPlan, network, history>>

TakePlan ==
  /\ supervisor \in {"select", "drain"} /\ planSummary
  /\ pendingPlan' = TRUE /\ planSummary' = FALSE
  /\ supervisor' = "plan" /\ returnTo' = supervisor
  /\ UNCHANGED <<provision, logs, done, finished, pendingLogs, network, history>>

\* A ping changes nothing, but finds the stream broken.
PingFails ==
  /\ supervisor = "select" /\ stream = "broken"
  /\ supervisor' = "broken" /\ UNCHANGED returnTo
  /\ UNCHANGED <<provision, channels, pending, network, history>>

ReceiveFailed ==
  /\ supervisor = "select" /\ receiver = "done"
  /\ supervisor' = "broken" /\ UNCHANGED returnTo
  /\ UNCHANGED <<provision, channels, pending, network, history>>

\* Mutant: the select's other cases are not drained.
DoneWithoutDrain ==
  /\ supervisor = "select" /\ done
  /\ supervisor' = "complete" /\ UNCHANGED returnTo
  /\ UNCHANGED <<provision, channels, pending, network, history>>

Done ==
  /\ supervisor = "select" /\ done
  /\ supervisor' = "drain" /\ UNCHANGED returnTo
  /\ UNCHANGED <<provision, channels, pending, network, history>>

Drained ==
  /\ supervisor = "drain" /\ logs = <<>> /\ ~planSummary
  /\ supervisor' = "complete" /\ UNCHANGED returnTo
  /\ UNCHANGED <<provision, channels, pending, network, history>>

\* Mutant: a batch stays pending after it was sent.
SendLogBatchKept ==
  /\ supervisor = "logs" /\ Taken(pendingLogs) /\ handed' = handed \o pendingLogs
  /\ supervisor' = returnTo
  /\ UNCHANGED <<pending, returnTo, provision, channels, planHanded, completed>>

SendLogBatch ==
  /\ supervisor = "logs" /\ Taken(pendingLogs) /\ handed' = handed \o pendingLogs
  /\ pendingLogs' = <<>> /\ supervisor' = returnTo
  /\ UNCHANGED <<pendingPlan, returnTo, provision, channels, planHanded, completed>>

SendPlanSummary ==
  /\ supervisor = "plan" /\ Taken(<<Plan>>) /\ planHanded' = TRUE
  /\ pendingPlan' = FALSE /\ supervisor' = returnTo
  /\ UNCHANGED <<pendingLogs, returnTo, provision, channels, handed, completed>>

SendFails ==
  /\ supervisor \in {"logs", "plan"} /\ stream = "broken"
  /\ supervisor' = "broken" /\ UNCHANGED returnTo
  /\ UNCHANGED <<provision, channels, pending, network, history>>

\* sendComplete and CloseSend.
SendComplete ==
  /\ supervisor = "complete" /\ Taken(<<Complete>>) /\ completed' = TRUE
  /\ supervisor' = "closing"
  /\ UNCHANGED <<returnTo, provision, channels, pending, handed, planHanded>>

SendCompleteFails ==
  /\ supervisor = "complete" /\ stream = "broken"
  /\ supervisor' = "failing"
  /\ UNCHANGED <<returnTo, provision, channels, pending, network, history>>

\* The receiver is done, or windDownTimeout has passed.
WindDown ==
  /\ \/ supervisor = "closing" /\ finished' = "nil"
     \/ supervisor = "failing" /\ finished' = "error"
  /\ supervisor' = "ended"
  /\ UNCHANGED <<returnTo, provision, logs, planSummary, done, pending, network, history>>

\* <-recvDone, before reconnect.
StreamBroken ==
  /\ supervisor = "broken" /\ receiver = "done"
  /\ supervisor' = "backoff" /\ UNCHANGED returnTo
  /\ UNCHANGED <<provision, channels, pending, network, history>>

\* reconnect: the backoff is over, or there is nobody left to reconnect for.
GiveUp ==
  /\ supervisor = "backoff" /\ done
  /\ supervisor' = "ended" /\ finished' = "nil" /\ UNCHANGED returnTo
  /\ UNCHANGED <<provision, logs, planSummary, done, pending, network, history>>

BackoffOver ==
  /\ supervisor = "backoff" /\ ~done
  /\ supervisor' = "open" /\ UNCHANGED returnTo
  /\ UNCHANGED <<provision, channels, pending, network, history>>

OpenStream ==
  /\ supervisor = "open" /\ ~cancelled
  /\ supervisor' = "flush" /\ UNCHANGED returnTo /\ OpenedStream
  /\ UNCHANGED <<provision, channels, pending, history>>

\* An error, a wrong answer or no answer within handshakeTimeout.
OpenStreamFails ==
  /\ supervisor = "open"
  /\ supervisor' = "backoff" /\ UNCHANGED returnTo
  /\ UNCHANGED <<provision, channels, pending, network, history>>
------------------------------------------------------------------------------
(***************************************************************************)
(* runReceive ends with the stream. The server takes what arrives, in the  *)
(* order it was sent, or nothing; a broken stream loses what is under way. *)
(***************************************************************************)
ReceiveFails ==
  /\ stream = "broken" /\ receiver = "running" /\ receiver' = "done"
  /\ UNCHANGED <<stream, flight, breaks, provision, channels, supervision,
                 pending, history>>

Arrive ==
  /\ stream = "up" /\ flight # <<>>
  /\ arrived' = arrived \o Head(flight) /\ flight' = Tail(flight)
  /\ UNCHANGED <<stream, receiver, breaks, provision, channels, supervision,
                 pending, accepted, handed, planned, planHanded, completed>>

Break ==
  /\ stream = "up" /\ breaks < MaxBreaks
  /\ stream' = "broken" /\ flight' = <<>> /\ breaks' = breaks + 1
  /\ UNCHANGED <<receiver, provision, channels, supervision, pending, history>>

\* g.cancel() ends the stream as well.
CancelStream ==
  /\ stream = "up" /\ cancelled
  /\ stream' = "broken" /\ flight' = <<>>
  /\ UNCHANGED <<receiver, breaks, provision, channels, supervision, pending, history>>
------------------------------------------------------------------------------
Provision ==
  \/ Connect \/ ConnectFails \/ NoStepType
  \/ SendLog \/ SendPlan \/ NoPlan \/ Disconnect \/ DisconnectReturns

Epoch ==
  \/ FlushPending \/ TakeLogs \/ TakePlan \/ PingFails \/ ReceiveFailed
  \/ Done \/ Drained \/ SendLogBatch \/ SendPlanSummary \/ SendFails
  \/ SendComplete \/ SendCompleteFails \/ WindDown

Reconnect ==
  \/ StreamBroken \/ GiveUp \/ BackoffOver \/ OpenStream \/ OpenStreamFails

Supervise == Epoch \/ Reconnect

\* Provision has returned: its client has nothing left to do.
Returned == main = "returned" /\ supervisor \in {"none", "ended"} /\ receiver = "done"
            /\ UNCHANGED vars

Next ==
  \/ Provision \/ Killed \/ Supervise \/ ReceiveFails \/ Arrive \/ Break
  \/ CancelStream
  \/ Returned

Spec == Init /\ [][Next]_vars

\* The goroutines run, the entrypoint prints and exits, timers fire and a
\* cancelled context ends its stream. Nothing is assumed of the server or the
\* network.
FairSpec ==
  /\ Spec
  /\ WF_vars(Provision) /\ WF_vars(Supervise)
  /\ WF_vars(ReceiveFails) /\ WF_vars(CancelStream)
------------------------------------------------------------------------------
(***************************************************************************)
(* Properties                                                              *)
(***************************************************************************)
\* Each line SendLog took is in one place, in its order, however often the
\* stream breaks: handed to a stream once, pending, or buffered (the comment
\* on pendingLogs).
EveryLineOnce == handed \o pendingLogs \o logs = accepted

\* The outcome is handed over when all that was sent before Disconnect has
\* been (what drainPending is for).
CompleteComesLast ==
  completed => handed = accepted /\ pendingLogs = <<>> /\ (planned => planHanded)

\* On a stream that never broke the server has all of it when it has the
\* outcome.
Has(item) == \E i \in DOMAIN arrived : arrived[i] = item
AllArrived ==
  /\ \A i \in DOMAIN accepted : Has(accepted[i])
  /\ planned => Has(Plan)
UnbrokenStreamDelivers == breaks = 0 /\ Has(Complete) => AllArrived

\* Provisioning does not depend on the backend: whatever the network and the
\* server do, Provision returns, and it leaves no goroutine behind.
ProvisionEnds ==
  <>(main = "returned" /\ supervisor \in {"none", "ended"} /\ receiver = "done")
==============================================================================
