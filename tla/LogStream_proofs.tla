--------------------------- MODULE LogStream_proofs ---------------------------
(***************************************************************************)
(* Theorems about LogStream, for buffers, batches and windows of any size, *)
(* any number of lines and any number of broken streams; and that it       *)
(* implements LogDelivery.                                                 *)
(***************************************************************************)
EXTENDS MCLogStream, SequenceTheorems, TLAPS

\* The steps of the system, by what they leave alone.
LEMMA NextCases ==
  ASSUME [Next]_vars
  PROVE  \/ Provision \/ Killed \/ Epoch \/ Reconnect
         \/ ReceiveFails \/ Arrive \/ Break \/ CancelStream \/ UNCHANGED vars
BY DEF Next, Supervise, Returned

(***************************************************************************)
(* The states of the goroutines                                            *)
(***************************************************************************)
LEMMA PrintedStep ==
  ASSUME StatesOK, SendLog
  PROVE  printed' \in 0..NumLines
<1>1. printed < NumLines /\ printed' = printed + 1
  BY DEF SendLog
<1> QED BY <1>1, SizesAssumption DEF StatesOK

LEMMA BreaksStep ==
  ASSUME StatesOK, Break
  PROVE  breaks' \in 0..MaxBreaks
<1>1. breaks < MaxBreaks /\ breaks' = breaks + 1
  BY DEF Break
<1> QED BY <1>1, SizesAssumption DEF StatesOK

LEMMA StatesStep ==
  ASSUME StatesOK, [Next]_vars
  PROVE  StatesOK'
<1>1. CASE Connect \/ ConnectFails \/ NoStepType
  BY <1>1 DEF Connect, ConnectFails, NoStepType, OpenedStream, StatesOK,
              provision, channels, pending, history, network
<1>2. CASE SendLog
  BY <1>2, PrintedStep DEF SendLog, StatesOK, pending, network
<1>3. CASE SendPlan
  BY <1>3 DEF SendPlan, Exits, StatesOK, pending, network
<1>4. CASE NoPlan \/ Killed
  BY <1>4 DEF NoPlan, Killed, Exits, StatesOK, channels, pending, history, network
<1>5. CASE Disconnect \/ DisconnectReturns
  BY <1>5 DEF Disconnect, DisconnectReturns, StatesOK, pending, history, network
<1>6. CASE Epoch
  BY <1>6 DEF Epoch, FlushPending, TakeLogs, TakePlan, PingFails, ReceiveFailed,
              Done, Drained, SendLogBatch, SendPlanSummary, SendFails, SendComplete,
              SendCompleteFails, WindDown, Taken, StatesOK, provision, channels,
              pending, history, network
<1>7. CASE Reconnect
  BY <1>7 DEF Reconnect, StreamBroken, GiveUp, BackoffOver, OpenStream,
              OpenStreamFails, OpenedStream, StatesOK, provision, channels,
              pending, history, network
<1>8. CASE Break
  BY <1>8, BreaksStep DEF Break, StatesOK, provision, channels, supervision, pending, history
<1>9. CASE ReceiveFails \/ Arrive \/ CancelStream
  BY <1>9 DEF ReceiveFails, Arrive, CancelStream, StatesOK, provision, channels,
              supervision, pending, history
<1>10. CASE UNCHANGED vars
  BY <1>10 DEF vars, StatesOK
<1> QED BY NextCases, <1>1, <1>2, <1>3, <1>4, <1>5, <1>6, <1>7, <1>8, <1>9, <1>10
        DEF Provision

LEMMA FlagsStep ==
  ASSUME FlagsOK, [Next]_vars
  PROVE  FlagsOK'
<1>1. CASE Provision \/ Killed
  <2>1. CASE Connect \/ ConnectFails \/ NoStepType
    BY <2>1 DEF Connect, ConnectFails, NoStepType, FlagsOK, channels, pending, history
  <2>2. CASE SendLog \/ SendPlan \/ NoPlan \/ Killed
    BY <2>2 DEF SendLog, SendPlan, NoPlan, Exits, Killed, FlagsOK, channels, pending, history
  <2>3. CASE Disconnect \/ DisconnectReturns
    BY <2>3 DEF Disconnect, DisconnectReturns, FlagsOK, channels, pending, history
  <2> QED BY <1>1, <2>1, <2>2, <2>3 DEF Provision
<1>2. CASE Epoch
  <2>1. CASE FlushPending \/ TakeLogs \/ TakePlan \/ PingFails
    BY <2>1 DEF FlushPending, TakeLogs, TakePlan, PingFails, FlagsOK, provision, channels,
                pending, history
  <2>2. CASE ReceiveFailed \/ Done \/ Drained \/ SendFails
    BY <2>2 DEF ReceiveFailed, Done, Drained, SendFails, FlagsOK, provision, channels,
                pending, history
  <2>3. CASE SendLogBatch \/ SendPlanSummary \/ SendComplete
    BY <2>3 DEF SendLogBatch, SendPlanSummary, SendComplete, Taken, FlagsOK, provision,
                channels, pending
  <2>4. CASE SendCompleteFails \/ WindDown
    BY <2>4 DEF SendCompleteFails, WindDown, FlagsOK, provision, channels, pending, history
  <2> QED BY <1>2, <2>1, <2>2, <2>3, <2>4 DEF Epoch
<1>3. CASE Reconnect
  BY <1>3 DEF Reconnect, StreamBroken, GiveUp, BackoffOver, OpenStream,
              OpenStreamFails, FlagsOK, provision, channels, pending, history
<1>4. CASE ReceiveFails \/ Arrive \/ Break \/ CancelStream
  BY <1>4 DEF ReceiveFails, Arrive, Break, CancelStream, FlagsOK, provision, channels,
              pending, history
<1>5. CASE UNCHANGED vars
  BY <1>5 DEF vars, FlagsOK
<1> QED BY NextCases, <1>1, <1>2, <1>3, <1>4, <1>5

(***************************************************************************)
(* The sequences: channels, batches, the stream and the histories          *)
(***************************************************************************)
LEMMA LinesAreItems == Seq(Lines) \subseteq Seq(Items)
BY SizesAssumption, SeqMonotonic DEF Lines, Items, Complete

\* What the stream takes is one more message in flight.
LEMMA TakenType ==
  ASSUME SequencesOK, NEW message \in Seq(Items), Taken(message)
  PROVE  flight' \in Seq(Seq(Items)) /\ Len(flight') <= Window
BY SizesAssumption, AppendProperties, LenProperties DEF Taken, SequencesOK

\* drainLogBatch: a batch is the head of the buffer, the buffer its rest.
LEMMA TakeLogsSplits ==
  ASSUME SequencesOK, TakeLogs
  PROVE  /\ logs' \in Seq(Lines) /\ Len(logs') <= BufferSize
         /\ pendingLogs' \in Seq(Lines) /\ Len(pendingLogs') <= BatchSize
         /\ pendingLogs' \o logs' = logs
<1> DEFINE size == Smaller(BatchSize, Len(logs))
<1>1. Len(logs) \in Nat \ {0} /\ \A i \in 1..Len(logs) : logs[i] \in Lines
  BY EmptySeq, ElementOfSeq DEF SequencesOK, TakeLogs
<1>2. size \in 1..Len(logs) /\ size <= BatchSize
  BY <1>1, SizesAssumption DEF Smaller
<1>3. pendingLogs' = SubSeq(logs, 1, size) /\ logs' = SubSeq(logs, size + 1, Len(logs))
  BY DEF TakeLogs
<1> HIDE DEF size
<1>4. pendingLogs' \in Seq(Lines) /\ Len(pendingLogs') = size
  BY <1>1, <1>2, <1>3, SubSeqProperties
<1>5. logs' \in Seq(Lines) /\ Len(logs') <= Len(logs)
  BY <1>1, <1>2, <1>3, SubSeqProperties
<1>6. pendingLogs' \o logs' = SubSeq(logs, 1, Len(logs))
  BY <1>1, <1>2, <1>3, ConcatAdjacentSubSeq DEF SequencesOK
<1>7. SubSeq(logs, 1, Len(logs)) = logs
  BY SubSeqFull DEF SequencesOK
<1>8. Len(logs') <= BufferSize
  BY <1>1, <1>5, LenProperties, SizesAssumption DEF SequencesOK
<1> QED BY <1>2, <1>4, <1>5, <1>6, <1>7, <1>8

LEMMA SequencesStep ==
  ASSUME TypeOK, [Next]_vars
  PROVE  SequencesOK'
<1> USE DEF TypeOK
<1>1. CASE Connect \/ OpenStream
  <2>1. flight' = <<>> /\ UNCHANGED <<logs, pendingLogs, accepted, handed, arrived>>
    BY <1>1 DEF Connect, OpenStream, OpenedStream, channels, pending, history
  <2> QED BY <2>1, SizesAssumption, EmptySeq DEF SequencesOK
<1>2. CASE SendLog
  <2>1. printed' \in Lines
    <3>1. printed < NumLines /\ printed' = printed + 1
      BY <1>2 DEF SendLog
    <3> QED BY <3>1, SizesAssumption DEF StatesOK, Lines
  <2>2. Append(logs, printed') \in Seq(Lines) /\ Append(accepted, printed') \in Seq(Lines)
    BY <2>1, AppendProperties DEF SequencesOK
  <2>3. Len(Append(logs, printed')) = Len(logs) + 1 /\ Len(logs) \in Nat
    BY <2>1, AppendProperties, LenProperties DEF SequencesOK
  <2>4. /\ logs' \in {logs, Append(logs, printed')}
        /\ accepted' \in {accepted, Append(accepted, printed')}
        /\ logs' # logs => Len(logs) < BufferSize
        /\ UNCHANGED <<pendingLogs, flight, handed, arrived>>
    BY <1>2 DEF SendLog, pending, network
  <2>5. logs' \in Seq(Lines) /\ Len(logs') <= BufferSize
    <3>1. CASE logs' = logs
      BY <3>1 DEF SequencesOK
    <3>2. CASE logs' # logs
      BY <2>2, <2>3, <2>4, <3>2, SizesAssumption
    <3> QED BY <3>1, <3>2
  <2> QED BY <2>2, <2>4, <2>5 DEF SequencesOK
<1>3. CASE TakeLogs
  BY <1>3, TakeLogsSplits DEF TakeLogs, SequencesOK, network, history
<1>4. CASE SendLogBatch
  <2>1. handed \o pendingLogs \in Seq(Lines)
    BY ConcatProperties DEF SequencesOK
  <2>2. pendingLogs \in Seq(Items)
    BY LinesAreItems DEF SequencesOK
  <2>3. <<>> \in Seq(Lines) /\ Len(<<>>) <= BatchSize
    BY EmptySeq, SizesAssumption
  <2>4. flight' \in Seq(Seq(Items)) /\ Len(flight') <= Window
    BY <1>4, <2>2, TakenType DEF SendLogBatch
  <2> QED BY <1>4, <2>1, <2>3, <2>4 DEF SendLogBatch, Taken, SequencesOK, channels
<1>5. CASE SendPlanSummary
  <2>1. <<Plan>> \in Seq(Items)
    BY SizesAssumption DEF Items, Plan, Complete
  <2>2. flight' \in Seq(Seq(Items)) /\ Len(flight') <= Window
    BY <1>5, <2>1, TakenType DEF SendPlanSummary
  <2> QED BY <1>5, <2>2 DEF SendPlanSummary, Taken, SequencesOK, channels
<1>6. CASE SendComplete
  <2>1. <<Complete>> \in Seq(Items)
    BY SizesAssumption DEF Items, Complete
  <2>2. flight' \in Seq(Seq(Items)) /\ Len(flight') <= Window
    BY <1>6, <2>1, TakenType DEF SendComplete
  <2> QED BY <1>6, <2>2 DEF SendComplete, Taken, SequencesOK, channels, pending
<1>7. CASE Arrive
  <2>1. /\ Head(flight) \in Seq(Items) /\ Tail(flight) \in Seq(Seq(Items))
        /\ Len(Tail(flight)) = Len(flight) - 1 /\ Len(flight) \in Nat
    BY <1>7, HeadTailProperties, LenProperties DEF Arrive, SequencesOK
  <2>2. arrived \o Head(flight) \in Seq(Items)
    BY <2>1, ConcatProperties DEF SequencesOK
  <2> QED BY <1>7, <2>1, <2>2, SizesAssumption DEF Arrive, SequencesOK, channels, pending
<1>8. CASE Break \/ CancelStream
  <2>1. flight' = <<>> /\ UNCHANGED <<logs, pendingLogs, accepted, handed, arrived>>
    BY <1>8 DEF Break, CancelStream, channels, pending, history
  <2> QED BY <2>1, SizesAssumption, EmptySeq DEF SequencesOK
<1>9. UNCHANGED <<logs, pendingLogs, flight, accepted, handed, arrived>> => SequencesOK'
  BY DEF SequencesOK
<1>10. CASE ConnectFails \/ NoStepType \/ SendPlan \/ NoPlan \/ Killed \/ Disconnect
            \/ DisconnectReturns
  BY <1>9, <1>10 DEF ConnectFails, NoStepType, SendPlan, NoPlan, Killed, Disconnect,
       DisconnectReturns, channels, pending, network, history
<1>11. CASE FlushPending \/ TakePlan \/ PingFails \/ ReceiveFailed \/ Done \/ Drained
            \/ SendFails \/ SendCompleteFails \/ WindDown
  BY <1>9, <1>11 DEF FlushPending, TakePlan, PingFails, ReceiveFailed, Done, Drained,
       SendFails, SendCompleteFails, WindDown, channels, pending, network, history
<1>12. CASE StreamBroken \/ GiveUp \/ BackoffOver \/ OpenStreamFails \/ ReceiveFails
  BY <1>9, <1>12 DEF StreamBroken, GiveUp, BackoffOver, OpenStreamFails, ReceiveFails,
       channels, pending, network, history
<1>13. CASE UNCHANGED vars
  BY <1>9, <1>13 DEF vars
<1> QED BY NextCases, <1>1, <1>2, <1>3, <1>4, <1>5, <1>6, <1>7, <1>8, <1>10, <1>11,
           <1>12, <1>13 DEF Provision, Epoch, Reconnect

LEMMA TypeInit == Init => TypeOK
<1> SUFFICES ASSUME Init PROVE TypeOK
  OBVIOUS
<1>1. StatesOK
  BY SizesAssumption DEF Init, StatesOK
<1>2. FlagsOK
  BY DEF Init, FlagsOK
<1>3. SequencesOK
  <2>1. \A S : <<>> \in Seq(S) /\ Len(<<>>) = 0
    BY EmptySeq
  <2> QED BY <2>1, SizesAssumption DEF Init, SequencesOK
<1> QED BY <1>1, <1>2, <1>3 DEF TypeOK

\* Channels, batches and the stream's window keep their bounds, whatever they
\* are (SendLog, drainLogBatch, Send).
THEOREM TypeCorrect == Spec => []TypeOK
<1>1. TypeOK /\ [Next]_vars => TypeOK'
  BY StatesStep, FlagsStep, SequencesStep DEF TypeOK
<1> QED BY <1>1, TypeInit, PTL DEF Spec
------------------------------------------------------------------------------
(***************************************************************************)
(* Nothing is lost on the way to Send, and the outcome comes last          *)
(***************************************************************************)
\* Where the supervisor is tells what it may still hold.
SupervisorInv ==
  /\ supervisor \in {"none", "select", "drain", "complete", "closing", "failing"} =>
       pendingLogs = <<>> /\ ~pendingPlan
  /\ supervisor = "plan" => pendingLogs = <<>> /\ pendingPlan
  /\ supervisor = "logs" => ~pendingPlan
  /\ pendingPlan => pendingLogs = <<>>
  /\ main = "start" => supervisor = "none"
  /\ main \in {"start", "run", "disconnect"} => ~done
  /\ supervisor = "drain" \/ (returnTo = "drain" /\ supervisor \in {"logs", "plan"}) => done
  /\ supervisor \in {"complete", "closing", "failing"} => done /\ logs = <<>> /\ ~planSummary
  /\ completed => done /\ supervisor \in {"closing", "ended"}

PlanKept == planned => planSummary \/ pendingPlan \/ planHanded

NothingLeft == completed => logs = <<>> /\ pendingLogs = <<>> /\ ~planSummary /\ ~pendingPlan

SendingInv == TypeOK /\ EveryLineOnce /\ SupervisorInv /\ PlanKept /\ NothingLeft

LEMMA EveryLineOnceStep ==
  ASSUME TypeOK, SupervisorInv, EveryLineOnce, [Next]_vars
  PROVE  EveryLineOnce'
<1> USE DEF TypeOK, SequencesOK
<1>1. CASE SendLog
  <2>1. CASE logs' = logs /\ accepted' = accepted
    BY <1>1, <2>1 DEF SendLog, EveryLineOnce, pending
  <2>2. CASE logs' = Append(logs, printed') /\ accepted' = Append(accepted, printed')
    <3> DEFINE line == printed'
               before == handed \o pendingLogs
    <3>1. line \in Lines
      <4>1. printed < NumLines /\ line = printed + 1
        BY <1>1 DEF SendLog
      <4> QED BY <4>1, SizesAssumption DEF StatesOK, Lines
    <3>2. before \in Seq(Lines) /\ <<line>> \in Seq(Lines)
      BY <3>1, ConcatProperties
    <3>3. logs' = logs \o <<line>> /\ accepted' = accepted \o <<line>>
      BY <2>2, <3>1, AppendIsConcat
    <3>4. handed' \o pendingLogs' = before
      BY <1>1 DEF SendLog, pending
    <3>5. before \o logs = accepted
      BY DEF EveryLineOnce
    <3>6. before \o (logs \o <<line>>) = (before \o logs) \o <<line>>
      <4> HIDE DEF before, line
      <4> QED BY <3>2, ConcatAssociative
    <3> QED BY <3>3, <3>4, <3>5, <3>6 DEF EveryLineOnce
  <2> QED BY <1>1, <2>1, <2>2 DEF SendLog
<1>2. CASE TakeLogs
  <2>1. pendingLogs = <<>> /\ handed' = handed /\ accepted' = accepted
    BY <1>2 DEF TakeLogs, SupervisorInv, history
  <2>2. /\ pendingLogs' \in Seq(Lines) /\ logs' \in Seq(Lines)
        /\ pendingLogs' \o logs' = logs
    BY <1>2, TakeLogsSplits
  <2>3. (handed \o pendingLogs') \o logs' = handed \o (pendingLogs' \o logs')
    <3>1. handed \in Seq(Lines)
      OBVIOUS
    <3> DEFINE batch == pendingLogs'
               rest == logs'
    <3>2. batch \in Seq(Lines) /\ rest \in Seq(Lines)
      BY <2>2
    <3> HIDE DEF batch, rest, SequencesOK, TypeOK
    <3>3. (handed \o batch) \o rest = handed \o (batch \o rest)
      BY <3>1, <3>2, ConcatAssociative
    <3> QED BY <3>3 DEF batch, rest
  <2>4. handed \o pendingLogs = handed
    BY <2>1, ConcatEmptySeq
  <2> QED BY <2>1, <2>2, <2>3, <2>4 DEF EveryLineOnce
<1>3. CASE SendLogBatch
  <2>1. /\ handed' = handed \o pendingLogs /\ pendingLogs' = <<>>
        /\ logs' = logs /\ accepted' = accepted
    BY <1>3 DEF SendLogBatch, Taken, channels
  <2>2. handed \o pendingLogs \in Seq(Lines)
    BY ConcatProperties
  <2>3. (handed \o pendingLogs) \o <<>> = handed \o pendingLogs
    BY <2>2, ConcatEmptySeq
  <2> QED BY <2>1, <2>3 DEF EveryLineOnce
<1>4. UNCHANGED <<logs, pendingLogs, handed, accepted>> => EveryLineOnce'
  BY DEF EveryLineOnce
<1>5. CASE Connect \/ ConnectFails \/ NoStepType \/ SendPlan \/ NoPlan \/ Killed \/ Disconnect
            \/ DisconnectReturns
  BY <1>4, <1>5 DEF Connect, ConnectFails, NoStepType, SendPlan, NoPlan, Killed,
       Disconnect, DisconnectReturns, channels, pending, history
<1>6. CASE FlushPending \/ TakePlan \/ PingFails \/ ReceiveFailed \/ Done \/ Drained
            \/ SendFails \/ SendCompleteFails \/ WindDown
  BY <1>4, <1>6 DEF FlushPending, TakePlan, PingFails, ReceiveFailed, Done, Drained,
       SendFails, SendCompleteFails, WindDown, channels, pending, history
<1>7. CASE SendPlanSummary \/ SendComplete
  BY <1>4, <1>7 DEF SendPlanSummary, SendComplete, Taken, channels, pending
<1>8. CASE Reconnect
  BY <1>4, <1>8 DEF Reconnect, StreamBroken, GiveUp, BackoffOver, OpenStream,
       OpenStreamFails, channels, pending, history
<1>9. CASE ReceiveFails \/ Arrive \/ Break \/ CancelStream
  BY <1>4, <1>9 DEF ReceiveFails, Arrive, Break, CancelStream, channels, pending, history
<1>10. CASE UNCHANGED vars
  BY <1>4, <1>10 DEF vars
<1> QED BY NextCases, <1>1, <1>2, <1>3, <1>5, <1>6, <1>7, <1>8, <1>9, <1>10
        DEF Provision, Epoch

LEMMA SupervisorStep ==
  ASSUME TypeOK, SupervisorInv, PlanKept, NothingLeft, [Next]_vars
  PROVE  SupervisorInv' /\ PlanKept' /\ NothingLeft'
<1> USE DEF SupervisorInv, PlanKept, NothingLeft
<1>1. CASE Provision \/ Killed
  BY <1>1 DEF Provision, Connect, ConnectFails, NoStepType, SendLog, SendPlan, NoPlan,
              Exits, Killed, Disconnect, DisconnectReturns, channels, pending, history
<1>2. CASE FlushPending \/ PingFails \/ ReceiveFailed \/ Done \/ Drained \/ SendFails
           \/ SendCompleteFails
  BY <1>2 DEF FlushPending, PingFails, ReceiveFailed, Done, Drained, SendFails,
              SendCompleteFails, provision, channels, pending, history
<1>6. CASE TakeLogs
  BY <1>6 DEF TakeLogs, provision, history
<1>7. CASE TakePlan
  BY <1>7 DEF TakePlan, provision, history
<1>8. CASE SendLogBatch
  BY <1>8 DEF SendLogBatch, Taken, provision, channels, TypeOK, StatesOK
<1>9. CASE SendPlanSummary
  BY <1>9 DEF SendPlanSummary, Taken, provision, channels, TypeOK, StatesOK
<1>10. CASE SendComplete
  BY <1>10 DEF SendComplete, Taken, provision, channels, pending
<1>11. CASE WindDown
  BY <1>11 DEF WindDown, provision, pending, history
<1>3. CASE Reconnect
  BY <1>3 DEF Reconnect, StreamBroken, GiveUp, BackoffOver, OpenStream,
              OpenStreamFails, provision, channels, pending, history
<1>4. CASE ReceiveFails \/ Arrive \/ Break \/ CancelStream
  BY <1>4 DEF ReceiveFails, Arrive, Break, CancelStream, provision, channels,
              supervision, pending, history
<1>5. CASE UNCHANGED vars
  BY <1>5 DEF vars
<1> QED BY NextCases, <1>1, <1>2, <1>3, <1>4, <1>5, <1>6, <1>7, <1>8, <1>9, <1>10, <1>11
        DEF Epoch

LEMMA SendingCorrect == Spec => []SendingInv
<1>1. Init => SendingInv
  <2> SUFFICES ASSUME Init PROVE SendingInv
    OBVIOUS
  <2>1. EveryLineOnce
    BY DEF Init, EveryLineOnce
  <2>2. SupervisorInv /\ PlanKept /\ NothingLeft
    BY DEF Init, SupervisorInv, PlanKept, NothingLeft
  <2> QED BY <2>1, <2>2, TypeInit DEF SendingInv
<1>2. SendingInv /\ [Next]_vars => SendingInv'
  BY StatesStep, FlagsStep, SequencesStep, EveryLineOnceStep, SupervisorStep
     DEF SendingInv, TypeOK
<1> QED BY <1>1, <1>2, PTL DEF Spec

\* Each line SendLog took is handed to a stream once and in order, pending or
\* buffered, for any sizes and however often the stream breaks.
THEOREM LinesKept == Spec => []EveryLineOnce
<1>1. SendingInv => EveryLineOnce
  BY DEF SendingInv
<1> QED BY <1>1, SendingCorrect, PTL

\* The outcome is handed over when everything was (drainPending).
LEMMA OutcomeIsLast ==
  ASSUME SendingInv
  PROVE  CompleteComesLast
<1> SUFFICES ASSUME completed PROVE CompleteComesLast
  BY DEF CompleteComesLast
<1>1. logs = <<>> /\ pendingLogs = <<>> /\ (planned => planHanded)
  BY DEF SendingInv, NothingLeft, PlanKept
<1>2. (handed \o <<>>) \o <<>> = handed
  BY ConcatEmptySeq DEF SendingInv, TypeOK, SequencesOK
<1> QED BY <1>1, <1>2 DEF SendingInv, EveryLineOnce, CompleteComesLast

\* ExecutionComplete is handed over after every line and the plan summary.
THEOREM OutcomeLast == Spec => []CompleteComesLast
BY OutcomeIsLast, SendingCorrect, PTL
------------------------------------------------------------------------------
(***************************************************************************)
(* What is on the wire: in order, sent by the supervisor, and on a stream  *)
(* that never broke all of it                                              *)
(***************************************************************************)
\* What the server may receive after what: lines go up, the summary comes
\* once, nothing follows the outcome.
Before(x, y) ==
  /\ x # Complete
  /\ x \in Lines /\ y \in Lines => x < y
  /\ x = Plan => y # Plan

InOrder(items) == \A i, j \in DOMAIN items : i < j => Before(items[i], items[j])
AllBefore(items, others) ==
  \A i \in DOMAIN items, j \in DOMAIN others : Before(items[i], others[j])

OrderInv ==
  /\ InOrder(arrived)
  /\ \A m \in DOMAIN flight : /\ flight[m] # <<>> /\ InOrder(flight[m])
                              /\ AllBefore(arrived, flight[m])
  /\ \A m, n \in DOMAIN flight : m < n => AllBefore(flight[m], flight[n])

\* Whatever travels was handed over.
WasHanded(line) == \E k \in DOMAIN handed : handed[k] = line
Sent(item) ==
  /\ item \in Lines => WasHanded(item)
  /\ item = Plan => planHanded
  /\ item = Complete => completed
AllSent(items) == \A i \in DOMAIN items : Sent(items[i])

OriginInv == AllSent(arrived) /\ \A m \in DOMAIN flight : AllSent(flight[m])

\* Lines are taken as they are printed, and the summary is in one place.
Rising(lines) == \A i, j \in DOMAIN lines : i < j => lines[i] < lines[j]
TakenInv == Rising(accepted) /\ \A i \in DOMAIN accepted : accepted[i] <= printed

PlanInv ==
  /\ main \in {"start", "run"} => ~planned
  /\ planSummary => planned /\ ~pendingPlan /\ ~planHanded
  /\ pendingPlan => planned /\ ~planHanded
  /\ planHanded => planned

\* Where the supervisor is tells what it knows of the stream.
StreamInv ==
  /\ supervisor = "none" => handed = <<>> /\ ~planHanded
  /\ supervisor = "logs" => pendingLogs # <<>>
  /\ receiver = "done" \/ supervisor \in {"broken", "backoff", "open"} => stream = "broken"
  /\ breaks = 0 /\ supervisor # "none" /\ ~cancelled => stream = "up"

\* A stream that never broke has all that was handed over.
OnWay(item) == \E m \in DOMAIN flight : \E i \in DOMAIN flight[m] : flight[m][i] = item
OnWire(item) == Has(item) \/ OnWay(item)
NothingLost ==
  breaks = 0 /\ stream = "up" =>
    /\ \A k \in DOMAIN handed : OnWire(handed[k])
    /\ planHanded => OnWire(Plan)

WireInv == TakenInv /\ PlanInv /\ StreamInv /\ OriginInv /\ OrderInv /\ NothingLost

LEMMA ItemKinds ==
  /\ Plan \notin Lines /\ Complete \notin Lines /\ Plan # Complete
  /\ \A item \in Items : item \in Lines \/ item = Plan \/ item = Complete
  /\ Lines \subseteq Items /\ Lines \subseteq Nat
BY SizesAssumption DEF Lines, Items, Plan, Complete

LEMMA EmptyIsOrdered ==
  /\ InOrder(<<>>) /\ AllSent(<<>>)
  /\ \A items : AllBefore(<<>>, items) /\ AllBefore(items, <<>>)
BY DEF InOrder, AllSent, AllBefore

\* An entry of a concatenation is one of its parts'.
LEMMA ConcatEntries ==
  ASSUME NEW S, NEW s \in Seq(S), NEW t \in Seq(S), NEW i \in DOMAIN (s \o t)
  PROVE  \/ i \in DOMAIN s /\ (s \o t)[i] = s[i]
         \/ /\ i > Len(s) /\ i - Len(s) \in DOMAIN t
            /\ (s \o t)[i] = t[i - Len(s)]
<1>1. /\ DOMAIN s = 1..Len(s) /\ DOMAIN t = 1..Len(t)
      /\ DOMAIN (s \o t) = 1..(Len(s) + Len(t))
      /\ Len(s) \in Nat /\ Len(t) \in Nat
      /\ (s \o t)[i] = IF i <= Len(s) THEN s[i] ELSE t[i - Len(s)]
  BY ConcatProperties, LenProperties
<1> QED BY <1>1

\* And every entry of the parts is one of the concatenation's.
LEMMA PartsEntries ==
  ASSUME NEW S, NEW s \in Seq(S), NEW t \in Seq(S)
  PROVE  /\ \A i \in DOMAIN s : i \in DOMAIN (s \o t) /\ (s \o t)[i] = s[i]
         /\ \A i \in DOMAIN t : /\ Len(s) + i \in DOMAIN (s \o t)
                                /\ (s \o t)[Len(s) + i] = t[i]
<1>1. /\ DOMAIN s = 1..Len(s) /\ DOMAIN t = 1..Len(t)
      /\ DOMAIN (s \o t) = 1..(Len(s) + Len(t))
      /\ Len(s) \in Nat /\ Len(t) \in Nat
      /\ \A i \in 1..(Len(s) + Len(t)) :
           (s \o t)[i] = IF i <= Len(s) THEN s[i] ELSE t[i - Len(s)]
  BY ConcatProperties, LenProperties
<1> QED BY <1>1

LEMMA ConcatInOrder ==
  ASSUME NEW s \in Seq(Items), NEW t \in Seq(Items),
         InOrder(s), InOrder(t), AllBefore(s, t)
  PROVE  InOrder(s \o t)
<1> SUFFICES ASSUME NEW i \in DOMAIN (s \o t), NEW j \in DOMAIN (s \o t), i < j
             PROVE  Before((s \o t)[i], (s \o t)[j])
  BY DEF InOrder
<1>1. /\ DOMAIN s = 1..Len(s) /\ Len(s) \in Nat
      /\ DOMAIN (s \o t) = 1..(Len(s) + Len(t)) /\ Len(t) \in Nat
  BY ConcatProperties, LenProperties
<1>2. CASE i \in DOMAIN s /\ (s \o t)[i] = s[i]
  <2>1. CASE j \in DOMAIN s /\ (s \o t)[j] = s[j]
    BY <1>2, <2>1 DEF InOrder
  <2>2. CASE j - Len(s) \in DOMAIN t /\ (s \o t)[j] = t[j - Len(s)]
    BY <1>2, <2>2 DEF AllBefore
  <2> QED BY <2>1, <2>2, ConcatEntries
<1>3. CASE /\ i > Len(s) /\ i - Len(s) \in DOMAIN t
           /\ (s \o t)[i] = t[i - Len(s)]
  <2>1. j - Len(s) \in DOMAIN t /\ (s \o t)[j] = t[j - Len(s)]
    <3>1. j \notin DOMAIN s
      BY <1>1, <1>3
    <3> QED BY <3>1, ConcatEntries
  <2>2. i - Len(s) < j - Len(s)
    BY <1>1
  <2> QED BY <1>3, <2>1, <2>2 DEF InOrder
<1> QED BY <1>2, <1>3, ConcatEntries

LEMMA ConcatBefore ==
  ASSUME NEW s \in Seq(Items), NEW t \in Seq(Items), NEW u,
         AllBefore(s, u), AllBefore(t, u)
  PROVE  AllBefore(s \o t, u)
BY ConcatEntries DEF AllBefore

LEMMA ConcatSent ==
  ASSUME NEW s \in Seq(Items), NEW t \in Seq(Items), AllSent(s), AllSent(t)
  PROVE  AllSent(s \o t)
BY ConcatEntries DEF AllSent

\* The entries of a stream that took one more message, and of one whose first
\* message arrived.
LEMMA FlightEntries ==
  ASSUME NEW S, NEW s \in Seq(S), NEW message \in S
  PROVE  /\ DOMAIN s \subseteq DOMAIN Append(s, message)
         /\ DOMAIN Append(s, message) = (DOMAIN s) \cup {Len(s) + 1}
         /\ \A m \in DOMAIN s : Append(s, message)[m] = s[m] /\ m < Len(s) + 1
         /\ Append(s, message)[Len(s) + 1] = message
         /\ Len(s) \in Nat /\ DOMAIN s = 1..Len(s)
<1>1. /\ DOMAIN s = 1..Len(s) /\ Len(s) \in Nat
      /\ DOMAIN Append(s, message) = 1..(Len(s) + 1)
      /\ \A m \in 1..Len(s) : Append(s, message)[m] = s[m]
      /\ Append(s, message)[Len(s) + 1] = message
  BY AppendProperties, LenProperties
<1> QED BY <1>1

LEMMA RestEntries ==
  ASSUME NEW S, NEW s \in Seq(S), s # <<>>
  PROVE  /\ 1 \in DOMAIN s /\ Head(s) = s[1] /\ Head(s) \in S /\ Tail(s) \in Seq(S)
         /\ \A m \in DOMAIN Tail(s) : m + 1 \in DOMAIN s /\ Tail(s)[m] = s[m + 1] /\ 1 < m + 1
         /\ \A m \in DOMAIN s : m = 1 \/ (m - 1 \in DOMAIN Tail(s) /\ Tail(s)[m - 1] = s[m])
         /\ DOMAIN Tail(s) \subseteq Nat
<1>1. /\ DOMAIN s = 1..Len(s) /\ Len(s) \in Nat \ {0}
      /\ Head(s) = s[1] /\ Head(s) \in S /\ Tail(s) \in Seq(S)
      /\ DOMAIN Tail(s) = 1..(Len(s) - 1)
      /\ \A m \in 1..(Len(s) - 1) : Tail(s)[m] = s[m + 1]
  BY HeadTailProperties, LenProperties, EmptySeq, ElementOfSeq
<1> QED BY <1>1

(***************************************************************************)
(* What is taken and where the supervisor is                               *)
(***************************************************************************)
\* What the comment on pendingLogs asks for, put on the order of the lines.
LEMMA PendingLater ==
  ASSUME TypeOK, EveryLineOnce, TakenInv
  PROVE  /\ \A k \in DOMAIN handed, i \in DOMAIN pendingLogs : handed[k] < pendingLogs[i]
         /\ \A i, j \in DOMAIN pendingLogs : i < j => pendingLogs[i] < pendingLogs[j]
         /\ \A k \in DOMAIN handed : \E i \in DOMAIN accepted : accepted[i] = handed[k]
<1> DEFINE sent == handed \o pendingLogs
<1>1. handed \in Seq(Lines) /\ pendingLogs \in Seq(Lines) /\ logs \in Seq(Lines)
  BY DEF TypeOK, SequencesOK
<1>2. sent \in Seq(Lines) /\ accepted = sent \o logs
  BY <1>1, ConcatProperties DEF EveryLineOnce
<1>3. /\ \A i \in DOMAIN handed : i \in DOMAIN sent /\ sent[i] = handed[i]
      /\ \A i \in DOMAIN pendingLogs : /\ Len(handed) + i \in DOMAIN sent
                                       /\ sent[Len(handed) + i] = pendingLogs[i]
  BY <1>1, PartsEntries
<1>4. \A i \in DOMAIN sent : i \in DOMAIN accepted /\ accepted[i] = sent[i]
  <2> HIDE DEF sent
  <2> QED BY <1>1, <1>2, PartsEntries
<1>5. /\ DOMAIN handed = 1..Len(handed) /\ Len(handed) \in Nat
      /\ DOMAIN pendingLogs = 1..Len(pendingLogs) /\ Len(pendingLogs) \in Nat
  BY <1>1, LenProperties
<1> HIDE DEF sent
<1>6. ASSUME NEW k \in DOMAIN handed, NEW i \in DOMAIN pendingLogs
      PROVE  handed[k] < pendingLogs[i]
  <2>1. k < Len(handed) + i
    BY <1>5
  <2>2. /\ k \in DOMAIN accepted /\ accepted[k] = handed[k]
        /\ Len(handed) + i \in DOMAIN accepted /\ accepted[Len(handed) + i] = pendingLogs[i]
    BY <1>3, <1>4
  <2> QED BY <2>1, <2>2 DEF TakenInv, Rising
<1>7. ASSUME NEW i \in DOMAIN pendingLogs, NEW j \in DOMAIN pendingLogs, i < j
      PROVE  pendingLogs[i] < pendingLogs[j]
  <2>1. Len(handed) + i < Len(handed) + j
    BY <1>5, <1>7
  <2>2. /\ Len(handed) + i \in DOMAIN accepted /\ accepted[Len(handed) + i] = pendingLogs[i]
        /\ Len(handed) + j \in DOMAIN accepted /\ accepted[Len(handed) + j] = pendingLogs[j]
    BY <1>3, <1>4
  <2> QED BY <2>1, <2>2 DEF TakenInv, Rising
<1>8. \A k \in DOMAIN handed : \E i \in DOMAIN accepted : accepted[i] = handed[k]
  BY <1>3, <1>4
<1> QED BY <1>6, <1>7, <1>8

\* SendLog is the only step that takes a line, SendPlan that takes a summary.
LEMMA TakingSteps ==
  ASSUME [Next]_vars
  PROVE  \/ SendLog /\ UNCHANGED planned
         \/ SendPlan /\ UNCHANGED <<accepted, printed>>
         \/ UNCHANGED <<accepted, printed, planned>>
<1>1. CASE Provision \/ Killed
  BY <1>1 DEF Provision, Connect, ConnectFails, NoStepType, SendLog, SendPlan, NoPlan,
              Exits, Killed, Disconnect, DisconnectReturns, history
<1>2. CASE Epoch
  BY <1>2 DEF Epoch, FlushPending, TakeLogs, TakePlan, PingFails, ReceiveFailed, Done,
       Drained, SendLogBatch, SendPlanSummary, SendFails, SendComplete,
       SendCompleteFails, WindDown, Taken, provision, history
<1>3. CASE Reconnect
  BY <1>3 DEF Reconnect, StreamBroken, GiveUp, BackoffOver, OpenStream,
       OpenStreamFails, provision, history
<1>4. CASE ReceiveFails \/ Arrive \/ Break \/ CancelStream
  BY <1>4 DEF ReceiveFails, Arrive, Break, CancelStream, provision, history
<1>5. CASE UNCHANGED vars
  BY <1>5 DEF vars
<1> QED BY NextCases, <1>1, <1>2, <1>3, <1>4, <1>5

LEMMA TakenStep ==
  ASSUME TypeOK, TakenInv, [Next]_vars
  PROVE  TakenInv'
<1>1. CASE UNCHANGED <<accepted, printed>>
  BY <1>1 DEF TakenInv, Rising
<1>2. CASE SendLog
  <2>1. printed \in Nat /\ printed' = printed + 1
    BY <1>2, SizesAssumption DEF SendLog, TypeOK, StatesOK
  <2>2. accepted \in Seq(Lines) /\ \A i \in DOMAIN accepted : accepted[i] \in Nat
    BY ItemKinds, ElementOfSeq, LenProperties DEF TypeOK, SequencesOK
  <2>3. CASE accepted' = accepted
    BY <2>1, <2>2, <2>3 DEF TakenInv, Rising
  <2>4. CASE accepted' = Append(accepted, printed')
    <3>1. printed' \in Lines
      BY <1>2, <2>1, SizesAssumption DEF SendLog, TypeOK, StatesOK, Lines
    <3> DEFINE line == printed'
    <3>2. /\ DOMAIN accepted' = (DOMAIN accepted) \cup {Len(accepted) + 1}
          /\ \A m \in DOMAIN accepted : accepted'[m] = accepted[m] /\ m < Len(accepted) + 1
          /\ accepted'[Len(accepted) + 1] = line
          /\ Len(accepted) \in Nat /\ DOMAIN accepted = 1..Len(accepted)
      <4> HIDE DEF line
      <4> QED BY <2>2, <2>4, <3>1, FlightEntries DEF line
    <3>3. \A i \in DOMAIN accepted : accepted[i] < line
      BY <2>1, <2>2 DEF TakenInv
    <3> QED BY <2>1, <2>2, <3>2, <3>3 DEF TakenInv, Rising
  <2> QED BY <1>2, <2>3, <2>4 DEF SendLog
<1> QED BY <1>1, <1>2, TakingSteps

LEMMA PlanStep ==
  ASSUME SupervisorInv, PlanInv, [Next]_vars
  PROVE  PlanInv'
<1> USE DEF PlanInv
<1>1. CASE Provision \/ Killed
  BY <1>1 DEF Provision, Connect, ConnectFails, NoStepType, SendLog, SendPlan, NoPlan,
              Exits, Killed, Disconnect, DisconnectReturns, channels, pending, history
<1>2. CASE FlushPending \/ PingFails \/ ReceiveFailed \/ Done \/ Drained \/ SendFails
           \/ SendCompleteFails \/ TakeLogs \/ WindDown
  BY <1>2 DEF FlushPending, PingFails, ReceiveFailed, Done, Drained, SendFails,
              SendCompleteFails, TakeLogs, WindDown, provision, channels, pending, history
<1>3. CASE TakePlan
  BY <1>3 DEF TakePlan, provision, history
<1>4. CASE SendPlanSummary
  BY <1>4 DEF SendPlanSummary, Taken, SupervisorInv, provision, channels
<1>5. CASE SendLogBatch \/ SendComplete
  BY <1>5 DEF SendLogBatch, SendComplete, Taken, provision, channels, pending
<1>6. CASE Reconnect
  BY <1>6 DEF Reconnect, StreamBroken, GiveUp, BackoffOver, OpenStream,
              OpenStreamFails, provision, channels, pending, history
<1>7. CASE ReceiveFails \/ Arrive \/ Break \/ CancelStream
  BY <1>7 DEF ReceiveFails, Arrive, Break, CancelStream, provision, channels,
              pending, history
<1>8. CASE UNCHANGED vars
  BY <1>8 DEF vars
<1> QED BY NextCases, <1>1, <1>2, <1>3, <1>4, <1>5, <1>6, <1>7, <1>8 DEF Epoch

LEMMA StreamStep ==
  ASSUME TypeOK, SupervisorInv, StreamInv, [Next]_vars
  PROVE  StreamInv'
<1>1. CASE Connect \/ ConnectFails \/ NoStepType
  BY <1>1 DEF Connect, ConnectFails, NoStepType, OpenedStream, SupervisorInv, StreamInv,
              channels, pending, history, network
<1>2. CASE SendLog \/ SendPlan \/ NoPlan \/ Killed \/ Disconnect
  BY <1>2 DEF SendLog, SendPlan, NoPlan, Exits, Killed, Disconnect, StreamInv, channels,
              pending, history, network
<1>3. CASE DisconnectReturns
  BY <1>3 DEF DisconnectReturns, StreamInv, pending, history, network
<1>4. CASE FlushPending \/ PingFails \/ ReceiveFailed \/ Done \/ Drained \/ SendFails
           \/ SendCompleteFails \/ WindDown
  BY <1>4 DEF FlushPending, PingFails, ReceiveFailed, Done, Drained, SendFails,
              SendCompleteFails, WindDown, StreamInv, provision, channels, pending,
              history, network
<1>5. CASE TakePlan
  BY <1>5 DEF TakePlan, StreamInv, provision, history, network
<1>6. CASE TakeLogs
  <2>1. pendingLogs' # <<>>
    <3> DEFINE size == Smaller(BatchSize, Len(logs))
    <3>1. Len(logs) \in Nat \ {0} /\ \A i \in 1..Len(logs) : logs[i] \in Lines
      BY <1>6, EmptySeq, ElementOfSeq, LenProperties DEF TypeOK, SequencesOK, TakeLogs
    <3>2. size \in 1..Len(logs)
      BY <3>1, SizesAssumption DEF Smaller
    <3>3. pendingLogs' = SubSeq(logs, 1, size)
      BY <1>6 DEF TakeLogs
    <3> HIDE DEF size
    <3>4. Len(pendingLogs') = size
      BY <3>1, <3>2, <3>3, SubSeqProperties
    <3> QED BY <3>2, <3>4, EmptySeq
  <2> QED BY <1>6, <2>1 DEF TakeLogs, StreamInv, provision, history, network
<1>7. CASE SendLogBatch \/ SendPlanSummary \/ SendComplete
  BY <1>7 DEF SendLogBatch, SendPlanSummary, SendComplete, Taken, StreamInv, provision,
              pending, TypeOK, StatesOK
<1>8. CASE Reconnect
  BY <1>8 DEF Reconnect, StreamBroken, GiveUp, BackoffOver, OpenStream,
              OpenStreamFails, OpenedStream, StreamInv, provision, channels, pending,
              history, network
<1>9. CASE ReceiveFails \/ Arrive \/ CancelStream
  BY <1>9 DEF ReceiveFails, Arrive, CancelStream, StreamInv, provision, supervision,
              pending, history
<1>10. CASE Break
  <2>1. breaks' # 0
    BY <1>10 DEF Break, TypeOK, StatesOK
  <2> QED BY <1>10, <2>1 DEF Break, StreamInv, provision, supervision, pending, history
<1>11. CASE UNCHANGED vars
  BY <1>11 DEF vars, StreamInv
<1> QED BY NextCases, <1>1, <1>2, <1>3, <1>4, <1>5, <1>6, <1>7, <1>8, <1>9, <1>10, <1>11
        DEF Provision, Epoch

(***************************************************************************)
(* The steps that change what is on the wire                               *)
(***************************************************************************)
onWire == <<arrived, flight, handed, planHanded, completed, stream, breaks>>

LEMMA WireCases ==
  ASSUME [Next]_vars
  PROVE  \/ Connect \/ OpenStream \/ Break \/ CancelStream \/ Arrive
         \/ SendLogBatch \/ SendPlanSummary \/ SendComplete \/ UNCHANGED onWire
<1> USE DEF onWire
<1>1. CASE ConnectFails \/ NoStepType \/ SendLog \/ SendPlan \/ NoPlan \/ Killed \/ Disconnect
           \/ DisconnectReturns
  BY <1>1 DEF ConnectFails, NoStepType, SendLog, SendPlan, NoPlan, Killed, Disconnect,
       DisconnectReturns, network, history
<1>2. CASE FlushPending \/ TakeLogs \/ TakePlan \/ PingFails \/ ReceiveFailed \/ Done
           \/ Drained \/ SendFails \/ SendCompleteFails \/ WindDown
  BY <1>2 DEF FlushPending, TakeLogs, TakePlan, PingFails, ReceiveFailed, Done, Drained,
       SendFails, SendCompleteFails, WindDown, network, history
<1>3. CASE StreamBroken \/ GiveUp \/ BackoffOver \/ OpenStreamFails \/ ReceiveFails
  BY <1>3 DEF StreamBroken, GiveUp, BackoffOver, OpenStreamFails, ReceiveFails, network, history
<1>4. CASE UNCHANGED vars
  BY <1>4 DEF vars
<1> QED BY NextCases, <1>1, <1>2, <1>3, <1>4 DEF Provision, Epoch, Reconnect

\* A stream that begins or ends carries nothing.
Emptied == flight' = <<>> /\ UNCHANGED <<arrived, handed, planHanded, completed>>

LEMMA EmptiedBy ==
  ASSUME Connect \/ OpenStream \/ Break \/ CancelStream
  PROVE  Emptied
BY DEF Connect, OpenStream, OpenedStream, Break, CancelStream, Emptied, history

\* What Send may take: it comes after all that was handed over before.
Follows(message) ==
  /\ message \in Seq(Items) /\ message # <<>> /\ InOrder(message)
  /\ \A item : Sent(item) => \A i \in DOMAIN message : Before(item, message[i])

\* What the histories say of it once it is taken.
Recorded(message) ==
  /\ \A item : Sent(item) => Sent(item)'
  /\ \A item : (\E i \in DOMAIN message : message[i] = item) => Sent(item)'
  /\ \A k \in DOMAIN handed' : \/ k \in DOMAIN handed /\ handed'[k] = handed[k]
                               \/ \E i \in DOMAIN message : message[i] = handed'[k]
  /\ planHanded' => planHanded \/ \E i \in DOMAIN message : message[i] = Plan

LEMMA LogBatchFollows ==
  ASSUME TypeOK, EveryLineOnce, SupervisorInv, WireInv, SendLogBatch
  PROVE  Taken(pendingLogs) /\ Follows(pendingLogs) /\ Recorded(pendingLogs)
<1>1. /\ Taken(pendingLogs) /\ handed' = handed \o pendingLogs
      /\ supervisor = "logs" /\ UNCHANGED <<planHanded, completed>>
  BY DEF SendLogBatch
<1>2. handed \in Seq(Lines) /\ pendingLogs \in Seq(Lines)
  BY DEF TypeOK, SequencesOK
<1>3. \A i \in DOMAIN pendingLogs : pendingLogs[i] \in Lines
  BY <1>2, ElementOfSeq, LenProperties
<1>4. Follows(pendingLogs)
  <2>1. InOrder(pendingLogs)
    BY <1>3, ItemKinds, PendingLater DEF InOrder, Before, WireInv
  <2>2. ASSUME NEW item, Sent(item), NEW i \in DOMAIN pendingLogs
        PROVE  Before(item, pendingLogs[i])
    <3>1. item # Complete
      BY <1>1, <2>2 DEF Sent, SupervisorInv
    <3>2. item \in Lines => item < pendingLogs[i]
      BY <2>2, PendingLater DEF Sent, WasHanded, WireInv
    <3> QED BY <1>3, <3>1, <3>2, ItemKinds DEF Before
  <2>3. pendingLogs \in Seq(Items) /\ pendingLogs # <<>>
    BY <1>1, <1>2, LinesAreItems DEF WireInv, StreamInv
  <2> QED BY <2>1, <2>2, <2>3 DEF Follows
<1>5. Recorded(pendingLogs)
  <2>1. /\ \A k \in DOMAIN handed : k \in DOMAIN handed' /\ handed'[k] = handed[k]
        /\ \A i \in DOMAIN pendingLogs : /\ Len(handed) + i \in DOMAIN handed'
                                         /\ handed'[Len(handed) + i] = pendingLogs[i]
    BY <1>1, <1>2, PartsEntries
  <2>2. \A k \in DOMAIN handed' : \/ k \in DOMAIN handed /\ handed'[k] = handed[k]
                                  \/ \E i \in DOMAIN pendingLogs : pendingLogs[i] = handed'[k]
    BY <1>1, <1>2, ConcatEntries
  <2>3. \A item : Sent(item) => Sent(item)'
    BY <1>1, <2>1 DEF Sent, WasHanded
  <2>4. ASSUME NEW item, NEW i \in DOMAIN pendingLogs, pendingLogs[i] = item
        PROVE  Sent(item)'
    BY <2>4, <1>3, <2>1, ItemKinds DEF Sent, WasHanded
  <2> QED BY <1>1, <2>2, <2>3, <2>4 DEF Recorded
<1> QED BY <1>1, <1>4, <1>5

\* The summary and the outcome travel alone.
LEMMA SingleMessage ==
  ASSUME NEW item \in Items
  PROVE  /\ <<item>> \in Seq(Items) /\ <<item>> # <<>> /\ InOrder(<<item>>)
         /\ DOMAIN <<item>> = {1} /\ <<item>>[1] = item
<1>1. DOMAIN <<item>> = {1} /\ <<item>>[1] = item /\ <<item>> \in Seq(Items)
  OBVIOUS
<1>2. <<item>> # <<>>
  BY <1>1, EmptySeq
<1>3. InOrder(<<item>>)
  BY <1>1 DEF InOrder
<1> QED BY <1>1, <1>2, <1>3

LEMMA PlanFollows ==
  ASSUME SupervisorInv, WireInv, SendPlanSummary
  PROVE  Taken(<<Plan>>) /\ Follows(<<Plan>>) /\ Recorded(<<Plan>>)
<1>1. /\ Taken(<<Plan>>) /\ planHanded' = TRUE
      /\ supervisor = "plan" /\ UNCHANGED <<handed, completed>>
  BY DEF SendPlanSummary
<1>2. Plan \in Items /\ Complete \in Items
  BY SizesAssumption DEF Plan, Complete, Items
<1>3. ~planHanded /\ ~completed
  BY <1>1 DEF SupervisorInv, WireInv, PlanInv
<1>4. \A item : Sent(item) => Before(item, Plan)
  BY <1>3, ItemKinds DEF Sent, Before
<1>5. \A item : Sent(item) => Sent(item)'
  BY <1>1 DEF Sent, WasHanded
<1>6. Sent(Plan)'
  BY <1>1, ItemKinds DEF Sent
<1>7. Follows(<<Plan>>)
  BY <1>2, <1>4, SingleMessage DEF Follows
<1>8. Recorded(<<Plan>>)
  BY <1>1, <1>2, <1>5, <1>6, SingleMessage DEF Recorded
<1> QED BY <1>1, <1>7, <1>8

LEMMA OutcomeFollows ==
  ASSUME SupervisorInv, WireInv, SendComplete
  PROVE  Taken(<<Complete>>) /\ Follows(<<Complete>>) /\ Recorded(<<Complete>>)
<1>1. /\ Taken(<<Complete>>) /\ completed' = TRUE
      /\ supervisor = "complete" /\ UNCHANGED <<handed, planHanded>>
  BY DEF SendComplete
<1>2. Complete \in Items
  BY SizesAssumption DEF Complete, Items
<1>3. ~completed
  BY <1>1 DEF SupervisorInv
<1>4. \A item : Sent(item) => Before(item, Complete)
  BY <1>3, ItemKinds DEF Sent, Before
<1>5. \A item : Sent(item) => Sent(item)'
  BY <1>1 DEF Sent, WasHanded
<1>6. Sent(Complete)'
  BY <1>1, ItemKinds DEF Sent
<1>7. Follows(<<Complete>>)
  BY <1>2, <1>4, SingleMessage DEF Follows
<1>8. Recorded(<<Complete>>)
  BY <1>1, <1>2, <1>5, <1>6, SingleMessage DEF Recorded
<1> QED BY <1>1, <1>7, <1>8

LEMMA Hands ==
  ASSUME TypeOK, EveryLineOnce, SupervisorInv, WireInv,
         SendLogBatch \/ SendPlanSummary \/ SendComplete
  PROVE  \E message : Taken(message) /\ Follows(message) /\ Recorded(message)
BY LogBatchFollows, PlanFollows, OutcomeFollows

LEMMA OriginStep ==
  ASSUME TypeOK, EveryLineOnce, SupervisorInv, WireInv, [Next]_vars
  PROVE  OriginInv'
<1>1. /\ OriginInv /\ arrived \in Seq(Items) /\ flight \in Seq(Seq(Items))
  BY DEF WireInv, TypeOK, SequencesOK
<1>2. CASE UNCHANGED onWire
  BY <1>1, <1>2 DEF onWire, OriginInv, AllSent, Sent, WasHanded
<1>3. CASE Emptied
  <2>1. DOMAIN flight' = {}
    BY <1>3, EmptySeq DEF Emptied
  <2> QED BY <1>1, <1>3, <2>1 DEF Emptied, OriginInv, AllSent, Sent, WasHanded
<1>4. CASE Arrive
  <2>1. /\ flight # <<>> /\ arrived' = arrived \o Head(flight) /\ flight' = Tail(flight)
        /\ UNCHANGED <<handed, planHanded, completed>>
    BY <1>4 DEF Arrive
  <2>2. /\ Head(flight) \in Seq(Items) /\ Head(flight) = flight[1] /\ 1 \in DOMAIN flight
        /\ \A m \in DOMAIN Tail(flight) : m + 1 \in DOMAIN flight /\ Tail(flight)[m] = flight[m + 1]
    BY <1>1, <2>1, RestEntries
  <2>3. AllSent(arrived \o Head(flight))
    BY <1>1, <2>2, ConcatSent DEF OriginInv
  <2>4. \A m \in DOMAIN Tail(flight) : AllSent(Tail(flight)[m])
    BY <1>1, <2>2 DEF OriginInv
  <2> QED BY <2>1, <2>3, <2>4 DEF OriginInv, AllSent, Sent, WasHanded
<1>5. CASE SendLogBatch \/ SendPlanSummary \/ SendComplete
  <2>1. PICK message : Taken(message) /\ Follows(message) /\ Recorded(message)
    BY <1>5, Hands
  <2>2. arrived' = arrived /\ flight' = Append(flight, message) /\ message \in Seq(Items)
    BY <2>1 DEF Taken, Follows
  <2>3. \A m \in DOMAIN flight' : \/ m \in DOMAIN flight /\ flight'[m] = flight[m]
                                  \/ flight'[m] = message
    BY <1>1, <2>2, FlightEntries
  <2> QED BY <1>1, <2>1, <2>2, <2>3 DEF OriginInv, AllSent, Recorded
<1> QED BY <1>2, <1>3, <1>4, <1>5, WireCases, EmptiedBy

LEMMA OrderStep ==
  ASSUME TypeOK, EveryLineOnce, SupervisorInv, WireInv, [Next]_vars
  PROVE  OrderInv'
<1>1. /\ OrderInv /\ OriginInv /\ arrived \in Seq(Items) /\ flight \in Seq(Seq(Items))
  BY DEF WireInv, TypeOK, SequencesOK
<1>2. CASE UNCHANGED onWire
  BY <1>1, <1>2 DEF onWire, OrderInv, InOrder, AllBefore
<1>3. CASE Emptied
  <2>1. DOMAIN flight' = {}
    BY <1>3, EmptySeq DEF Emptied
  <2> QED BY <1>1, <1>3, <2>1 DEF Emptied, OrderInv, InOrder, AllBefore
<1>4. CASE Arrive
  <2>1. flight # <<>> /\ arrived' = arrived \o Head(flight) /\ flight' = Tail(flight)
    BY <1>4 DEF Arrive
  <2> DEFINE first == Head(flight)
             rest == Tail(flight)
  <2>2. /\ first \in Seq(Items) /\ first = flight[1] /\ 1 \in DOMAIN flight
        /\ \A m \in DOMAIN rest : /\ m + 1 \in DOMAIN flight /\ rest[m] = flight[m + 1]
                                  /\ 1 < m + 1
        /\ DOMAIN rest \subseteq Nat /\ rest \in Seq(Seq(Items))
    BY <1>1, <2>1, RestEntries
  <2>3. InOrder(arrived \o first)
    BY <1>1, <2>2, ConcatInOrder DEF OrderInv
  <2>4. ASSUME NEW m \in DOMAIN rest
        PROVE  rest[m] # <<>> /\ InOrder(rest[m]) /\ AllBefore(arrived \o first, rest[m])
    <3> HIDE DEF first, rest
    <3>1. /\ rest[m] # <<>> /\ InOrder(rest[m]) /\ AllBefore(arrived, rest[m])
      BY <1>1, <2>2 DEF OrderInv
    <3>2. AllBefore(first, rest[m])
      BY <1>1, <2>2 DEF OrderInv
    <3> QED BY <1>1, <2>2, <3>1, <3>2, ConcatBefore
  <2>5. ASSUME NEW m \in DOMAIN rest, NEW n \in DOMAIN rest, m < n
        PROVE  AllBefore(rest[m], rest[n])
    <3> HIDE DEF first, rest
    <3>1. m + 1 < n + 1
      BY <2>2, <2>5
    <3> QED BY <1>1, <2>2, <3>1 DEF OrderInv
  <2> QED BY <2>1, <2>3, <2>4, <2>5 DEF OrderInv, InOrder, AllBefore
<1>5. CASE SendLogBatch \/ SendPlanSummary \/ SendComplete
  <2>1. PICK message : Taken(message) /\ Follows(message) /\ Recorded(message)
    BY <1>5, Hands
  <2>2. arrived' = arrived /\ flight' = Append(flight, message) /\ message \in Seq(Items)
    BY <2>1 DEF Taken, Follows
  <2> DEFINE last == Len(flight) + 1
             longer == Append(flight, message)
  <2>3. /\ DOMAIN longer = (DOMAIN flight) \cup {last} /\ longer[last] = message
        /\ \A m \in DOMAIN flight : longer[m] = flight[m] /\ m < last
        /\ Len(flight) \in Nat /\ DOMAIN flight = 1..Len(flight)
    BY <1>1, <2>2, FlightEntries
  <2>4. message # <<>> /\ InOrder(message)
    BY <2>1 DEF Follows
  <2>5. AllBefore(arrived, message) /\ \A m \in DOMAIN flight : AllBefore(flight[m], message)
    BY <1>1, <2>1 DEF Follows, OriginInv, AllSent, AllBefore
  <2> HIDE DEF last, longer
  <2>6. \A m \in DOMAIN longer : /\ longer[m] # <<>> /\ InOrder(longer[m])
                                 /\ AllBefore(arrived, longer[m])
    BY <1>1, <2>3, <2>4, <2>5 DEF OrderInv
  <2>7. ASSUME NEW m \in DOMAIN longer, NEW n \in DOMAIN longer, m < n
        PROVE  AllBefore(longer[m], longer[n])
    <3>1. m \in DOMAIN flight
      BY <2>3, <2>7 DEF last
    <3>2. CASE n \in DOMAIN flight
      BY <1>1, <2>3, <2>7, <3>1, <3>2 DEF OrderInv
    <3>3. CASE n = last
      BY <2>3, <2>5, <3>1, <3>3
    <3> QED BY <2>3, <3>2, <3>3
  <2>8. InOrder(arrived)
    BY <1>1 DEF OrderInv
  <2> QED BY <2>2, <2>6, <2>7, <2>8 DEF OrderInv, InOrder, AllBefore, longer
<1> QED BY <1>2, <1>3, <1>4, <1>5, WireCases, EmptiedBy

\* What is on the wire stays there until it arrives, and what Send takes is.
LEMMA ArriveKeeps ==
  ASSUME TypeOK, Arrive, NEW item, OnWire(item)
  PROVE  OnWire(item)'
<1>1. /\ arrived \in Seq(Items) /\ flight \in Seq(Seq(Items)) /\ flight # <<>>
      /\ arrived' = arrived \o Head(flight) /\ flight' = Tail(flight)
  BY DEF TypeOK, SequencesOK, Arrive
<1>2. /\ Head(flight) \in Seq(Items) /\ Head(flight) = flight[1]
      /\ \A m \in DOMAIN flight : \/ m = 1
                                  \/ /\ m - 1 \in DOMAIN Tail(flight)
                                     /\ Tail(flight)[m - 1] = flight[m]
  BY <1>1, RestEntries
<1>3. /\ \A i \in DOMAIN arrived : i \in DOMAIN arrived' /\ arrived'[i] = arrived[i]
      /\ \A i \in DOMAIN flight[1] : /\ Len(arrived) + i \in DOMAIN arrived'
                                     /\ arrived'[Len(arrived) + i] = flight[1][i]
  BY <1>1, <1>2, PartsEntries
<1>4. CASE Has(item)
  BY <1>3, <1>4 DEF OnWire, Has
<1>5. CASE OnWay(item)
  <2>1. PICK m \in DOMAIN flight : \E i \in DOMAIN flight[m] : flight[m][i] = item
    BY <1>5 DEF OnWay
  <2>2. CASE m = 1
    BY <1>3, <2>1, <2>2 DEF OnWire, Has
  <2>3. CASE m # 1
    <3>1. m - 1 \in DOMAIN flight' /\ flight'[m - 1] = flight[m]
      BY <1>1, <1>2, <2>3
    <3> QED BY <2>1, <3>1 DEF OnWire, OnWay
  <2> QED BY <2>2, <2>3
<1> QED BY <1>4, <1>5 DEF OnWire

LEMMA TakenKeeps ==
  ASSUME TypeOK, NEW message \in Seq(Items), Taken(message)
  PROVE  /\ \A item : OnWire(item) => OnWire(item)'
         /\ \A item : (\E i \in DOMAIN message : message[i] = item) => OnWire(item)'
<1>1. arrived' = arrived /\ flight' = Append(flight, message) /\ flight \in Seq(Seq(Items))
  BY DEF TypeOK, SequencesOK, Taken
<1>2. /\ \A m \in DOMAIN flight : m \in DOMAIN flight' /\ flight'[m] = flight[m]
      /\ Len(flight) + 1 \in DOMAIN flight' /\ flight'[Len(flight) + 1] = message
  BY <1>1, FlightEntries
<1>3. ASSUME NEW item, OnWire(item)
      PROVE  OnWire(item)'
  <2>1. Has(item) => Has(item)'
    BY <1>1 DEF Has
  <2>2. OnWay(item) => OnWay(item)'
    BY <1>2 DEF OnWay
  <2> QED BY <1>3, <2>1, <2>2 DEF OnWire
<1>4. ASSUME NEW item, NEW i \in DOMAIN message, message[i] = item
      PROVE  OnWire(item)'
  BY <1>2, <1>4 DEF OnWire, OnWay
<1> QED BY <1>3, <1>4

LEMMA NothingLostStep ==
  ASSUME TypeOK, EveryLineOnce, SupervisorInv, WireInv, [Next]_vars
  PROVE  NothingLost'
<1>1. NothingLost
  BY DEF WireInv
<1>2. CASE UNCHANGED onWire
  BY <1>1, <1>2 DEF onWire, NothingLost, OnWire, OnWay, Has
<1>3. CASE Connect
  <2>1. handed = <<>> /\ ~planHanded
    BY <1>3 DEF Connect, SupervisorInv, WireInv, StreamInv
  <2>2. handed' = <<>> /\ ~planHanded'
    BY <1>3, <2>1 DEF Connect, history
  <2>3. DOMAIN handed' = {}
    BY <2>2, EmptySeq
  <2> QED BY <2>2, <2>3 DEF NothingLost
<1>4. CASE OpenStream
  <2>1. breaks # 0 /\ breaks' = breaks
    BY <1>4 DEF OpenStream, OpenedStream, WireInv, StreamInv
  <2> QED BY <2>1 DEF NothingLost
<1>5. CASE Break \/ CancelStream
  BY <1>5 DEF Break, CancelStream, NothingLost
<1>6. CASE Arrive
  <2>1. UNCHANGED <<stream, breaks, handed, planHanded>>
    BY <1>6 DEF Arrive
  <2>2. ASSUME breaks = 0, stream = "up"
        PROVE  (\A k \in DOMAIN handed : OnWire(handed[k])') /\ (planHanded => OnWire(Plan)')
    <3>1. (\A k \in DOMAIN handed : OnWire(handed[k])) /\ (planHanded => OnWire(Plan))
      BY <1>1, <2>2 DEF NothingLost
    <3>2. \A item : OnWire(item) => OnWire(item)'
      BY <1>6, ArriveKeeps
    <3> QED BY <2>1, <3>1, <3>2
  <2> QED BY <2>1, <2>2 DEF NothingLost
<1>7. CASE SendLogBatch \/ SendPlanSummary \/ SendComplete
  <2>1. PICK message : Taken(message) /\ Follows(message) /\ Recorded(message)
    BY <1>7, Hands
  <2>2. /\ \A item : OnWire(item) => OnWire(item)'
        /\ \A item : (\E i \in DOMAIN message : message[i] = item) => OnWire(item)'
    BY <2>1, TakenKeeps DEF Follows
  <2>3. UNCHANGED <<stream, breaks>>
    BY <2>1 DEF Taken
  <2>4. ASSUME breaks = 0, stream = "up"
        PROVE  (\A k \in DOMAIN handed' : OnWire(handed[k])') /\ (planHanded' => OnWire(Plan)')
    <3>1. (\A k \in DOMAIN handed : OnWire(handed[k])) /\ (planHanded => OnWire(Plan))
      BY <1>1, <2>4 DEF NothingLost
    <3>2. /\ \A k \in DOMAIN handed' :
                 \/ k \in DOMAIN handed /\ handed'[k] = handed[k]
                 \/ \E i \in DOMAIN message : message[i] = handed'[k]
          /\ planHanded' => planHanded \/ \E i \in DOMAIN message : message[i] = Plan
      BY <2>1 DEF Recorded
    <3>3. ASSUME NEW k \in DOMAIN handed'
          PROVE  OnWire(handed[k])'
      <4>1. PICK line : line = handed'[k]
        OBVIOUS
      <4>2. OnWire(line) \/ \E i \in DOMAIN message : message[i] = line
        BY <3>1, <3>2, <4>1
      <4>3. OnWire(line)'
        BY <2>2, <4>2
      <4> QED BY <4>1, <4>3 DEF OnWire, Has, OnWay
    <3>4. planHanded' => OnWire(Plan)'
      BY <2>2, <3>1, <3>2
    <3> QED BY <3>3, <3>4
  <2> QED BY <2>3, <2>4 DEF NothingLost
<1> QED BY <1>2, <1>3, <1>4, <1>5, <1>6, <1>7, WireCases

\* A step is an arrival or leaves what has arrived; breaks only go up.
LEMMA ArriveOrNot ==
  ASSUME TypeOK, [Next]_vars
  PROVE  /\ Arrive \/ arrived' = arrived
         /\ breaks' = 0 => breaks = 0
<1>1. CASE Connect \/ OpenStream \/ CancelStream
  BY <1>1 DEF Connect, OpenStream, OpenedStream, CancelStream, history
<1>2. CASE Break
  BY <1>2 DEF Break, history, TypeOK, StatesOK
<1>3. CASE SendLogBatch \/ SendPlanSummary \/ SendComplete
  BY <1>3 DEF SendLogBatch, SendPlanSummary, SendComplete, Taken
<1>4. CASE Arrive
  BY <1>4 DEF Arrive
<1>5. CASE UNCHANGED onWire
  BY <1>5 DEF onWire
<1> QED BY <1>1, <1>2, <1>3, <1>4, <1>5, WireCases

LEMMA DeliversStep ==
  ASSUME SendingInv, WireInv, UnbrokenStreamDelivers, [Next]_vars, OrderInv', OriginInv'
  PROVE  UnbrokenStreamDelivers'
<1> USE DEF SendingInv
<1> SUFFICES ASSUME breaks' = 0, Has(Complete)'
             PROVE  AllArrived'
  BY DEF UnbrokenStreamDelivers
<1>1. CASE Arrive
  <2>1. stream = "up" /\ UNCHANGED <<breaks, handed, planHanded, accepted, planned, completed>>
    BY <1>1 DEF Arrive
  <2>2. completed' /\ \A item : ~OnWay(item)'
    <3>1. PICK k \in DOMAIN arrived' : arrived'[k] = Complete
      BY DEF Has
    <3>2. Sent(Complete)'
      BY <3>1 DEF OriginInv, AllSent, Sent, WasHanded
    <3>3. ASSUME NEW m \in DOMAIN flight', NEW i \in DOMAIN flight'[m]
          PROVE  FALSE
      BY <3>1 DEF OrderInv, AllBefore, Before
    <3> QED BY <3>2, <3>3 DEF Sent, OnWay
  <2>3. CompleteComesLast
    BY OutcomeIsLast
  <2>4. handed = accepted /\ (planned => planHanded)
    BY <2>1, <2>2, <2>3 DEF CompleteComesLast
  <2>5. (\A k \in DOMAIN handed : OnWire(handed[k])) /\ (planHanded => OnWire(Plan))
    BY <2>1 DEF WireInv, NothingLost
  <2>6. \A item : OnWire(item) => Has(item)'
    BY <1>1, <2>2, ArriveKeeps DEF OnWire
  <2>7. ASSUME NEW k \in DOMAIN accepted
        PROVE  Has(accepted[k])'
    <3>1. PICK line : line = accepted[k]
      OBVIOUS
    <3>2. Has(line)'
      BY <2>4, <2>5, <2>6, <3>1
    <3> QED BY <2>1, <3>1, <3>2 DEF Has
  <2> QED BY <2>1, <2>4, <2>5, <2>6, <2>7 DEF AllArrived
<1>2. CASE arrived' = arrived
  <2>1. Has(Complete) /\ breaks = 0
    BY <1>2, ArriveOrNot DEF Has
  <2>2. completed /\ done
    BY <2>1 DEF Has, WireInv, OriginInv, AllSent, Sent, SupervisorInv
  <2>3. UNCHANGED <<accepted, planned>>
    BY <2>2, TakingSteps DEF SendLog, SendPlan, Exits, SupervisorInv
  <2> QED BY <1>2, <2>1, <2>3 DEF UnbrokenStreamDelivers, AllArrived, Has
<1> QED BY <1>1, <1>2, ArriveOrNot

WholeInv == SendingInv /\ WireInv /\ UnbrokenStreamDelivers

LEMMA WholeCorrect == Spec => []WholeInv
<1>1. Init => WireInv /\ UnbrokenStreamDelivers
  <2> SUFFICES ASSUME Init PROVE WireInv /\ UnbrokenStreamDelivers
    OBVIOUS
  <2> USE DEF Init
  <2>1. DOMAIN accepted = {} /\ DOMAIN arrived = {} /\ DOMAIN flight = {} /\ DOMAIN handed = {}
    BY EmptySeq
  <2>2. TakenInv /\ OriginInv /\ OrderInv /\ NothingLost
    BY <2>1 DEF TakenInv, Rising, OriginInv, AllSent, OrderInv, InOrder, NothingLost
  <2>3. PlanInv /\ StreamInv
    BY DEF PlanInv, StreamInv
  <2>4. UnbrokenStreamDelivers
    BY <2>1 DEF UnbrokenStreamDelivers, Has
  <2> QED BY <2>2, <2>3, <2>4 DEF WireInv
<1>2. WholeInv /\ [Next]_vars => WireInv' /\ UnbrokenStreamDelivers'
  BY TakenStep, PlanStep, StreamStep, OriginStep, OrderStep, NothingLostStep, DeliversStep
     DEF WholeInv, SendingInv, WireInv
<1> QED BY <1>1, <1>2, SendingCorrect, PTL DEF Spec, WholeInv

\* On a stream that never broke the backend has every line and the summary
\* when it has the outcome, for any sizes (drainPending before sendComplete,
\* the order of Send).
THEOREM UnbrokenDelivered == Spec => []UnbrokenStreamDelivers
<1>1. WholeInv => UnbrokenStreamDelivers
  BY DEF WholeInv
<1> QED BY <1>1, WholeCorrect, PTL
------------------------------------------------------------------------------
(***************************************************************************)
(* What the server sees is a delivery                                      *)
(***************************************************************************)
LEMMA SameItems == Server!Lines = Lines /\ Server!Plan = Plan /\ Server!Complete = Complete
BY DEF Server!Lines, Lines, Server!Plan, Plan, Server!Complete, Complete

\* Items in order, all of them sent, are what the server may find.
LEMMA OrderedIsReceived ==
  ASSUME TypeOK, EveryLineOnce, TakenInv, PlanInv,
         NEW items \in Seq(Items), InOrder(items), AllSent(items)
  PROVE  Server!Received(items)
<1>1. DOMAIN items = 1..Len(items) /\ Len(items) \in Nat /\ \A i \in DOMAIN items : items[i] \in Items
  BY LenProperties, ElementOfSeq
<1>2. ASSUME NEW i \in DOMAIN items, NEW j \in DOMAIN items, i < j, items[j] \in Lines
      PROVE  IF items[i] \in Lines THEN items[i] < items[j] ELSE items[i] = Plan
  BY <1>1, <1>2, ItemKinds DEF InOrder, Before
<1>3. ASSUME NEW i \in DOMAIN items, NEW j \in DOMAIN items, items[i] = Plan, items[j] = Plan
      PROVE  i = j
  <2>1. ~(i < j) /\ ~(j < i)
    BY <1>3 DEF InOrder, Before
  <2> QED BY <1>1, <2>1
<1>4. ASSUME NEW i \in DOMAIN items, items[i] = Complete
      PROVE  i = Len(items)
  <2>1. Len(items) \in DOMAIN items /\ ~(i < Len(items))
    BY <1>1, <1>4 DEF InOrder, Before
  <2> QED BY <1>1, <2>1
<1>5. \A i \in DOMAIN items : items[i] = Plan => planned
  BY DEF AllSent, Sent, PlanInv
<1>6. \A i \in DOMAIN items : items[i] \in Lines => \E k \in DOMAIN accepted : accepted[k] = items[i]
  BY PendingLater DEF AllSent, Sent, WasHanded
<1> QED BY <1>2, <1>3, <1>4, <1>5, <1>6, SameItems DEF Server!Received

LEMMA ArriveReceives ==
  ASSUME WholeInv, Arrive
  PROVE  Server!Receive
<1>1. /\ arrived \in Seq(Items) /\ flight \in Seq(Seq(Items)) /\ flight # <<>>
      /\ arrived' = arrived \o Head(flight) /\ UNCHANGED <<accepted, planned>>
  BY DEF WholeInv, SendingInv, TypeOK, SequencesOK, Arrive
<1> DEFINE first == Head(flight)
           items == arrived \o first
<1>2. 1 \in DOMAIN flight /\ first = flight[1] /\ first \in Seq(Items)
  BY <1>1, RestEntries
<1> HIDE DEF first
<1>3. /\ first # <<>> /\ InOrder(first) /\ AllBefore(arrived, first) /\ AllSent(first)
      /\ InOrder(arrived) /\ AllSent(arrived)
  BY <1>2 DEF WholeInv, WireInv, OrderInv, OriginInv
<1>4. items \in Seq(Items) /\ InOrder(items) /\ AllSent(items)
  BY <1>1, <1>2, <1>3, ConcatInOrder, ConcatSent, ConcatProperties
<1>5. Server!Received(items)
  <2> HIDE DEF items
  <2> QED BY <1>4, OrderedIsReceived DEF WholeInv, SendingInv, WireInv
<1>6. Len(arrived) < Len(items) /\ SubSeq(items, 1, Len(arrived)) = arrived
  <2>1. Len(first) \in Nat \ {0} /\ Len(arrived) \in Nat /\ Len(items) = Len(arrived) + Len(first)
    BY <1>1, <1>2, <1>3, EmptySeq, LenProperties, ConcatProperties
  <2>2. /\ DOMAIN arrived = 1..Len(arrived)
        /\ \A i \in DOMAIN arrived : i \in DOMAIN items /\ items[i] = arrived[i]
    BY <1>1, <1>2, PartsEntries, LenProperties
  <2> HIDE DEF items
  <2>3. /\ SubSeq(items, 1, Len(arrived)) \in Seq(Items)
        /\ Len(SubSeq(items, 1, Len(arrived))) = Len(arrived)
        /\ \A i \in 1..Len(arrived) : SubSeq(items, 1, Len(arrived))[i] = items[i]
    BY <1>4, <2>1, <2>2, SubSeqProperties, LenProperties, ElementOfSeq
  <2>4. SubSeq(items, 1, Len(arrived)) = arrived
    BY <1>1, <2>2, <2>3, SeqEqual
  <2> QED BY <2>1, <2>4
<1>7. arrived' = items
  BY <1>1 DEF first
<1> HIDE DEF items
<1> QED BY <1>1, <1>5, <1>6, <1>7 DEF Server!Receive, Server!Received

LEMMA StepDelivers ==
  ASSUME WholeInv, [Next]_vars
  PROVE  [Server!TakeLine \/ Server!TakePlan \/ Server!Receive]_(Server!delivery)
<1>1. CASE Arrive
  BY <1>1, ArriveReceives
<1>2. CASE arrived' = arrived /\ SendLog /\ UNCHANGED planned
  <2>1. /\ accepted' \in {accepted, Append(accepted, printed')}
        /\ printed < NumLines /\ printed' = printed + 1
    BY <1>2 DEF SendLog
  <2>2. printed \in Nat /\ NumLines \in Nat
    BY SizesAssumption DEF WholeInv, SendingInv, TypeOK, StatesOK
  <2>3. \A i \in DOMAIN accepted : accepted[i] \in Nat /\ accepted[i] <= printed
    BY ItemKinds, ElementOfSeq, LenProperties
       DEF WholeInv, SendingInv, TypeOK, SequencesOK, WireInv, TakenInv
  <2>4. printed' \in Server!Lines /\ Server!Later(printed', accepted)
    BY <2>1, <2>2, <2>3 DEF Server!Lines, Server!Later
  <2> QED BY <1>2, <2>1, <2>4 DEF Server!TakeLine, Server!delivery
<1>3. CASE arrived' = arrived /\ SendPlan /\ UNCHANGED <<accepted, printed>>
  BY <1>3 DEF SendPlan, Exits, WholeInv, WireInv, PlanInv, Server!TakePlan
<1>4. CASE arrived' = arrived /\ UNCHANGED <<accepted, printed, planned>>
  BY <1>4 DEF Server!delivery
<1> QED BY <1>1, <1>2, <1>3, <1>4, ArriveOrNot, TakingSteps DEF WholeInv, SendingInv

\* Whatever breaks, and for any sizes, the server sees a delivery: each line
\* taken at most once and in order, at most one summary, and nothing after the
\* outcome (sendLogBatch, reconnect and drainPending implement LogDelivery).
THEOREM ImplementsDelivery == Spec => ServerSeesDelivery
<1>1. Init => Server!DeliveryInit
  BY DEF Init, Server!DeliveryInit
<1>2. WholeInv /\ [Next]_vars =>
        [Server!TakeLine \/ Server!TakePlan \/ Server!Receive]_(Server!delivery)
  BY StepDelivers
<1> QED BY <1>1, <1>2, WholeCorrect, PTL DEF Spec, ServerSeesDelivery, Server!Delivery
==============================================================================
