----------------------------- MODULE LogDelivery -----------------------------
(***************************************************************************)
(* What the log stream promises the backend (LogStream implements it).     *)
(*                                                                         *)
(* The lines of an execution are taken in the order they are printed, some *)
(* are never taken. The server receives some of those taken, each of them  *)
(* once and in their order; at most one plan summary; and after the        *)
(* outcome of the execution nothing more.                                  *)
(***************************************************************************)
EXTENDS Integers, Sequences

CONSTANT NumLines  \* lines are numbered as they are printed

Lines == 1..NumLines
Plan == NumLines + 1
Complete == NumLines + 2

VARIABLES
  accepted,  \* the lines taken
  planned,   \* a plan summary was taken
  arrived    \* what the server has received

delivery == <<accepted, planned, arrived>>

Later(line, lines) == \A i \in DOMAIN lines : lines[i] < line

\* What the server may find when it looks back.
Received(items) ==
  /\ \A i, j \in DOMAIN items : i < j /\ items[j] \in Lines =>
       IF items[i] \in Lines THEN items[i] < items[j] ELSE items[i] = Plan
  /\ \A i, j \in DOMAIN items : items[i] = Plan /\ items[j] = Plan => i = j
  /\ \A i \in DOMAIN items : items[i] = Complete => i = Len(items)
  /\ \A i \in DOMAIN items : items[i] = Plan => planned
  /\ \A i \in DOMAIN items : items[i] \in Lines => \E k \in DOMAIN accepted : accepted[k] = items[i]

DeliveryInit == accepted = <<>> /\ planned = FALSE /\ arrived = <<>>

TakeLine ==
  /\ \E line \in Lines : Later(line, accepted) /\ accepted' = Append(accepted, line)
  /\ UNCHANGED <<planned, arrived>>

TakePlan ==
  /\ ~planned /\ planned' = TRUE
  /\ UNCHANGED <<accepted, arrived>>

\* A message arrives: a batch of lines, the summary or the outcome.
Receive ==
  /\ Len(arrived) < Len(arrived') /\ SubSeq(arrived', 1, Len(arrived)) = arrived
  /\ Received(arrived')
  /\ UNCHANGED <<accepted, planned>>

Delivery == DeliveryInit /\ [][TakeLine \/ TakePlan \/ Receive]_delivery
==============================================================================
