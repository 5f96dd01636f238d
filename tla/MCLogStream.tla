----------------------------- MODULE MCLogStream -----------------------------
(***************************************************************************)
(* LogStream for TLC, and what it implements.                              *)
(***************************************************************************)
EXTENDS LogStream

Server == INSTANCE LogDelivery

\* The server sees a delivery, whatever breaks: no line twice or out of order,
\* nothing after the outcome (sendLogBatch, reconnect, drainPending).
ServerSeesDelivery == Server!Delivery
==============================================================================
