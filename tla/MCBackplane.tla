------------------------------ MODULE MCBackplane ------------------------------
(* An instance of Backplane for TLC. *)
EXTENDS Backplane, TLC

CONSTANTS p, q, read, ack

\* Both requests are answered with an ack, which has no handler.
Acks == [t \in Types |-> ack]
ReadServed == [n \in Nodes |-> {read}]
\* Only p asks; q publishes, too.
PAsksQ == (p :> {q}) @@ (q :> {})
QAcks == (q :> {ack}) @@ (p :> {})
===============================================================================
