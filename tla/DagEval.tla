-------------------------------- MODULE DagEval --------------------------------
(***************************************************************************)
(* DAG programs: dag-core's op.rs (a program is a sequence of ops, each    *)
(* naming only earlier ones), cbor.rs (decode_dag) and eval.rs (evaluate). *)
(*                                                                         *)
(* Node ids are counted from one here.  Numbers are integers; Div and Pow, *)
(* which differ from Mul in the f64 function applied only, are left out.   *)
(* What ticks find in the topics is a function, absent names reading 0.    *)
(***************************************************************************)
EXTENDS Integers, Sequences, FiniteSets, SequencesExt

Const(v)         == [op |-> "Const", args |-> << >>, name |-> "", v |-> v]
Input(name)      == [op |-> "Input", args |-> << >>, name |-> name, v |-> 0]
Subscribe(topic) == [op |-> "Subscribe", args |-> << >>, name |-> topic, v |-> 0]
Output(name, a)  == [op |-> "Output", args |-> <<a>>, name |-> name, v |-> 0]
Publish(topic, a) == [op |-> "Publish", args |-> <<a>>, name |-> topic, v |-> 0]
Unary(op, a)     == [op |-> op, args |-> <<a>>, name |-> "", v |-> 0]
Binary(op, a, b) == [op |-> op, args |-> <<a, b>>, name |-> "", v |-> 0]

(* What an Op can be: a kind with its operands, whose ids are decoded as   *)
(* unsigned.                                                               *)
NullaryOps == {"Const", "Input", "Subscribe"}
UnaryOps == {"Output", "Publish", "Neg", "Relu"}
BinaryOps == {"Add", "Sub", "Mul"}
IsOp(o) ==
    /\ o.op \in NullaryOps \union UnaryOps \union BinaryOps
    /\ o.args \in Seq(Nat \ {0})
    /\ Len(o.args) = CASE o.op \in NullaryOps -> 0
                       [] o.op \in UnaryOps -> 1
                       [] o.op \in BinaryOps -> 2

\* add_op takes o as the next node of a program of count nodes.
Accepts(count, o) == \A k \in DOMAIN o.args : o.args[k] <= count

(* decode_dag of an upload: a sequence of ops, `whole' if the bytes are    *)
(* what a DAG encodes to, and taken only if add_op takes every op.         *)
Decodes(upload) ==
    /\ upload.whole
    /\ \A i \in DOMAIN upload.ops : Accepts(i - 1, upload.ops[i])

Lookup(topics, name) == IF name \in DOMAIN topics THEN topics[name] ELSE 0

\* The value of node o, from the buffer as it stands.
Result(o, buf, topics, channels) ==
    LET A == buf[o.args[1]]
        B == buf[o.args[2]]
    IN  CASE o.op = "Const"     -> o.v
          [] o.op = "Input"     -> Lookup(channels, o.name)
          [] o.op = "Subscribe" -> Lookup(topics, o.name)
          [] o.op \in {"Output", "Publish"} -> A
          [] o.op = "Add"       -> A + B
          [] o.op = "Sub"       -> A - B
          [] o.op = "Mul"       -> A * B
          [] o.op = "Neg"       -> -A
          [] o.op = "Relu"      -> IF A > 0 THEN A ELSE 0

(* evaluate: one pass in program order over a buffer that holds what the   *)
(* last tick left.                                                         *)
Evaluate(dag, topics, channels, buffer) ==
    LET after[n \in 0..Len(dag)] ==
            IF n = 0 THEN buffer
            ELSE LET buf == after[n - 1]
                 IN  [buf EXCEPT ![n] = Result(dag[n], buf, topics, channels)]
    IN  after[Len(dag)]

\* The nodes of one kind, in program order.
Sinks(dag, op) ==
    LET among[n \in 0..Len(dag)] ==
            IF n = 0 THEN << >>
            ELSE IF dag[n].op = op THEN Append(among[n - 1], n) ELSE among[n - 1]
    IN  among[Len(dag)]

\* EvalResult's publishes or outputs, in program order.
Emitted(dag, op, buffer) ==
    [k \in DOMAIN Sinks(dag, op) |-> LET i == Sinks(dag, op)[k]
                                     IN  [name |-> dag[i].name, v |-> buffer[i]]]

\* A map after an insert, and after those of a sequence of writes.
Insert(topics, w) ==
    [name \in DOMAIN topics \union {w.name} |-> IF name = w.name THEN w.v ELSE topics[name]]
InsertAll(topics, writes) == FoldLeft(Insert, topics, writes)

Reads(dag) == { dag[i].name : i \in { j \in DOMAIN dag : dag[j].op = "Subscribe" } }
Names(writes) == { writes[k].name : k \in DOMAIN writes }

NullChannels == [name \in {} |-> 0]
NullPubSub == NullChannels
================================================================================
