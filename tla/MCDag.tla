--------------------------------- MODULE MCDag ---------------------------------
(***************************************************************************)
(* Programs for DagServers: a source, a counter fed back through a topic,  *)
(* a chain, an adder of two topics, one too long for the buffer, one with  *)
(* a topic of debug mode's, and so on.                                     *)
(***************************************************************************)
EXTENDS DagServers

NameDbg == <<"_dbg/0", "_dbg/1", "_dbg/2", "_dbg/3", "_dbg/4">>
NamesLong == {"long"}

Whole(ops) == [ops |-> ops, whole |-> TRUE]
Source  == Whole(<<Const(2), Publish("x", 1), Output("pwm", 2)>>)
Counter == Whole(<<Subscribe("x"), Const(1), Binary("Add", 1, 2), Publish("x", 3)>>)
Chain   == Whole(<<Subscribe("x"), Unary("Neg", 1), Unary("Relu", 2), Publish("y", 2)>>)
Twice   == Whole(<<Const(3), Publish("y", 1), Input("adc"), Publish("y", 3)>>)
Tagged  == Whole(<<Const(1), Publish("long", 1)>>)
TooLong == Whole(<<Const(4), Publish("x", 1), Binary("Mul", 1, 1),
                   Binary("Sub", 3, 1), Publish("y", 4)>>)
Shadow  == Whole(<<Const(5), Publish("_dbg/1", 1)>>)
Forward == Whole(<<Const(1), Binary("Add", 1, 2), Publish("x", 2)>>)
Cut     == [ops |-> <<Const(1)>>, whole |-> FALSE]

Posted == {Source, Counter, Chain, Twice, Tagged, Shadow, TooLong, Forward, Cut}
================================================================================
