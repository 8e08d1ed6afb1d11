-------------------------------- MODULE Lowering --------------------------------
(***************************************************************************)
(* A graph as a program of the event-driven runtime: lower_graph_ir        *)
(* (mlir-codegen/src/lower.rs:718) and the runtime's compile.  Reactive    *)
(* shows that such a program, run event by event, settles where one run of *)
(* its blocks in order does; here that run is compared with the graph's    *)
(* own tick.                                                               *)
(***************************************************************************)
EXTENDS Deployment, Ops

Zero == <<1, 1>>    \* the constant that the program starts with

\* A block on operands in; port names a hardware port of its channel.
Emitted(b, in, next) ==
    LET port == [kind |-> b.kind, channel |-> b.channel]
    IN  CASE b.kind = "constant" -> <<ConstantOp(b.value)>>
          [] b.kind = "gain" -> <<ConstantOp(b.gain), Arith("mul", in[0], <<next, 1>>)>>
          [] b.kind = "add" -> <<Arith("add", in[0], in[1])>>
          [] b.kind = "subtract" -> <<Arith("sub", in[0], in[1])>>
          [] b.kind = "multiply" -> <<Arith("mul", in[0], in[1])>>
          [] b.kind = "clamp" -> <<ClampOp(b.min, b.max, in[0])>>
          [] b.kind = "select" -> <<Nop(<<in[0], in[1], in[2]>>)>>
          [] b.kind \in Sources -> <<Read(port)>>
          [] b.kind \in Sinks -> <<Write(port, in[0])>>

\* The value that feeds an input; zero if no lowered block does.
Operand(acc, id, p) ==
    LET feeds == { c \in channels : /\ c.to = id /\ c.toPort = p
                                    /\ <<c.from, c.fromPort>> \in DOMAIN acc.output_map }
    IN  IF feeds = {} THEN Zero
        ELSE LET c == CHOOSE c \in feeds : TRUE IN acc.output_map[<<c.from, c.fromPort>>]

\* One block of the walk.  acc is [ops, output_map].
FaultyLowered(acc, id) ==    \* a gain's output is its factor
    LET b == blocks[id]
        in == [p \in InputPorts(b) |-> Operand(acc, id, p)]
        ops == acc.ops \o Emitted(b, in, Len(acc.ops) + 1)
        result == IF b.kind \in Sinks THEN << >>
                  ELSE (<<id, 0>> :> <<Len(acc.ops) + 1, 1>>)
    IN  [ops |-> ops, output_map |-> acc.output_map @@ result]
Lowered(acc, id) ==
    LET b == blocks[id]
        in == [p \in InputPorts(b) |-> Operand(acc, id, p)]
        ops == acc.ops \o Emitted(b, in, Len(acc.ops) + 1)
        result == IF b.kind \in Sinks THEN << >> ELSE (<<id, 0>> :> <<Len(ops), 1>>)
    IN  [ops |-> ops, output_map |-> acc.output_map @@ result]

\* lower_graph_ir knows no delay and no state machine, and wants an order.
Lowers ==
    /\ Sorted(DOMAIN blocks, channels, Delays).ok
    /\ \A id \in DOMAIN blocks : blocks[id].kind \notin {"register", "state_machine"}

LoweredGraph ==
    FoldLeft(Lowered, [ops |-> <<ConstantOp(0)>>, output_map |-> << >>],
             Sorted(DOMAIN blocks, channels, Delays).order)

\* A run of the program's blocks on simulated peripherals.  acc is [values, hw].
PortValue(hardware, port) ==
    SimResults([kind |-> port.kind, channel |-> port.channel], hardware)[0]
RunBlock(acc, b) ==
    LET port == b.code.port
        out == IF b.code.op = "read" THEN <<PortValue(acc.hw, port)>>
               ELSE Outputs(b, acc.values, << >>)
    IN  [values |-> Assigned(acc.values, b, out),
         hw |-> IF b.code.op = "write"
                THEN SimWrites(port, One(Inputs(b, acc.values)[1]), acc.hw) ELSE acc.hw]

-------------------------------------------------------------------------------
(* The lowered program gives every port the value that the simulation      *)
(* gives it, and drives the peripherals the same, where every input is     *)
(* driven and no select is used: SSA values are found by port, the factor  *)
(* of a gain is a constant of its own, and an input that no lowered block  *)
(* drives is zero (lower.rs:718, runtime.rs:309).                          *)
LoweringFollows ==
    /\ Runs /\ Lowers
    /\ \A id \in DOMAIN blocks :
          /\ blocks[id].kind # "select"
          /\ \A p \in InputPorts(blocks[id]) : Driven(id, p)
    =>
    LET lowered == LoweredGraph
        program == Compiled(lowered.ops)
        ran == FoldLeft(RunBlock,
                        [values |-> [s \in 0..(SlotCount(lowered.ops) - 1) |-> 0], hw |-> Fresh],
                        program)
        engine == EngineTick(EngineStart)
    IN  /\ engine.hw = ran.hw
        /\ engine.outputs = [key \in DOMAIN lowered.output_map |->
              ran.values[program[lowered.output_map[key][1]].output_slots[1]]]
================================================================================
