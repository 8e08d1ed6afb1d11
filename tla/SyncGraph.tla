-------------------------------- MODULE SyncGraph --------------------------------
(***************************************************************************)
(* What the event-driven runtime promises: ``same CompiledGraph produces   *)
(* identical results as current DataflowGraph.tick()'' (docs/superpowers/  *)
(* specs/2026-04-08-event-driven-ir-runtime-design.md:251).  An event      *)
(* changes sources, and at once every slot, and every output port, has the *)
(* value that running all blocks once, in order, gives it.                 *)
(***************************************************************************)
EXTENDS Ops

CONSTANTS Times, Values    \* what the clock and the other sources can bring

VARIABLES
    blocks,
    readings,   \* what the input ports would return
    values,     \* of the slots
    written     \* what each output port was last given

vars == <<blocks, readings, values, written>>

Init ==
    /\ values = [s \in DOMAIN values |-> 0]
    /\ written = [port \in Ports(blocks) |-> 0]

\* The blocks once and in order, the sources among them or not.
Turn(v, b) == Assigned(v, b, Outputs(b, v, readings))
TurnUnlessSource(v, b) == IF IsSource(b) THEN v ELSE Turn(v, b)

Settle(v) ==
    /\ values' = v
    /\ written' = [port \in DOMAIN written |->
          LET b == CHOOSE b \in Writers(blocks) : b.code.port = port
          IN  v[b.input_slots[1]]]
    /\ UNCHANGED <<blocks, readings>>

\* The clock ticks: the whole graph.
Tick == \E time \in Times : Settle(FoldLeft(Turn, [values EXCEPT ![0] = time], blocks))

\* A source is given a value from outside: all but the sources.
Inject == \E slot \in SourceSlots(blocks), value \in Values :
             Settle(FoldLeft(TurnUnlessSource, [values EXCEPT ![slot] = value], blocks))

\* The world moves on between events.
Sample == readings' # readings /\ UNCHANGED <<blocks, values, written>>

Next == Tick \/ Inject \/ Sample
Spec == Init /\ [][Next]_vars
================================================================================
