-------------------------------- MODULE Dataflow --------------------------------
(***************************************************************************)
(* The dataflow graph of the block editor: crates/rustsim/src/dataflow/    *)
(* graph.rs behind the API of crates/rustsim/src/lib.rs.  Blocks and       *)
(* channels are edited between ticks; a tick runs every block once, in     *)
(* topological order, and keeps each output port's last value.             *)
(***************************************************************************)
EXTENDS BlockLibrary, Topo

CONSTANTS
    Library,       \* the blocks that users create
    Channels,      \* ADC and PWM channels, and pins
    Voltages,      \* the ADC values users set
    MaxBlockId,    \* bound: blocks ever added
    MaxChannels,   \* bound: channels at a time
    MaxTicks,      \* bound: ticks
    MaxEdits       \* bound: edits once the graph has ticked

ASSUME DataflowAssumption ==
    /\ MaxBlockId \in Nat /\ MaxChannels \in Nat /\ MaxTicks \in Nat /\ MaxEdits \in Nat
    /\ Library \subseteq BlockRecords(Channels)
    /\ Voltages \subseteq Int /\ Absent \notin Int

VARIABLES
    blocks,            \* HashMap<BlockId, Box<dyn Module>>
    channels,          \* Vec<Channel>, without their ids: the input names one
    next_block_id,
    outputs,           \* values of the last tick by <<block, port>>
    stored,            \* the stored_value of each register
    simulation_mode,
    attached,          \* sim_peripherals.is_some()
    hw,                \* what WasmSimPeripherals holds
    tick_count,
    edits              \* history: edits since the first tick

graph == <<blocks, channels, next_block_id>>
sim == <<simulation_mode, attached, hw>>
vars == <<graph, outputs, stored, sim, tick_count, edits>>

Init ==
    /\ blocks = << >> /\ channels = {} /\ next_block_id = 1
    /\ outputs = << >> /\ stored = << >>
    /\ simulation_mode = FALSE /\ attached = FALSE /\ hw = NoPeripherals(Channels)
    /\ tick_count = 0 /\ edits = 0

-------------------------------------------------------------------------------
(* Editing.                                                                *)

Drop(f, S) == [x \in DOMAIN f \ S |-> f[x]]
FaultyPortsOf(id) == { key \in DOMAIN outputs : key = <<id, 0>> }    \* the first only
PortsOf(id) == { key \in DOMAIN outputs : key[1] = id }

Edit ==
    /\ tick_count > 0 => edits < MaxEdits
    /\ edits' = IF tick_count > 0 THEN edits + 1 ELSE 0

\* A new block in place of id, with its initial state.
Put(id, b) ==
    /\ blocks' = [x \in DOMAIN blocks \union {id} |-> IF x = id THEN b ELSE blocks[x]]
    /\ stored' = IF b.kind = "register"
                 THEN [x \in DOMAIN stored \union {id} |->
                          IF x = id THEN b.initial_value ELSE stored[x]]
                 ELSE Drop(stored, {id})

AddBlock(b) ==
    /\ next_block_id <= MaxBlockId
    /\ Put(next_block_id, b)
    /\ next_block_id' = next_block_id + 1
    /\ Edit
    /\ UNCHANGED <<channels, outputs, sim, tick_count>>

\* A channel that ports of the block in place of id leave without an end.
FaultyDangles(c, id, b) == c.to = id /\ c.toPort \notin InputPorts(b)    \* inputs only
Dangles(c, id, b) ==
    \/ c.to = id /\ c.toPort \notin InputPorts(b)
    \/ c.from = id /\ c.fromPort \notin OutputPorts(b)

ReplaceBlock(id, b) ==
    /\ id \in DOMAIN blocks
    /\ Put(id, b)
    /\ outputs' = Drop(outputs, PortsOf(id))
    /\ channels' = { c \in channels : ~Dangles(c, id, b) }
    /\ Edit
    /\ UNCHANGED <<next_block_id, sim, tick_count>>

RemoveBlock(id) ==
    /\ id \in DOMAIN blocks
    /\ blocks' = Drop(blocks, {id})
    /\ stored' = Drop(stored, {id})
    /\ channels' = { c \in channels : c.from # id /\ c.to # id }
    /\ outputs' = Drop(outputs, PortsOf(id))
    /\ Edit
    /\ UNCHANGED <<next_block_id, sim, tick_count>>

Driven(id, port) == \E c \in channels : c.to = id /\ c.toPort = port

Connect(from, fromPort, to, toPort) ==
    /\ {from, to} \subseteq DOMAIN blocks
    /\ fromPort \in OutputPorts(blocks[from])
    /\ toPort \in InputPorts(blocks[to])
    /\ ~Driven(to, toPort)
    /\ Cardinality(channels) < MaxChannels
    /\ channels' = channels \union
            {[from |-> from, fromPort |-> fromPort, to |-> to, toPort |-> toPort]}
    /\ Edit
    /\ UNCHANGED <<blocks, next_block_id, outputs, stored, sim, tick_count>>

Disconnect(c) ==
    /\ c \in channels
    /\ channels' = channels \ {c}
    /\ Edit
    /\ UNCHANGED <<blocks, next_block_id, outputs, stored, sim, tick_count>>

-------------------------------------------------------------------------------
(* Simulated hardware.                                                     *)

\* Peripherals are made when the mode is first enabled, and stay.
SetSimulationMode(enabled) ==
    /\ simulation_mode' = enabled
    /\ attached' = (attached \/ enabled)
    /\ UNCHANGED <<graph, outputs, stored, hw, tick_count, edits>>

\* Says Ok and does nothing while there are no peripherals.
SetSimAdc(channel, voltage) ==
    /\ hw' = IF attached THEN [hw EXCEPT !.adc[channel] = voltage] ELSE hw
    /\ UNCHANGED <<graph, outputs, stored, simulation_mode, attached, tick_count, edits>>

-------------------------------------------------------------------------------
(* Ticking.                                                                *)

Delays == { id \in DOMAIN blocks : IsDelay(blocks[id]) }

\* The order of a tick: by id when the sort finds a cycle.
TickOrder ==
    LET sorted == Sorted(DOMAIN blocks, channels, Delays)
    IN  IF sorted.ok THEN sorted.order ELSE SortIds(DOMAIN blocks)

\* What a block finds on its inputs, given everyone's outputs.
Gather(outs, id) ==
    [p \in InputPorts(blocks[id]) |->
        LET feeds == { c \in channels : /\ c.to = id /\ c.toPort = p
                                        /\ <<c.from, c.fromPort>> \in DOMAIN outs }
        IN  IF feeds = {} THEN Absent
            ELSE LET c == CHOOSE c \in feeds : TRUE IN outs[<<c.from, c.fromPort>>]]

\* Results replace the values of their ports; None removes a value.
Publish(outs, id, results) ==
    LET new == { <<id, p>> : p \in { q \in DOMAIN results : results[q] # Absent } }
        old == DOMAIN outs \ { <<id, p>> : p \in DOMAIN results }
    IN  [key \in old \union new |-> IF key \in new THEN results[key[2]] ELSE outs[key]]

\* One block's turn.  acc is [outputs, stored, hw].
Visit(acc, id) ==
    LET b == blocks[id]
        in == Gather(acc.outputs, id)
        simulated == simulation_mode /\ b.kind \in Peripherals
        results == IF simulated THEN SimResults(b, acc.hw)
                   ELSE Results(b, in, IF IsDelay(b) THEN acc.stored[id] ELSE 0)
    IN  [outputs |-> Publish(acc.outputs, id, results),
         stored |-> IF IsDelay(b) /\ in[0] # Absent
                    THEN [acc.stored EXCEPT ![id] = in[0]] ELSE acc.stored,
         hw |-> IF simulated THEN SimWrites(b, in, acc.hw) ELSE acc.hw]

Tick ==
    /\ tick_count < MaxTicks
    /\ LET after == FoldLeft(Visit, [outputs |-> outputs, stored |-> stored, hw |-> hw],
                             TickOrder)
       IN  outputs' = after.outputs /\ stored' = after.stored /\ hw' = after.hw
    /\ tick_count' = tick_count + 1
    /\ UNCHANGED <<graph, simulation_mode, attached, edits>>

-------------------------------------------------------------------------------
Next ==
    \/ \E b \in Library : AddBlock(b)
    \/ \E id \in DOMAIN blocks :
          \/ \E b \in Library : ReplaceBlock(id, b)
          \/ RemoveBlock(id)
    \/ \E from, to \in DOMAIN blocks :
          \E p \in OutputPorts(blocks[from]), q \in InputPorts(blocks[to]) :
              Connect(from, p, to, q)
    \/ \E c \in channels : Disconnect(c)
    \/ \E enabled \in BOOLEAN : SetSimulationMode(enabled)
    \/ \E channel \in Channels, v \in Voltages : SetSimAdc(channel, v)
    \/ Tick

Spec == Init /\ [][Next]_vars
-------------------------------------------------------------------------------
(* What edits and ticks keep.                                              *)

(* Whatever is added, replaced and removed, in whatever order: a channel   *)
(* joins two ports that exist, and an input has one driver, so what a      *)
(* block reads does not depend on the order of the channels (graph.rs:166, *)
(* 181 and 192, and the gathering at 297).  A value is stored for exactly  *)
(* the registers there are.                                                *)
WiringSound ==
    /\ DOMAIN stored = Delays
    /\ \A c \in channels :
          /\ {c.from, c.to} \subseteq DOMAIN blocks
          /\ c.fromPort \in OutputPorts(blocks[c.from])
          /\ c.toPort \in InputPorts(blocks[c.to])
    /\ \A c, d \in channels : c.to = d.to /\ c.toPort = d.toPort => c = d

(* The snapshot never shows a value of a port that is gone, nor one that   *)
(* the block now at that id could not have computed, whatever stood there  *)
(* before (graph.rs:171 and 186).                                          *)
Plausible(b, Out(_)) ==
    CASE b.kind = "constant" -> Out(0) = b.value
      [] b.kind = "clamp" -> Out(0) \in b.min..b.max
      [] b.kind = "state_machine" ->
            \A p \in 1..b.states : Out(p) = IF p - 1 = Out(0) THEN 1 ELSE 0
      [] OTHER -> TRUE
OutputsHonest ==
    /\ \A key \in DOMAIN outputs :
          key[1] \in DOMAIN blocks /\ key[2] \in OutputPorts(blocks[key[1]])
    /\ \A id \in { key[1] : key \in DOMAIN outputs } :
          LET Out(p) == outputs[<<id, p>>] IN Plausible(blocks[id], Out)

(* A tick is synchronous although it runs the blocks one after the other,  *)
(* updating the outputs in place (graph.rs:252-346): unless blocks feed    *)
(* each other in a loop with no register in it, every block shows what it  *)
(* makes of the values its inputs have in this same tick, a register what  *)
(* it had stored, and a duty is the one its sink's input has now.          *)
Shown(outs, id) ==
    [p \in OutputPorts(blocks[id]) |->
        IF <<id, p>> \in DOMAIN outs THEN outs[<<id, p>>] ELSE Absent]
OnlySink(id) == \A other \in DOMAIN blocks : blocks[other] = blocks[id] => other = id
Synchronous(id) ==
    LET b == blocks[id]
        in == Gather(outputs', id)
    IN  CASE IsDelay(b) -> Shown(outputs', id) = One(stored[id])
          [] b.kind \in Sources -> simulation_mode /\ b.kind = "adc_source" =>
                Shown(outputs', id) = One(hw.adc[b.channel])
          [] b.kind \in Sinks -> simulation_mode /\ b.kind = "pwm_sink" /\ OnlySink(id) =>
                hw'.pwm[b.channel] = IF in[0] = Absent THEN hw.pwm[b.channel] ELSE in[0]
          [] OTHER -> Shown(outputs', id) = Results(b, in, 0)
TickIsSynchronous ==
    [][tick_count' # tick_count /\ Sorted(DOMAIN blocks, channels, Delays).ok =>
          \A id \in DOMAIN blocks : Synchronous(id)]_vars
================================================================================
