-------------------------------- MODULE Reactive --------------------------------
(***************************************************************************)
(* The event-driven runtime (mlir-codegen/src/runtime.rs): a compiled      *)
(* program keeps the value of every result in a slot, and a changed slot   *)
(* enqueues the operations that subscribe to it.  The queue is a ring of B *)
(* entries, drained after each event.                                      *)
(***************************************************************************)
EXTENDS Ops

CONSTANTS
    Programs,     \* sequences of operations
    B, S,         \* BLOCKS and SLOTS of CompiledGraph
    MaxSubs,      \* MAX_SUBS_PER_SLOT
    Times,        \* that a tick can carry
    Values        \* that an input port can return or a caller inject

(* A ring of B entries that holds B operations looks empty, so a program   *)
(* has fewer; compile() also accepts B.                                    *)
ASSUME ReactiveAssumption ==
    /\ {B, S, MaxSubs} \subseteq Nat \ {0}
    /\ Times \union Values \subseteq Int
    /\ \A p \in Programs : IsProgram(p) /\ Len(p) < B

VARIABLES
    blocks, state,          \* as compiled; the values of the slots
    subscribers,            \* of each slot: the blocks it enqueues
    queue, queue_head, queue_tail, in_queue,
    hw_in, hw_out,          \* HwBridge: what ports return and were given
    before                  \* slots and ports at the start of the event

graph == <<blocks, subscribers>>
ring == <<queue, queue_head, queue_tail, in_queue>>
vars == <<graph, state, ring, hw_in, hw_out, before>>

\* compile() finds room for the operations and their results.
Compiles(p) == Len(p) <= B /\ SlotCount(p) <= S

(* Who would have a slot enqueue them, in the order of their registration. *)
(* A block that uses a slot twice is there twice, and sources subscribe to *)
(* the clock.                                                              *)
Applicants(bs, slot) ==
    LET Use(b, i) == IF bs[b].input_slots[i] = slot THEN <<b>> ELSE << >>
        Uses(b) == FlattenSeq([i \in DOMAIN bs[b].input_slots |-> Use(b, i)])
        Fires(b) == IF slot = 0 /\ IsSource(bs[b]) THEN <<b>> ELSE << >>
    IN  FlattenSeq([b \in DOMAIN bs |-> Uses(b) \o Fires(b)])

\* Those past MaxSubs are dropped.
Subscribers(bs, slot) ==
    SubSeq(Applicants(bs, slot), 1, Min({Len(Applicants(bs, slot)), MaxSubs}))

\* enqueue_subscribers for one subscriber.  q is [queue, tail, in_queue].
FaultyEnqueue(q, b) ==    \* not asked whether it is in the queue
    [queue |-> [q.queue EXCEPT ![q.tail] = b], tail |-> (q.tail + 1) % B,
     in_queue |-> [q.in_queue EXCEPT ![b] = TRUE]]
Enqueue(q, b) ==
    IF q.in_queue[b] THEN q
    ELSE [queue |-> [q.queue EXCEPT ![q.tail] = b], tail |-> (q.tail + 1) % B,
          in_queue |-> [q.in_queue EXCEPT ![b] = TRUE]]

\* enqueue_subscribers, and that for each of the slots that have changed.
EnqueueSubscribers(q, slot) == FoldLeft(Enqueue, q, subscribers[slot])
EnqueueAll(q, slots, changed) ==
    FoldLeft(LAMBDA r, s : IF s \in changed THEN EnqueueSubscribers(r, s) ELSE r, q, slots)

Ring == [queue |-> queue, tail |-> queue_tail, in_queue |-> in_queue]
SetRing(q) == queue' = q.queue /\ queue_tail' = q.tail /\ in_queue' = q.in_queue

idle == queue_head = queue_tail

\* The index after a dequeue.
FaultyNextHead == queue_head
NextHead == (queue_head + 1) % B

\* The slots to which a block gives a new value.
FaultyChanged(b, out) ==    \* a rising value only
    { s \in Range(b.output_slots) : Assigned(state, b, out)[s] > state[s] }
Changed(b, out) ==
    { s \in Range(b.output_slots) : Assigned(state, b, out)[s] # state[s] }

-------------------------------------------------------------------------------
Init ==
    /\ blocks \in { Compiled(p) : p \in { q \in Programs : Compiles(q) } }
    /\ subscribers = [s \in {0} \union UNION { Range(b.output_slots) : b \in Range(blocks) } |->
                         Subscribers(blocks, s)]
    /\ state = [s \in DOMAIN subscribers |-> 0]
    /\ queue = [i \in 0..(B - 1) |-> 0] /\ queue_head = 0 /\ queue_tail = 0
    /\ in_queue = [b \in DOMAIN blocks |-> FALSE]
    /\ hw_in \in [{ b.code.port : b \in { c \in Range(blocks) :
                        c.code.op \in {"read", "encoder_read"} } } -> Values]
    /\ hw_out = [port \in Ports(blocks) |-> 0]
    /\ before = [state |-> state, hw_out |-> hw_out]

\* inject, up to its loop: the subscribers run even if the value is the same.
Inject(slot, value) ==
    /\ idle /\ slot \in DOMAIN state
    /\ state' = [state EXCEPT ![slot] = value]
    /\ SetRing(EnqueueAll(Ring, <<slot>>, {slot}))
    /\ before' = [state |-> state, hw_out |-> hw_out]
    /\ UNCHANGED <<graph, queue_head, hw_in, hw_out>>

Tick(time) == Inject(0, time)

\* One turn of propagate's loop: dequeue, execute, cascade.
Step ==
    /\ ~idle
    /\ LET i == queue[queue_head]
           b == blocks[i]
           out == Outputs(b, state, hw_in)
       IN  /\ state' = Assigned(state, b, out)
           /\ SetRing(EnqueueAll([Ring EXCEPT !.in_queue[i] = FALSE],
                                 b.output_slots, Changed(b, out)))
           /\ queue_head' = NextHead
           /\ hw_out' = IF b.code.op = "write"
                        THEN [hw_out EXCEPT ![b.code.port] = Inputs(b, state)[1]] ELSE hw_out
    /\ UNCHANGED <<graph, hw_in, before>>

\* The world: an input port has another value.  Not while an event runs.
Sample(port, value) ==
    /\ idle
    /\ hw_in' = [hw_in EXCEPT ![port] = value]
    /\ UNCHANGED <<graph, state, ring, hw_out, before>>

Next ==
    \/ \E time \in Times : Tick(time)
    \/ \E slot \in SourceSlots(blocks), value \in Values : Inject(slot, value)
    \/ Step
    \/ \E port \in DOMAIN hw_in, value \in Values : Sample(port, value)

Spec == Init /\ [][Next]_vars
\* inject does not return before the queue is empty.
FairSpec == Spec /\ WF_vars(Step)

-------------------------------------------------------------------------------
Pending == { (queue_head + k) % B : k \in 0..(((queue_tail - queue_head) % B) - 1) }

(* in_queue says exactly which operations the ring holds, each once: an    *)
(* operation that is wrongly marked never runs again, one that is wrongly  *)
(* not marked overflows the ring, which nothing checks (runtime.rs:187).   *)
QueueExact ==
    /\ \A b \in DOMAIN blocks : in_queue[b] <=> \E i \in Pending : queue[i] = b
    /\ \A i, j \in Pending : queue[i] = queue[j] => i = j

(* Every event ends, however often operations are enqueued again while     *)
(* their inputs change one after the other (runtime.rs:202).               *)
PropagationEnds == ~idle ~> idle

(* Programs on which a change is enough: nobody was dropped from a list of *)
(* subscribers, no two operations write one port, and a clamp keeps the 0  *)
(* that every slot starts with.                                            *)
Regular ==
    /\ \A b \in DOMAIN blocks :
          /\ \A slot \in Range(blocks[b].input_slots) : b \in Range(subscribers[slot])
          /\ IsSource(blocks[b]) => b \in Range(subscribers[0])
    /\ \A b, c \in DOMAIN blocks :
          blocks[b].code.op = "write" /\ blocks[c].code.op = "write"
              /\ blocks[b].code.port = blocks[c].code.port => b = c
    /\ \A b \in Range(blocks) :
          b.code.op = "clamp" => b.code.lo <= 0 /\ 0 <= b.code.hi

(* Seen from outside an event, the slots and ports are what evaluating the *)
(* whole program once, in order, on the new sources gives: no stale value  *)
(* and no mixture of old and new ones is left (runtime.rs:223).            *)
Shown == IF idle THEN [state |-> state, hw_out |-> hw_out] ELSE before
Sync == INSTANCE SyncGraph WITH blocks <- blocks, readings <- hw_in,
                                values <- Shown.state, written <- Shown.hw_out
SyncGraphSpec == (Regular => Sync!Init) /\ [][Regular => Sync!Next]_(Sync!vars)
================================================================================
