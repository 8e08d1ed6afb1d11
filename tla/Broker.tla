-------------------------------- MODULE Broker --------------------------------
(***************************************************************************)
(* A Node: a Broker's subscription table (pubsub/src/broker.rs) polled     *)
(* over a CompositeTransport of two buses (pubsub/src/node.rs).            *)
(*                                                                         *)
(* subscribe hands out a SubHandle, a Copy index into the table, and       *)
(* unsubscribe takes one back.  poll calls recv until it returns Ok(false) *)
(* and dispatches what it gets; one PollStep here is one turn of that      *)
(* loop.  poll borrows the node, so the table cannot change during it, but *)
(* the buses go on receiving.                                              *)
(*                                                                         *)
(* A transport's inbox is what its next calls of recv will find: a frame   *)
(* (Ok(true)), a part of a fragmented frame (Ok(false), can.rs:166,        *)
(* lin.rs:251, pmbus.rs:189) or an error; when it is empty, Ok(false).     *)
(***************************************************************************)
EXTENDS Naturals, Sequences, FiniteSets

CONSTANTS
    MaxSubs,        \* MAX_SUBS, the size of the table
    Clients,        \* the code that subscribes; a client has one handler
    Topics,
    Addresses,      \* destinations a frame may carry, Local among them
    Local,          \* local_addr
    Broadcast,
    Reuses,         \* may a client use a handle again that it gave back?
    Breakable,      \* the buses that may fail for good
    MaxInputs,      \* bound: items waiting on a bus; it may bring any number
    MaxSubscribes   \* bound: calls of subscribe

Buses == {"a", "b"}     \* CompositeTransport's two, in the order of recv
Handles == 1..MaxSubs

ASSUME MaxSubsAssumption == MaxSubs \in Nat \ {0}
ASSUME BoundsAssumption == MaxInputs \in Nat /\ MaxSubscribes \in Nat
ASSUME AddressesAssumption == {Local, Broadcast} \subseteq Addresses
ASSUME SwitchesAssumption == Breakable \subseteq Buses /\ Reuses \in BOOLEAN

VARIABLES
    subs,       \* the table: [active, topic, client] at each index
    live,       \* the subscriptions in force by the calls made so far:
                \* [id, client, topic, handle]
    spent,      \* handles a client still holds of subscriptions it ended
    calls,      \* calls of subscribe that succeeded
    reused,     \* history: has a client used a handle again?
    inbox,      \* inbox[bus]
    broken,     \* buses whose recv fails from now on
    polling,    \* is a poll in progress?
    old,        \* history, old[bus]: of the items waiting, those that were
                \* there when the poll in progress began
    dispatch    \* history: whose handlers the loop's last turn called, and
                \* how many

table == <<subs, live, spent, calls, reused>>
poll == <<polling, old, dispatch>>
vars == <<subs, live, spent, calls, reused,
          inbox, broken, polling, old, dispatch>>

Nobody == [clients |-> {}, times |-> 0]
Empty(client, topic) == [active |-> FALSE, topic |-> topic, client |-> client]

Init ==
    /\ \E c \in Clients, t \in Topics : subs = [h \in Handles |-> Empty(c, t)]
    /\ live = {} /\ spent = {} /\ calls = 0 /\ reused = FALSE
    /\ inbox = [bus \in Buses |-> << >>]
    /\ broken = {}
    /\ polling = FALSE /\ old = [bus \in Buses |-> 0]
    /\ dispatch = Nobody

-------------------------------------------------------------------------------
(* The subscription table.                                                 *)

\* Any slot will do, as if the active flag were not looked at.
FaultyFree(h) == TRUE

Free(h) == ~subs[h].active

(* subscribe: the first free slot; with none free, SubscriptionsFull and   *)
(* nothing changes.                                                        *)
Subscribe(c, t) ==
    /\ ~polling
    /\ calls < MaxSubscribes
    /\ \E h \in Handles :
          /\ Free(h)
          /\ \A g \in 1..(h - 1) : ~Free(g)
          /\ subs' = [subs EXCEPT ![h] =
                         [active |-> TRUE, topic |-> t, client |-> c]]
          /\ live' = live \union
                 {[id |-> calls, client |-> c, topic |-> t, handle |-> h]}
    /\ calls' = calls + 1
    /\ UNCHANGED <<spent, reused, inbox, broken>> /\ UNCHANGED poll

\* unsubscribe: Ok if the slot is active, whoever's it is; else InvalidHandle.
Release(h) ==
    subs' = IF subs[h].active THEN [subs EXCEPT ![h].active = FALSE] ELSE subs

\* A client ends a subscription of its own.
Unsubscribe(s) ==
    /\ ~polling
    /\ s \in live
    /\ Release(s.handle)
    /\ live' = live \ {s}
    /\ spent' = spent \union {s.handle}
    /\ UNCHANGED <<calls, reused, inbox, broken>> /\ UNCHANGED poll

(* A client calls unsubscribe again with a handle it already gave back: an *)
(* error, by BrokerError::InvalidHandle's contract, that ends nothing.     *)
UnsubscribeAgain(h) ==
    /\ ~polling
    /\ Reuses
    /\ h \in spent
    /\ Release(h)
    /\ reused' = TRUE
    /\ UNCHANGED <<live, spent, calls, inbox, broken>> /\ UNCHANGED poll

-------------------------------------------------------------------------------
(* The buses.                                                              *)

\* Only a frame's topic and destination matter.
Frames == [kind : {"frame"}, topic : Topics, dest : Addresses]
Inputs == Frames \union [kind : {"part", "fault"}]

Arrive(bus, input) ==
    /\ Len(inbox[bus]) < MaxInputs
    /\ inbox' = [inbox EXCEPT ![bus] = Append(@, input)]
    /\ UNCHANGED broken /\ UNCHANGED poll /\ UNCHANGED table

\* The peripheral fails for good: a bus gone off, a device gone.
Break(bus) ==
    /\ bus \in Breakable \ broken
    /\ broken' = broken \union {bus}
    /\ UNCHANGED inbox /\ UNCHANGED poll /\ UNCHANGED table

-------------------------------------------------------------------------------
(* poll.                                                                   *)

\* What a transport's recv returns ...
Outcome(bus) ==
    CASE bus \in broken -> "fault"
      [] bus \notin broken /\ inbox[bus] = << >> -> "nothing"
      [] OTHER -> IF Head(inbox[bus]).kind = "part" THEN "nothing"
                  ELSE Head(inbox[bus]).kind

\* ... and what it leaves.
Rest(bus) ==
    IF bus \in broken \/ inbox[bus] = << >> THEN inbox[bus]
    ELSE Tail(inbox[bus])

\* b is never tried.
FaultyAsked == {"a"}

\* CompositeTransport::recv: b is tried only if a has nothing.
Asked == IF Outcome("a") = "nothing" THEN Buses ELSE {"a"}

Answer == IF Asked = Buses THEN Outcome("b") ELSE Outcome("a")
AnswerFrom == IF Asked = Buses THEN "b" ELSE "a"
InboxAfterRecv ==
    [bus \in Buses |-> IF bus \in Asked THEN Rest(bus) ELSE inbox[bus]]

BeginPoll ==
    /\ ~polling
    /\ polling' = TRUE
    /\ old' = [bus \in Buses |-> Len(inbox[bus])]
    /\ UNCHANGED <<inbox, broken, dispatch>> /\ UNCHANGED table

Accepted(frame) == frame.dest \in {Broadcast, Local}

\* Slots left by an unsubscribe are dispatched to as well.
FaultyCalled(frame) == { h \in Handles : subs[h].topic = frame.topic }

\* The slots dispatched to, among active ones.
Called(frame) ==
    { h \in Handles : subs[h].active /\ subs[h].topic = frame.topic }

Dispatch(frame) ==
    IF Accepted(frame)
    THEN [clients |-> { subs[h].client : h \in Called(frame) },
          times |-> Cardinality(Called(frame))]
    ELSE Nobody

\* What is taken was there when the poll began, if anything of that is left.
Takes(bus) == bus \in Asked \ broken /\ inbox[bus] # << >>
OldAfterRecv ==
    [bus \in Buses |-> IF Takes(bus) /\ old[bus] > 0 THEN old[bus] - 1 ELSE old[bus]]

\* A frame for another node ends the poll.
FaultyPollFrame ==
    /\ polling
    /\ Answer = "frame"
    /\ polling' = Accepted(Head(inbox[AnswerFrom]))
    /\ dispatch' = Dispatch(Head(inbox[AnswerFrom]))
    /\ inbox' = InboxAfterRecv /\ old' = OldAfterRecv
    /\ UNCHANGED broken /\ UNCHANGED table

\* A frame for this node is dispatched; one for another is skipped.
PollFrame ==
    /\ polling
    /\ Answer = "frame"
    /\ dispatch' = Dispatch(Head(inbox[AnswerFrom]))
    /\ inbox' = InboxAfterRecv /\ old' = OldAfterRecv
    /\ UNCHANGED <<polling, broken>> /\ UNCHANGED table

\* Ok(false) ends the poll with Ok, an error with that error.
PollEnds ==
    /\ polling
    /\ Answer # "frame"
    /\ polling' = FALSE
    /\ inbox' = InboxAfterRecv /\ old' = [bus \in Buses |-> 0]
    /\ dispatch' = Nobody
    /\ UNCHANGED broken /\ UNCHANGED table

PollStep == PollFrame \/ PollEnds

Next ==
    \/ \E c \in Clients, t \in Topics : Subscribe(c, t)
    \/ \E s \in live : Unsubscribe(s)
    \/ \E h \in Handles : UnsubscribeAgain(h)
    \/ \E bus \in Buses, i \in Inputs : Arrive(bus, i)
    \/ \E bus \in Buses : Break(bus)
    \/ BeginPoll
    \/ PollStep

Spec == Init /\ [][Next]_vars

(* ``Call this in your main loop'' (node.rs:97): the node keeps polling,   *)
(* and a poll, which runs on its own processor, keeps going.               *)
FairSpec == Spec /\ WF_vars(BeginPoll) /\ WF_vars(PollStep)
-------------------------------------------------------------------------------
\* The type of every variable.
TypeOK ==
    /\ subs \in [Handles -> [active : BOOLEAN, topic : Topics,
                             client : Clients]]
    /\ live \subseteq [id : 0..MaxSubscribes, client : Clients,
                       topic : Topics, handle : Handles]
    /\ spent \subseteq Handles
    /\ calls \in 0..MaxSubscribes /\ reused \in BOOLEAN
    /\ inbox \in [Buses -> Seq(Inputs)]
    /\ broken \subseteq Breakable
    /\ polling \in BOOLEAN
    /\ old \in [Buses -> Nat]
    /\ dispatch \in [clients : SUBSET Clients, times : 0..MaxSubs]

(* The table and the subscriptions in force.  Nothing is dispatched to a   *)
(* slot unless its subscription is in force; and until a client uses a     *)
(* handle twice, every subscription in force has a slot of its own that    *)
(* says who listens to what: nobody's subscription ends or is overwritten  *)
(* by another's calls.                                                     *)
Occupies(s) == subs[s.handle] = [active |-> TRUE, topic |-> s.topic,
                                 client |-> s.client]

ActiveIsLive ==
    \A h \in Handles : subs[h].active => \E s \in live : s.handle = h /\ Occupies(s)

LiveIsActive ==
    /\ \A s \in live : Occupies(s)
    /\ \A s, t \in live : s.handle = t.handle => s = t

TableIsLive == ActiveIsLive /\ (~reused => LiveIsActive)

(* A polled frame reaches the handlers of the subscriptions in force for   *)
(* its topic, each once per subscription, and nobody else's, until a       *)
(* client uses a handle twice.                                             *)
Due(topic) == { s \in live : s.topic = topic }
Dispatched(topic) == [clients |-> { s.client : s \in Due(topic) },
                      times |-> Cardinality(Due(topic))]
DispatchIsExact ==
    [][PollFrame /\ ~reused =>
          LET frame == Head(inbox[AnswerFrom])
          IN  dispatch' = IF Accepted(frame) THEN Dispatched(frame.topic)
                          ELSE Nobody]_vars

(* ``Polls drain both'' (node.rs:7): when a poll returns Ok, nothing is    *)
(* left of what either bus had brought before the poll began.  (Unless it  *)
(* has just taken in a part of a frame, which ends a poll too early.)      *)
Leftover(bus) == old[bus] > Len(inbox[bus]) - Len(inbox'[bus])
Drained == \A bus \in Buses : ~Leftover(bus)
TakesPart == \E bus \in Buses : Takes(bus) /\ Head(inbox[bus]).kind = "part"
PollReturnsOk == polling /\ ~polling' /\ Answer # "fault" /\ ~TakesPart
PollDrainsBoth == [][PollReturnsOk => Drained]_vars

(* ``Both transports are polled'' (node.rs:123), as far as it goes: what   *)
(* bus a brings is taken in the end, whatever comes on b and even if b     *)
(* fails for good; what b brings is, once a falls silent, if neither       *)
(* fails.  Passing errors and parts do no harm.  While a goes on bringing  *)
(* frames, recv returns with them before it asks b (node.rs:149).          *)
Served(bus) ==
    []<>(inbox[bus] = << >>) \/ []<><<polling /\ Takes(bus)>>_inbox
BothPolled ==
    /\ []("a" \notin broken) => Served("a")
    /\ [](broken = {}) /\ <>[](inbox["a"] = << >>) => Served("b")
===============================================================================
