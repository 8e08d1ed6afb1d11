--------------------------------- MODULE Mesh ---------------------------------
(***************************************************************************)
(* A network of MeshRouters (pubsub/src/router.rs) joined by point-to-     *)
(* point transports.  Every site runs a router and, beside it, a local     *)
(* broker that may subscribe and publish; an end node is a site with one   *)
(* link.  Each link carries frames in order in both directions; a send     *)
(* that fails is ignored by every caller in router.rs, so with Lossy any   *)
(* send may silently not happen.                                           *)
(*                                                                         *)
(* The operators named Faulty* are plausible slips in that code.  Each one *)
(* breaks a property when it takes the real operator's place.              *)
(*                                                                         *)
(* One action per call: advertise_subscribe, advertise_unsubscribe, a      *)
(* publish, and poll_iface once for each kind of frame it can receive.     *)
(***************************************************************************)
EXTENDS Naturals, FiniteSets, Sequences

CONSTANTS
    Sites,      \* the node addresses, one router each
    Links,      \* the directed links <<a, b>>: both directions of each cable
    MaxRoutes,  \* MAX_ROUTES, the capacity of a routing table
    Topics,     \* application topics (the two control topics are separate)
    Broadcast,  \* NodeAddr::BROADCAST
    Dests,      \* the destinations publishers use
    Publishers, \* the sites that publish
    Clients,    \* Clients[t]: the sites that may subscribe to topic t
    Leavers,    \* the sites that may unsubscribe
    MaxOps,     \* bound: subscribe and unsubscribe calls in a behaviour
    MaxData,    \* bound: data frames published in a behaviour
    Lossy       \* may a transport's send fail?

ASSUME LinksAssumption ==
    /\ Links \subseteq (Sites \X Sites)
    /\ \A l \in Links : <<l[2], l[1]>> \in Links /\ l[1] # l[2]
ASSUME MaxRoutesAssumption == MaxRoutes \in Nat
ASSUME BroadcastAssumption == Broadcast \notin Sites
ASSUME DestsAssumption == Dests \subseteq Sites \union {Broadcast}
ASSUME PublishersAssumption == Publishers \subseteq Sites
ASSUME ClientsAssumption == Clients \in [Topics -> SUBSET Sites]
ASSUME LeaversAssumption == Leavers \subseteq Sites
ASSUME BoundsAssumption == MaxOps \in Nat /\ MaxData \in Nat
ASSUME LossyAssumption == Lossy \in BOOLEAN

VARIABLES
    routes,     \* routes[s]: the routing table of s
    chan,       \* chan[<<a, b>>]: frames sent by a, not yet received by b
    wants,      \* wants[s]: topics the local broker of s is subscribed to
    heard,      \* heard[s][d]: times the broker of s was handed data frame d
    published,  \* data frames published so far; also the next frame's number
    ops,        \* subscribe and unsubscribe calls so far
    came,       \* history: came[t], the sites that have ever subscribed to t
    gone        \* history: gone[t], the sites that have ever unsubscribed from t

calls == <<wants, ops, came, gone>>
vars == <<routes, chan, wants, heard, published, ops, came, gone>>

Nbrs(s) == { n \in Sites : <<s, n>> \in Links }

DataIds == 1..MaxData

-------------------------------------------------------------------------------
(* The routing table of a router.  The code keeps an array of MAX_ROUTES   *)
(* slots with an `active' flag.  add_route refuses an entry that is        *)
(* already active, so the active entries are a set; the slot an entry      *)
(* lives in is never observed.                                             *)

(* A (topic, iface, remote) entry.  An interface is named by the site at   *)
(* the far end of its link.                                                *)
Route(topic, iface, remote) ==
    [topic |-> topic, iface |-> iface, remote |-> remote]

\* The test handle_unsubscribe calls `still_wanted'.
HasTopic(table, topic) == \E r \in table : r.topic = topic

FaultyHasAnyRoute(table, topic, iface) == HasTopic(table, topic)

HasAnyRoute(table, topic, iface) ==
    \E r \in table : r.topic = topic /\ r.iface = iface

\* add_route returns Ok(true) exactly here ...
Inserts(table, route) ==
    route \notin table /\ Cardinality(table) < MaxRoutes

\* ... and leaves the table alone on Ok(false) and on Err(RoutesFull).
AddRoute(table, route) ==
    IF Inserts(table, route) THEN table \union {route} ELSE table

\* remove_route returns true exactly when `route' is in the table.
RemoveRoute(table, route) == table \ {route}

-------------------------------------------------------------------------------
(* Frames.  Only what routing looks at: the two control topics carry a     *)
(* SubscribeAnnouncement, everything else is data.                         *)

Announce(kind, topic, remote) ==
    [kind |-> kind, topic |-> topic, remote |-> remote]

Data(topic, dest, id) ==
    [kind |-> "data", topic |-> topic, dest |-> dest, id |-> id]

Announcements ==
    [kind : {"sub", "unsub"}, topic : Topics, remote : Sites]

DataFrames ==
    [kind : {"data"}, topic : Topics, dest : Dests, id : DataIds]

Frames == Announcements \union DataFrames

-------------------------------------------------------------------------------
(* Transports.                                                             *)

\* The sends of one loop over transports: to each of `targets', best effort.
Sent(s, targets, frame, before) ==
    \E got \in (IF Lossy THEN SUBSET targets ELSE {targets}) :
        chan' = [l \in Links |->
                    IF l[1] = s /\ l[2] \in got THEN Append(before[l], frame)
                                                ELSE before[l]]

\* The frame poll_iface takes from interface i, and what is left behind.
Arrived(r, i, kind) ==
    /\ <<i, r>> \in Links
    /\ chan[<<i, r>>] # << >>
    /\ Head(chan[<<i, r>>]).kind = kind

Incoming(r, i) == Head(chan[<<i, r>>])

Received(r, i) == [chan EXCEPT ![<<i, r>>] = Tail(@)]

-------------------------------------------------------------------------------
Init ==
    /\ routes = [s \in Sites |-> {}]
    /\ chan = [l \in Links |-> << >>]
    /\ wants = [s \in Sites |-> {}]
    /\ heard = [s \in Sites |-> [d \in DataIds |-> 0]]
    /\ published = 0
    /\ ops = 0
    /\ came = [t \in Topics |-> {}] /\ gone = [t \in Topics |-> {}]

(* The local broker of s subscribes, and s advertises it on every          *)
(* transport.  s records no route for its own demand.                      *)
Subscribe(s, t) ==
    /\ ops < MaxOps
    /\ s \in Clients[t]
    /\ t \notin wants[s]
    /\ wants' = [wants EXCEPT ![s] = @ \union {t}]
    /\ Sent(s, Nbrs(s), Announce("sub", t, s), chan)
    /\ ops' = ops + 1
    /\ came' = [came EXCEPT ![t] = @ \union {s}]
    /\ UNCHANGED <<routes, heard, published, gone>>

Unsubscribe(s, t) ==
    /\ ops < MaxOps
    /\ s \in Leavers
    /\ t \in wants[s]
    /\ wants' = [wants EXCEPT ![s] = @ \ {t}]
    /\ Sent(s, Nbrs(s), Announce("unsub", t, s), chan)
    /\ ops' = ops + 1
    /\ gone' = [gone EXCEPT ![t] = @ \union {s}]
    /\ UNCHANGED <<routes, heard, published, came>>

\* A node publishes: one frame on each of its transports.
Publish(s, t, dest) ==
    /\ s \in Publishers
    /\ published < MaxData
    /\ published' = published + 1
    /\ Sent(s, Nbrs(s), Data(t, dest, published + 1), chan)
    /\ UNCHANGED <<routes, heard>> /\ UNCHANGED calls

(* handle_subscribe: the interfaces a newly recorded demand is passed on   *)
(* to, `table' being the table that already has the new entry.             *)
ReemitTo(table, r, i, t) == { j \in Nbrs(r) \ {i} : ~HasAnyRoute(table, t, j) }

\* Faulty: floods what it hears without consulting the table.
FloodingPollSubscribe(r, i) ==
    /\ Arrived(r, i, "sub")
    /\ LET f == Incoming(r, i)
       IN  /\ routes' = [routes EXCEPT ![r] = AddRoute(@, Route(f.topic, i, f.remote))]
           /\ Sent(r, Nbrs(r) \ {i}, f, Received(r, i))
    /\ UNCHANGED <<heard, published>> /\ UNCHANGED calls

\* Faulty: passes the demand on although the table was full.
FaultyPollSubscribe(r, i) ==
    /\ Arrived(r, i, "sub")
    /\ LET f == Incoming(r, i)
           route == Route(f.topic, i, f.remote)
           table == AddRoute(routes[r], route)
       IN  /\ routes' = [routes EXCEPT ![r] = table]
           /\ IF route \notin routes[r]
              THEN Sent(r, ReemitTo(table, r, i, f.topic), f, Received(r, i))
              ELSE chan' = Received(r, i)
    /\ UNCHANGED <<heard, published>> /\ UNCHANGED calls

(* handle_subscribe.  A duplicate and a full table (RoutesFull, returned   *)
(* by `?') both end the call before anything is re-emitted.                *)
PollSubscribe(r, i) ==
    /\ Arrived(r, i, "sub")
    /\ LET f == Incoming(r, i)
           route == Route(f.topic, i, f.remote)
           table == AddRoute(routes[r], route)
       IN  /\ routes' = [routes EXCEPT ![r] = table]
           /\ IF Inserts(routes[r], route)
              THEN Sent(r, ReemitTo(table, r, i, f.topic), f, Received(r, i))
              ELSE chan' = Received(r, i)
    /\ UNCHANGED <<heard, published>> /\ UNCHANGED calls

\* Faulty: passes every withdrawal on, whatever demand is left.
HastyPollUnsubscribe(r, i) ==
    /\ Arrived(r, i, "unsub")
    /\ LET f == Incoming(r, i)
           route == Route(f.topic, i, f.remote)
       IN  /\ routes' = [routes EXCEPT ![r] = RemoveRoute(@, route)]
           /\ IF route \in routes[r]
              THEN Sent(r, Nbrs(r) \ {i}, f, Received(r, i))
              ELSE chan' = Received(r, i)
    /\ UNCHANGED <<heard, published>> /\ UNCHANGED calls

\* Faulty: drops the entry and tells nobody.
FaultyPollUnsubscribe(r, i) ==
    /\ Arrived(r, i, "unsub")
    /\ LET f == Incoming(r, i)
           route == Route(f.topic, i, f.remote)
       IN  /\ routes' = [routes EXCEPT ![r] = RemoveRoute(@, route)]
           /\ chan' = Received(r, i)
    /\ UNCHANGED <<heard, published>> /\ UNCHANGED calls

(* handle_unsubscribe: withdrawn from the other interfaces only when no    *)
(* entry for the topic is left, whatever interface it is for.              *)
PollUnsubscribe(r, i) ==
    /\ Arrived(r, i, "unsub")
    /\ LET f == Incoming(r, i)
           route == Route(f.topic, i, f.remote)
           left == RemoveRoute(routes[r], route)
       IN  /\ routes' = [routes EXCEPT ![r] = left]
           /\ IF route \in routes[r] /\ ~HasTopic(left, f.topic)
              THEN Sent(r, Nbrs(r) \ {i}, f, Received(r, i))
              ELSE chan' = Received(r, i)
    /\ UNCHANGED <<heard, published>> /\ UNCHANGED calls

FaultyForwardTo(table, r, i, t) == { j \in Nbrs(r) : HasAnyRoute(table, t, j) }

\* The interfaces a data frame from interface i is forwarded to.
ForwardTo(table, r, i, t) == { j \in Nbrs(r) \ {i} : HasAnyRoute(table, t, j) }

(* A data frame: forwarded on demand and, when it is for this node or for  *)
(* everyone, handed to the local broker, which dispatches it to its        *)
(* subscribers of the topic.  The count of deliveries saturates at 2.      *)
PollData(r, i) ==
    /\ Arrived(r, i, "data")
    /\ LET f == Incoming(r, i)
           local == f.dest \in {Broadcast, r} /\ f.topic \in wants[r]
       IN  /\ Sent(r, ForwardTo(routes[r], r, i, f.topic), f, Received(r, i))
           /\ heard' = IF local /\ heard[r][f.id] < 2
                       THEN [heard EXCEPT ![r][f.id] = @ + 1]
                       ELSE heard
    /\ UNCHANGED <<routes, published>> /\ UNCHANGED calls

Poll(r, i) == PollSubscribe(r, i) \/ PollUnsubscribe(r, i) \/ PollData(r, i)

Next ==
    \/ \E s \in Sites, t \in Topics : Subscribe(s, t) \/ Unsubscribe(s, t)
    \/ \E s \in Sites, t \in Topics, d \in Dests : Publish(s, t, d)
    \/ \E r, i \in Sites : Poll(r, i)

Spec == Init /\ [][Next]_vars

(* Each router's caller polls every interface in turn, for ever; nobody is *)
(* obliged to subscribe or publish.                                        *)
FairSpec == Spec /\ \A r, i \in Sites : WF_vars(Poll(r, i))

-------------------------------------------------------------------------------
(* Properties.                                                             *)

(* Every variable has its type, and a table never outgrows its array.      *)
TypeOK ==
    /\ routes \in [Sites -> SUBSET [topic : Topics, iface : Sites, remote : Sites]]
    /\ \A s \in Sites : Cardinality(routes[s]) <= MaxRoutes
    /\ chan \in [Links -> Seq(Frames)]
    /\ wants \in [Sites -> SUBSET Topics]
    /\ heard \in [Sites -> [DataIds -> 0..2]]
    /\ published \in 0..MaxData
    /\ ops \in 0..MaxOps
    /\ came \in [Topics -> SUBSET Sites] /\ gone \in [Topics -> SUBSET Sites]

(* Routes lead to the demand they stand for.  For a topic that nobody has  *)
(* unsubscribed from yet, whatever the topology, whatever sends are lost   *)
(* and however full the tables are, an entry toward i on behalf of x means *)
(* that i is x or has itself an entry for x: following the entries for x   *)
(* from router to router never ends at a router that lacks one.  At risk   *)
(* in handle_subscribe, which must not pass on demand it did not record    *)
(* (RoutesFull).                                                           *)
Knows(r, t, x) == r = x \/ \E i \in Nbrs(r) : Route(t, i, x) \in routes[r]

NoBlackHole ==
    \A r \in Sites : \A e \in routes[r] :
        gone[e.topic] = {} => Knows(e.iface, e.topic, e.remote)

\* No announcement is under way.
Quiet ==
    \A l \in Links : \A k \in DOMAIN chan[l] : chan[l][k].kind = "data"

(* The links a frame for t just sent on the links `first' would cross,     *)
(* were the tables to stay as in `tables'.                                 *)
Onward(tables, links, t) ==
    { n \in Links : \E l \in links :
          n[1] = l[2] /\ n[2] \in ForwardTo(tables[l[2]], l[2], l[1], t) }

Crossed(tables, first, t) ==
    LET closure[links \in SUBSET Links] ==
            LET onward == Onward(tables, links, t)
            IN  IF onward \subseteq links THEN links ELSE closure[links \union onward]
    IN  closure[first]

\* A frame for t published at p would reach x.
Reaches(tables, p, t, x) ==
    \E l \in Crossed(tables, {<<p, n>> : n \in Nbrs(p)}, t) : l[2] = x

\* What is on the far side of a link from its near end, but for its cable.
Beyond(l) ==
    LET Closed(S) == \A m \in Links :
            m[1] \in S /\ m # l /\ m # <<l[2], l[1]>> => m[2] \in S
    IN  { s \in Sites : \A S \in SUBSET Sites : l[2] \in S /\ Closed(S) => s \in S }

\* No cable is part of a cycle.
Forest == \A l \in Links : l[1] \notin Beyond(l)

\* Who may ask for what.
Demands == { d \in Topics \X Sites : d[2] \in Clients[d[1]] }

(* A finite tree of cables that lose nothing, joining routers with a slot  *)
(* for each demand.                                                        *)
LossFreeTree ==
    /\ Forest /\ IsFiniteSet(Sites) /\ ~Lossy
    /\ \A S \in SUBSET Sites :
          (S # {} /\ \A l \in Links : l[1] \in S => l[2] \in S) => S = Sites
    /\ IsFiniteSet(Demands) /\ Cardinality(Demands) <= MaxRoutes

(* Once the announcements have settled, a frame published where nobody     *)
(* subscribes reaches some subscriber, if there is one, although the       *)
(* suppression rule of handle_subscribe keeps routers from hearing of many *)
(* subscribers.  For a loss-free tree with room in the tables, while       *)
(* nobody has unsubscribed from the topic.                                 *)
SomeSubscriberReached ==
    LossFreeTree /\ Quiet =>
        \A t \in Topics, p \in Sites :
            (gone[t] = {} /\ t \notin wants[p] /\ \E x \in Sites : t \in wants[x])
                => \E x \in Sites : t \in wants[x] /\ Reaches(routes, p, t, x)

(* For a topic that only x has ever subscribed to the tables converge, in  *)
(* a loss-free tree, to exactly x's demand however its subscribe and       *)
(* unsubscribe announcements overlapped: everyone reaches x while it is    *)
(* subscribed, and no router keeps an entry once it is not.                *)
SettledMatchesDemand ==
    LossFreeTree /\ Quiet =>
        \A t \in Topics, x \in Sites : came[t] = {x} =>
            IF t \in wants[x]
            THEN \A p \in Sites \ {x} : Reaches(routes, p, t, x)
            ELSE \A r \in Sites : ~HasTopic(routes[r], t)

(* A withdrawal is never premature (the comment in handle_unsubscribe): in *)
(* a loss-free tree a subscriber that does not leave and that publications *)
(* from p reach, once things have settled, is reached whenever they have   *)
(* settled again, whichever end nodes came and went.  A router may hold    *)
(* only x's entry for a direction in which y is too (the suppression rule  *)
(* kept y's announcement from it), so y depends on handle_unsubscribe      *)
(* holding x's withdrawal back while y is wanted.                          *)
EndNode(s) == \A m, n \in Nbrs(s) : m = n

StayersStayReached ==
    LossFreeTree /\ (\A s \in Leavers : EndNode(s)) =>
        \A t \in Topics, p \in Publishers, y \in Sites \ Leavers :
            p # y => [](Quiet /\ t \in wants[y] /\ Reaches(routes, p, t, y)
                          => [](Quiet => Reaches(routes, p, t, y)))

(* In a tree a broker is handed a published frame at most once: forwarding *)
(* never sends a frame back where it came from.                            *)
HeardAtMostOnce == Forest => \A s \in Sites, d \in DataIds : heard[s][d] <= 1

(* Announcing terminates: with finitely many subscribe calls and, in a     *)
(* mesh with cycles, nobody leaving, announcements die out for good.       *)
AnnouncementsDieOut == <>[]Quiet

ReachedByAll(t, x) == \A p \in Publishers \ {x} : Reaches(routes, p, t, x)

(* In a loss-free tree a subscriber that every publisher reaches, once     *)
(* announcements have settled, hears every frame published from then on if *)
(* it stays: also those published while end nodes come and go, and their   *)
(* announcements are halfway.                                              *)
SettledDelivery ==
    \A t \in Topics : \A x \in Clients[t] \ Leavers, d \in DataIds :
        [](Quiet /\ t \in wants[x] /\ published < d /\ ReachedByAll(t, x)
             => [](published >= d => <>(heard[x][d] > 0)))
===============================================================================
