------------------------------ MODULE MeshProofs ------------------------------
(***************************************************************************)
(* Mesh is type correct, and the routes for a topic never lead into a      *)
(* black hole until somebody unsubscribes from it: for every topology,     *)
(* every table size, every number of subscribers and every pattern of lost *)
(* frames.  Where the links form a forest, nobody hears a publication more *)
(* than once.  In a loss-free tree with a slot for each demand, what the   *)
(* tables lead to once announcements have settled is what is wanted:       *)
(* somebody who subscribes, exactly the only one who does, and whoever     *)
(* stays while end nodes come and go.                                      *)
(***************************************************************************)
EXTENDS Mesh, TLAPS, FiniteSetTheorems, WellFoundedInduction

-------------------------------------------------------------------------------
(* The table.                                                              *)

(* What add_route leaves: the old entries, the new one only if it was      *)
(* inserted, and a table that still fits its array.                        *)
LEMMA AddRouteFits ==
    ASSUME NEW table, IsFiniteSet(table), Cardinality(table) <= MaxRoutes,
           NEW route
    PROVE  /\ IsFiniteSet(AddRoute(table, route))
           /\ Cardinality(AddRoute(table, route)) <= MaxRoutes
           /\ table \subseteq AddRoute(table, route)
           /\ AddRoute(table, route) \subseteq table \union {route}
           /\ Inserts(table, route) => route \in AddRoute(table, route)
<1>1. CASE Inserts(table, route)
  <2>1. AddRoute(table, route) = table \union {route}
    BY <1>1 DEF AddRoute
  <2>2. /\ route \notin table
        /\ Cardinality(table) < MaxRoutes
    BY <1>1 DEF Inserts
  <2>3. /\ IsFiniteSet(table \union {route})
        /\ Cardinality(table \union {route}) = Cardinality(table) + 1
    BY <2>2, FS_AddElement
  <2>4. Cardinality(table) \in Nat
    BY FS_CardinalityType
  <2>. QED BY <2>1, <2>2, <2>3, <2>4, MaxRoutesAssumption
<1>2. CASE ~Inserts(table, route)
  BY <1>2 DEF AddRoute
<1>. QED BY <1>1, <1>2

\* remove_route only takes entries away.
LEMMA RemoveRouteFits ==
    ASSUME NEW table, IsFiniteSet(table), Cardinality(table) <= MaxRoutes,
           NEW route
    PROVE  /\ IsFiniteSet(RemoveRoute(table, route))
           /\ Cardinality(RemoveRoute(table, route)) <= MaxRoutes
           /\ RemoveRoute(table, route) \subseteq table
<1>1. /\ IsFiniteSet(RemoveRoute(table, route))
      /\ Cardinality(RemoveRoute(table, route)) <= Cardinality(table)
  BY FS_Subset DEF RemoveRoute
<1>2. /\ Cardinality(table) \in Nat
      /\ Cardinality(RemoveRoute(table, route)) \in Nat
  BY <1>1, FS_CardinalityType
<1>. QED BY <1>1, <1>2, MaxRoutesAssumption DEF RemoveRoute

-------------------------------------------------------------------------------
(* The transports.                                                         *)

InFlight(c, l) == { c[l][k] : k \in DOMAIN c[l] }

\* Sending adds the frame, at most, and only to links that leave the sender.
LEMMA SentFrames ==
    ASSUME NEW s, NEW targets, NEW frame \in Frames,
           NEW before \in [Links -> Seq(Frames)],
           Sent(s, targets, frame, before)
    PROVE  /\ chan' \in [Links -> Seq(Frames)]
           /\ \A l \in Links : \A f \in InFlight(chan', l) :
                 f \in InFlight(before, l) \/ (f = frame /\ l[1] = s)
<1>1. PICK got : chan' = [l \in Links |->
                    IF l[1] = s /\ l[2] \in got THEN Append(before[l], frame)
                                                ELSE before[l]]
  BY DEF Sent
<1>2. ASSUME NEW l \in Links
      PROVE  /\ chan'[l] \in Seq(Frames)
             /\ \A f \in InFlight(chan', l) :
                   f \in InFlight(before, l) \/ (f = frame /\ l[1] = s)
  <2>1. CASE l[1] = s /\ l[2] \in got
    <3>1. chan'[l] = Append(before[l], frame)
      BY <1>1, <2>1
    <3>2. before[l] \in Seq(Frames)
      OBVIOUS
    <3>3. /\ chan'[l] \in Seq(Frames)
          /\ \A k \in DOMAIN chan'[l] :
                \/ k \in DOMAIN before[l] /\ chan'[l][k] = before[l][k]
                \/ chan'[l][k] = frame
      BY <3>1, <3>2
    <3>. QED BY <3>3, <2>1 DEF InFlight
  <2>2. CASE ~(l[1] = s /\ l[2] \in got)
    BY <1>1, <2>2 DEF InFlight
  <2>. QED BY <2>1, <2>2
<1>. QED BY <1>1, <1>2

\* Receiving takes frames away and adds none.
LEMMA ReceivedFrames ==
    ASSUME chan \in [Links -> Seq(Frames)],
           NEW r, NEW i, NEW kind, Arrived(r, i, kind)
    PROVE  /\ Incoming(r, i) \in InFlight(chan, <<i, r>>)
           /\ Incoming(r, i) \in Frames
           /\ Incoming(r, i).kind = kind
           /\ Received(r, i) \in [Links -> Seq(Frames)]
           /\ \A l \in Links : InFlight(Received(r, i), l) \subseteq InFlight(chan, l)
<1>. DEFINE q == chan[<<i, r>>]
<1>1. <<i, r>> \in Links /\ q \in Seq(Frames) /\ q # << >>
  BY DEF Arrived
<1>2. 1 \in DOMAIN q /\ Head(q) = q[1] /\ Head(q) \in Frames
  BY <1>1
<1>3. /\ Tail(q) \in Seq(Frames)
      /\ \A k \in DOMAIN Tail(q) : k + 1 \in DOMAIN q /\ Tail(q)[k] = q[k + 1]
  BY <1>1
<1>4. ASSUME NEW l \in Links
      PROVE  /\ Received(r, i)[l] \in Seq(Frames)
             /\ InFlight(Received(r, i), l) \subseteq InFlight(chan, l)
  BY <1>1, <1>3 DEF Received, InFlight
<1>5. Incoming(r, i) \in InFlight(chan, <<i, r>>)
  BY <1>1, <1>2 DEF Incoming, InFlight
<1>6. Received(r, i) \in [Links -> Seq(Frames)]
  BY <1>4 DEF Received
<1>. QED BY <1>2, <1>4, <1>5, <1>6 DEF Incoming, Arrived
-------------------------------------------------------------------------------
(* Type correctness, for every topology, with losses and unsubscribes.     *)

Routes == [topic : Topics, iface : Sites, remote : Sites]

\* TypeOK, with tables finite so that their cardinality means something.
TypeInv == TypeOK /\ \A s \in Sites : IsFiniteSet(routes[s])

LEMMA InitTypeInv == Init => TypeInv
<1>. SUFFICES ASSUME Init PROVE TypeInv
  OBVIOUS
<1>1. \A s \in Sites : IsFiniteSet(routes[s]) /\ Cardinality(routes[s]) = 0
  BY FS_EmptySet DEF Init
<1>2. \A s \in Sites : Cardinality(routes[s]) <= MaxRoutes
  BY <1>1, MaxRoutesAssumption
<1>. QED BY <1>1, <1>2, BoundsAssumption DEF Init, TypeInv, TypeOK

\* An announcement is a frame, and so is a published data frame.
LEMMA FramesMade ==
    ASSUME NEW t \in Topics
    PROVE  /\ \A s \in Sites, kind \in {"sub", "unsub"} : Announce(kind, t, s) \in Frames
           /\ \A d \in Dests, id \in DataIds : Data(t, d, id) \in Frames
BY DEF Frames, Announcements, DataFrames, Announce, Data

\* A frame of a control kind is an announcement, any other is data.
LEMMA FrameKinds ==
    ASSUME NEW f \in Frames
    PROVE  /\ f.kind \in {"sub", "unsub"} => f.topic \in Topics /\ f.remote \in Sites
           /\ f.kind = "data" => f.topic \in Topics /\ f.id \in DataIds
BY DEF Frames, Announcements, DataFrames

LEMMA NextTypeInv == TypeInv /\ [Next]_vars => TypeInv'
<1>. SUFFICES ASSUME TypeInv, [Next]_vars PROVE TypeInv'
  OBVIOUS
<1>. USE DEF TypeInv, TypeOK, calls
<1>1. ASSUME NEW s \in Sites, NEW t \in Topics, Subscribe(s, t)
      PROVE  TypeInv'
  <2>1. chan' \in [Links -> Seq(Frames)]
    BY <1>1, FramesMade, SentFrames DEF Subscribe
  <2>. QED BY <1>1, <2>1, BoundsAssumption DEF Subscribe
<1>2. ASSUME NEW s \in Sites, NEW t \in Topics, Unsubscribe(s, t)
      PROVE  TypeInv'
  <2>1. chan' \in [Links -> Seq(Frames)]
    BY <1>2, FramesMade, SentFrames DEF Unsubscribe
  <2>. QED BY <1>2, <2>1, BoundsAssumption DEF Unsubscribe
<1>3. ASSUME NEW s \in Sites, NEW t \in Topics, NEW d \in Dests, Publish(s, t, d)
      PROVE  TypeInv'
  <2>1. published + 1 \in DataIds
    BY <1>3, BoundsAssumption DEF Publish, DataIds
  <2>2. chan' \in [Links -> Seq(Frames)]
    BY <1>3, <2>1, FramesMade, SentFrames DEF Publish
  <2>. QED BY <1>3, <2>1, <2>2, BoundsAssumption DEF Publish, DataIds
<1>4. ASSUME NEW r \in Sites, NEW i \in Sites, PollSubscribe(r, i)
      PROVE  TypeInv'
  <2>. DEFINE f == Incoming(r, i)
              route == Route(f.topic, i, f.remote)
              table == AddRoute(routes[r], route)
  <2>1. /\ f \in Frames /\ f.kind = "sub"
        /\ Received(r, i) \in [Links -> Seq(Frames)]
    BY <1>4, ReceivedFrames DEF PollSubscribe
  <2>2. chan' \in [Links -> Seq(Frames)]
    BY <1>4, <2>1, SentFrames DEF PollSubscribe
  <2>3. route \in Routes
    BY <2>1, FrameKinds DEF Route, Routes
  <2>4. /\ table \subseteq routes[r] \union {route}
        /\ IsFiniteSet(table) /\ Cardinality(table) <= MaxRoutes
    BY AddRouteFits
  <2>5. /\ routes' = [routes EXCEPT ![r] = table]
        /\ UNCHANGED <<heard, published>> /\ UNCHANGED calls
    BY <1>4 DEF PollSubscribe
  <2>. HIDE DEF f, route, table
  <2>. QED BY <2>2, <2>3, <2>4, <2>5 DEF Routes
<1>5. ASSUME NEW r \in Sites, NEW i \in Sites, PollUnsubscribe(r, i)
      PROVE  TypeInv'
  <2>. DEFINE f == Incoming(r, i)
              route == Route(f.topic, i, f.remote)
              left == RemoveRoute(routes[r], route)
  <2>1. /\ f \in Frames
        /\ Received(r, i) \in [Links -> Seq(Frames)]
    BY <1>5, ReceivedFrames DEF PollUnsubscribe
  <2>2. chan' \in [Links -> Seq(Frames)]
    BY <1>5, <2>1, SentFrames DEF PollUnsubscribe
  <2>3. /\ left \subseteq routes[r]
        /\ IsFiniteSet(left) /\ Cardinality(left) <= MaxRoutes
    BY RemoveRouteFits
  <2>4. /\ routes' = [routes EXCEPT ![r] = left]
        /\ UNCHANGED <<heard, published>> /\ UNCHANGED calls
    BY <1>5 DEF PollUnsubscribe
  <2>. HIDE DEF f, route, left
  <2>. QED BY <2>2, <2>3, <2>4
<1>6. ASSUME NEW r \in Sites, NEW i \in Sites, PollData(r, i)
      PROVE  TypeInv'
  <2>. DEFINE f == Incoming(r, i)
  <2>1. /\ f \in Frames /\ f.kind = "data"
        /\ Received(r, i) \in [Links -> Seq(Frames)]
    BY <1>6, ReceivedFrames DEF PollData
  <2>2. chan' \in [Links -> Seq(Frames)]
    BY <1>6, <2>1, SentFrames DEF PollData
  <2>3. f.id \in DataIds
    BY <2>1, FrameKinds
  <2>4. /\ \/ heard' = heard
           \/ heard[r][f.id] < 2 /\ heard' = [heard EXCEPT ![r][f.id] = @ + 1]
        /\ UNCHANGED <<routes, published>> /\ UNCHANGED calls
    BY <1>6 DEF PollData
  <2>. HIDE DEF f
  <2>5. heard' \in [Sites -> [DataIds -> 0..2]]
    <3>1. CASE heard' = heard
      BY <3>1
    <3>2. CASE /\ heard[r][f.id] < 2
               /\ heard' = [heard EXCEPT ![r][f.id] = @ + 1]
      <4>1. heard[r] \in [DataIds -> 0..2] /\ heard[r][f.id] + 1 \in 0..2
        BY <2>3, <3>2
      <4>2. [heard[r] EXCEPT ![f.id] = @ + 1] \in [DataIds -> 0..2]
        BY <4>1
      <4>. QED BY <3>2, <4>2
    <3>. QED BY <2>4, <3>1, <3>2
  <2>. QED BY <2>2, <2>4, <2>5
<1>7. CASE UNCHANGED vars
  BY <1>7 DEF vars
<1>. QED BY <1>1, <1>2, <1>3, <1>4, <1>5, <1>6, <1>7 DEF Next, Poll

(* Every variable keeps its type and no table outgrows its array.          *)
THEOREM MeshTypeCorrect == Spec => []TypeOK
<1>1. Spec => []TypeInv
  BY InitTypeInv, NextTypeInv, PTL DEF Spec
<1>2. TypeInv => TypeOK
  BY DEF TypeInv
<1>. QED BY <1>1, <1>2, PTL

-------------------------------------------------------------------------------
(* No black hole.  The routes alone are not inductive: what makes a new    *)
(* route sound is that the router that sent the announcement knew a way,   *)
(* and what keeps it sound is that a withdrawal is only ever under way for *)
(* a topic that somebody has unsubscribed from.                            *)

Settled(t) == gone[t] = {}

NoWithdrawals ==
    \A l \in Links : \A f \in InFlight(chan, l) :
        f.kind = "unsub" => ~Settled(f.topic)

SendersKnow ==
    \A l \in Links : \A f \in InFlight(chan, l) :
        (f.kind = "sub" /\ Settled(f.topic)) => Knows(l[1], f.topic, f.remote)

HoleInv == TypeInv /\ NoWithdrawals /\ SendersKnow /\ NoBlackHole

LEMMA InitHoleInv == Init => HoleInv
BY InitTypeInv DEF Init, HoleInv, NoWithdrawals, SendersKnow, NoBlackHole, InFlight

\* Knowledge about a topic is never lost while its entries only grow.
LEMMA KnowsGrows ==
    ASSUME NEW t,
           \A r \in Sites : \A e \in routes[r] : e.topic = t => e \in routes'[r]
    PROVE  \A r \in Sites : \A x : Knows(r, t, x) => Knows(r, t, x)'
BY DEF Knows, Route

(* The step a handler takes: r records an entry for a demand its neighbour *)
(* i knows of, or drops entries of unsettled topics, or leaves its table   *)
(* alone; and sends, at most, `frame', which is true after the step.       *)
LEMMA HoleStep ==
    ASSUME HoleInv, TypeInv',
           \A t \in Topics : Settled(t)' => Settled(t),
           \A t \in Topics, r \in Sites : \A e \in routes[r] :
                (e.topic = t /\ Settled(t)') => e \in routes'[r],
           \A r \in Sites : \A e \in routes'[r] :
                \/ e \in routes[r]
                \/ Settled(e.topic) => Knows(e.iface, e.topic, e.remote),
           NEW s \in Sites, NEW frame,
           frame.kind = "unsub" => ~Settled(frame.topic)',
           (frame.kind = "sub" /\ Settled(frame.topic)')
                => Knows(s, frame.topic, frame.remote)',
           \A l \in Links : \A f \in InFlight(chan', l) :
                f \in InFlight(chan, l) \/ (f = frame /\ l[1] = s)
    PROVE  HoleInv'
<1>. USE DEF HoleInv
<1>1. \A t \in Topics : Settled(t)' =>
         \A r \in Sites : \A x : Knows(r, t, x) => Knows(r, t, x)'
  BY KnowsGrows
<1>2. \A r \in Sites : \A e \in routes'[r] : e.topic \in Topics /\ e.iface \in Sites
  BY DEF TypeInv, TypeOK
<1>3. NoBlackHole'
  <2>. SUFFICES ASSUME NEW q \in Sites, NEW e \in routes'[q], Settled(e.topic)'
                PROVE  Knows(e.iface, e.topic, e.remote)'
    BY DEF NoBlackHole, Settled
  <2>1. Settled(e.topic) /\ e.topic \in Topics /\ e.iface \in Sites
    BY <1>2
  <2>2. Knows(e.iface, e.topic, e.remote)
    BY <2>1 DEF NoBlackHole, Settled
  <2>. QED BY <1>1, <2>1, <2>2
<1>4. \A l \in Links : /\ l[1] \in Sites
                       /\ \A f \in InFlight(chan, l) : f \in Frames
  BY LinksAssumption DEF TypeInv, TypeOK, InFlight
<1>5. NoWithdrawals'
  <2>. SUFFICES ASSUME NEW l \in Links, NEW f \in InFlight(chan', l), f.kind = "unsub"
                PROVE  ~Settled(f.topic)'
    BY DEF NoWithdrawals, InFlight, Settled
  <2>1. CASE f \in InFlight(chan, l)
    BY <1>4, <2>1, FrameKinds DEF NoWithdrawals
  <2>2. CASE f = frame
    BY <2>2
  <2>. QED BY <2>1, <2>2
<1>6. SendersKnow'
  <2>. SUFFICES ASSUME NEW l \in Links, NEW f \in InFlight(chan', l),
                       f.kind = "sub", Settled(f.topic)'
                PROVE  Knows(l[1], f.topic, f.remote)'
    BY DEF SendersKnow, InFlight, Settled
  <2>1. CASE f \in InFlight(chan, l)
    <3>1. f.topic \in Topics /\ l[1] \in Sites
      BY <1>4, <2>1, FrameKinds
    <3>2. Knows(l[1], f.topic, f.remote)
      BY <2>1, <3>1 DEF SendersKnow
    <3>. QED BY <1>1, <3>1, <3>2
  <2>2. CASE f = frame /\ l[1] = s
    BY <2>2
  <2>. QED BY <2>1, <2>2
<1>. QED BY <1>3, <1>5, <1>6

LEMMA NextHoleInv ==
    ASSUME HoleInv, [Next]_vars
    PROVE  HoleInv'
<1>1. TypeInv /\ TypeInv'
  BY NextTypeInv DEF HoleInv
<1>2. /\ chan \in [Links -> Seq(Frames)]
      /\ routes \in [Sites -> SUBSET Routes]
      /\ \A l \in Links : l[1] \in Sites /\ l[2] \in Sites
  BY <1>1, LinksAssumption DEF TypeInv, TypeOK, Routes
<1>3. ASSUME NEW s \in Sites, NEW t \in Topics, Subscribe(s, t)
      PROVE  HoleInv'
  <2>. DEFINE f == Announce("sub", t, s)
  <2>1. f \in Frames /\ f.kind = "sub" /\ Knows(s, f.topic, f.remote)'
    BY FramesMade DEF Announce, Knows
  <2>2. routes' = routes /\ gone' = gone /\ Sent(s, Nbrs(s), f, chan)
    BY <1>3 DEF Subscribe
  <2>. HIDE DEF f
  <2>3. \A l \in Links : \A g \in InFlight(chan', l) :
           g \in InFlight(chan, l) \/ (g = f /\ l[1] = s)
    BY <1>2, <2>1, <2>2, SentFrames
  <2>. QED BY <1>1, <2>1, <2>2, <2>3, HoleStep DEF Settled
<1>4. ASSUME NEW s \in Sites, NEW t \in Topics, Unsubscribe(s, t)
      PROVE  HoleInv'
  <2>. DEFINE f == Announce("unsub", t, s)
  <2>1. f \in Frames /\ f.kind = "unsub" /\ f.topic = t
    BY FramesMade DEF Announce
  <2>2. /\ routes' = routes /\ gone' = [gone EXCEPT ![t] = @ \union {s}]
        /\ Sent(s, Nbrs(s), f, chan)
    BY <1>4 DEF Unsubscribe
  <2>3. ~Settled(t)' /\ \A u \in Topics : Settled(u)' => Settled(u)
    BY <1>1, <2>2 DEF Settled, TypeInv, TypeOK
  <2>. HIDE DEF f
  <2>4. \A l \in Links : \A g \in InFlight(chan', l) :
           g \in InFlight(chan, l) \/ (g = f /\ l[1] = s)
    BY <1>2, <2>1, <2>2, SentFrames
  <2>. QED BY <1>1, <2>1, <2>2, <2>3, <2>4, HoleStep
<1>5. ASSUME NEW s \in Sites, NEW t \in Topics, NEW d \in Dests, Publish(s, t, d)
      PROVE  HoleInv'
  <2>. DEFINE f == Data(t, d, published + 1)
  <2>1. published + 1 \in DataIds
    BY <1>1, <1>5, BoundsAssumption DEF Publish, DataIds, TypeInv, TypeOK
  <2>2. f \in Frames /\ f.kind = "data"
    BY <2>1, FramesMade DEF Data
  <2>3. routes' = routes /\ gone' = gone /\ Sent(s, Nbrs(s), f, chan)
    BY <1>5 DEF Publish, calls
  <2>. HIDE DEF f
  <2>4. \A l \in Links : \A g \in InFlight(chan', l) :
           g \in InFlight(chan, l) \/ (g = f /\ l[1] = s)
    BY <1>2, <2>2, <2>3, SentFrames
  <2>. QED BY <1>1, <2>2, <2>3, <2>4, HoleStep DEF Settled
<1>6. ASSUME NEW r \in Sites, NEW i \in Sites, PollSubscribe(r, i)
      PROVE  HoleInv'
  \* A rigid name: f keeps denoting this frame under a prime.
  <2>. PICK f : f = Incoming(r, i)
    OBVIOUS
  <2>. DEFINE route == Route(f.topic, i, f.remote)
              table == AddRoute(routes[r], route)
  <2>1. /\ f \in InFlight(chan, <<i, r>>) /\ f \in Frames /\ f.kind = "sub"
        /\ Received(r, i) \in [Links -> Seq(Frames)]
        /\ \A l \in Links : InFlight(Received(r, i), l) \subseteq InFlight(chan, l)
    BY <1>2, <1>6, ReceivedFrames DEF PollSubscribe
  <2>2. <<i, r>> \in Links
    BY <1>6 DEF PollSubscribe, Arrived
  <2>3. Settled(f.topic) => Knows(i, f.topic, f.remote)
    BY <2>1, <2>2 DEF SendersKnow, HoleInv
  <2>4. routes' = [routes EXCEPT ![r] = table] /\ gone' = gone
    BY <1>6 DEF PollSubscribe, calls
  <2>5. /\ routes[r] \subseteq table /\ table \subseteq routes[r] \union {route}
        /\ Inserts(routes[r], route) => route \in table
    BY <1>1, AddRouteFits DEF TypeInv, TypeOK
  <2>6. \A q \in Sites : routes[q] \subseteq routes'[q]
    BY <1>2, <2>4, <2>5
  <2>7. \A q \in Sites : \A e \in routes'[q] :
           e \in routes[q] \/ (Settled(e.topic) => Knows(e.iface, e.topic, e.remote))
    <3>. SUFFICES ASSUME NEW q \in Sites, NEW e \in routes'[q], e \notin routes[q],
                         Settled(e.topic)
                  PROVE  Knows(e.iface, e.topic, e.remote)
      OBVIOUS
    <3>1. e = route
      BY <1>2, <2>4, <2>5
    <3>2. e.iface = i /\ e.topic = f.topic /\ e.remote = f.remote
      BY <3>1 DEF Route
    <3>. QED BY <2>3, <3>2
  <2>8. CASE Inserts(routes[r], route)
    <3>1. Sent(r, ReemitTo(table, r, i, f.topic), f, Received(r, i))
      BY <1>6, <2>8 DEF PollSubscribe
    <3>2. \A l \in Links : \A g \in InFlight(chan', l) :
             g \in InFlight(chan, l) \/ (g = f /\ l[1] = r)
      BY <2>1, <3>1, SentFrames
    <3>3. Knows(r, f.topic, f.remote)'
      <4>1. route \in routes'[r]
        BY <1>2, <2>4, <2>5, <2>8
      <4>2. i \in Nbrs(r)
        BY <2>2, LinksAssumption DEF Nbrs
      <4>. QED BY <4>1, <4>2 DEF Knows
    <3>. HIDE DEF route, table
    <3>. QED BY <1>1, <2>1, <2>4, <2>6, <2>7, <3>2, <3>3, HoleStep DEF Settled
  <2>9. CASE ~Inserts(routes[r], route)
    <3>1. chan' = Received(r, i)
      BY <1>6, <2>9 DEF PollSubscribe
    <3>2. \A l \in Links : InFlight(chan', l) \subseteq InFlight(chan, l)
      BY <2>1, <3>1 DEF InFlight
    \* Nothing is sent: any frame will do for HoleStep's.
    <3>3. Data(f.topic, Broadcast, 0).kind = "data"
      BY DEF Data
    <3>. HIDE DEF route, table
    <3>. QED BY <1>1, <2>4, <2>6, <2>7, <3>2, <3>3, HoleStep DEF Settled
  <2>. QED BY <2>8, <2>9
<1>7. ASSUME NEW r \in Sites, NEW i \in Sites, PollUnsubscribe(r, i)
      PROVE  HoleInv'
  <2>. PICK f : f = Incoming(r, i)
    OBVIOUS
  <2>. DEFINE route == Route(f.topic, i, f.remote)
              left == RemoveRoute(routes[r], route)
  <2>1. /\ f \in InFlight(chan, <<i, r>>) /\ f \in Frames /\ f.kind = "unsub"
        /\ Received(r, i) \in [Links -> Seq(Frames)]
        /\ \A l \in Links : InFlight(Received(r, i), l) \subseteq InFlight(chan, l)
        /\ <<i, r>> \in Links
    BY <1>2, <1>7, ReceivedFrames DEF PollUnsubscribe, Arrived
  <2>2. ~Settled(f.topic)
    BY <2>1 DEF NoWithdrawals, HoleInv
  <2>3. routes' = [routes EXCEPT ![r] = left] /\ gone' = gone
    BY <1>7 DEF PollUnsubscribe, calls
  <2>4. left = routes[r] \ {route} /\ route.topic = f.topic
    BY DEF RemoveRoute, Route
  <2>5. \A t \in Topics, q \in Sites : \A e \in routes[q] :
           (e.topic = t /\ Settled(t)) => e \in routes'[q]
    BY <1>2, <2>2, <2>3, <2>4
  <2>6. \A q \in Sites : routes'[q] \subseteq routes[q]
    BY <1>2, <2>3, <2>4
  <2>7. \A l \in Links : \A g \in InFlight(chan', l) :
           g \in InFlight(chan, l) \/ (g = f /\ l[1] = r)
    <3>1. CASE chan' = Received(r, i)
      BY <2>1, <3>1 DEF InFlight
    <3>2. CASE Sent(r, Nbrs(r) \ {i}, f, Received(r, i))
      BY <2>1, <3>2, SentFrames
    <3>. QED BY <1>7, <3>1, <3>2 DEF PollUnsubscribe
  <2>. HIDE DEF route, left
  <2>8. f.kind = "unsub" /\ ~Settled(f.topic)'
    BY <2>1, <2>2, <2>3 DEF Settled
  <2>9. \A t \in Topics : Settled(t)' <=> Settled(t)
    BY <2>3 DEF Settled
  <2>10. \A t \in Topics, q \in Sites : \A e \in routes[q] :
           (e.topic = t /\ Settled(t)') => e \in routes'[q]
    BY <2>5, <2>9
  <2>. QED BY <1>1, <2>6, <2>7, <2>8, <2>9, <2>10, HoleStep
<1>8. ASSUME NEW r \in Sites, NEW i \in Sites, PollData(r, i)
      PROVE  HoleInv'
  <2>. DEFINE f == Incoming(r, i)
  <2>1. /\ f \in Frames /\ f.kind = "data"
        /\ Received(r, i) \in [Links -> Seq(Frames)]
        /\ \A l \in Links : InFlight(Received(r, i), l) \subseteq InFlight(chan, l)
    BY <1>2, <1>8, ReceivedFrames DEF PollData
  <2>2. /\ routes' = routes /\ gone' = gone
        /\ Sent(r, ForwardTo(routes[r], r, i, f.topic), f, Received(r, i))
    BY <1>8 DEF PollData, calls
  <2>3. \A l \in Links : \A g \in InFlight(chan', l) :
           g \in InFlight(chan, l) \/ (g = f /\ l[1] = r)
    BY <2>1, <2>2, SentFrames
  <2>. HIDE DEF f
  <2>. QED BY <1>1, <2>1, <2>2, <2>3, HoleStep DEF Settled
<1>9. CASE UNCHANGED vars
  <2>1. routes' = routes /\ chan' = chan /\ gone' = gone
    BY <1>9 DEF vars
  <2>2. TypeInv'
    BY <1>1, <1>9 DEF vars, HoleInv, TypeInv, TypeOK
  <2>3. \A t : Settled(t)' <=> Settled(t)
    BY <2>1 DEF Settled
  <2>4. \A r, t, x : Knows(r, t, x)' <=> Knows(r, t, x)
    BY <2>1 DEF Knows
  <2>5. NoWithdrawals' /\ SendersKnow' /\ NoBlackHole'
    BY <1>1, <2>1, <2>3, <2>4 DEF HoleInv, NoWithdrawals, SendersKnow, NoBlackHole, Settled
  <2>. QED BY <2>2, <2>5 DEF HoleInv
<1>. QED
  BY <1>3, <1>4, <1>5, <1>6, <1>7, <1>8, <1>9 DEF Next, Poll

(* The routes for a topic that nobody has unsubscribed from never lead     *)
(* into a black hole.                                                      *)
THEOREM MeshNoBlackHole == Spec => []NoBlackHole
<1>1. HoleInv /\ [Next]_vars => HoleInv'
  BY NextHoleInv
<1>2. HoleInv => NoBlackHole
  BY DEF HoleInv
<1>. QED BY <1>1, <1>2, InitHoleInv, PTL DEF Spec

-------------------------------------------------------------------------------
(* In a forest, whatever its size and its shape, a frame reaches no site   *)
(* twice.  The argument: the sites that a copy of it can still reach are   *)
(* those beyond the link it is on, none of them has heard the frame, and   *)
(* two copies have no site in common.                                      *)

LEMMA BeyondSites ==
    ASSUME NEW l \in Links
    PROVE  /\ Beyond(l) \subseteq Sites /\ l[2] \in Beyond(l)
           /\ \A m \in Links : m[1] \in Beyond(l) /\ m # l /\ m # <<l[2], l[1]>>
                                 => m[2] \in Beyond(l)
           /\ \A S \in SUBSET Sites :
                 /\ l[2] \in S
                 /\ \A m \in Links : m[1] \in S /\ m # l /\ m # <<l[2], l[1]>> => m[2] \in S
                 => Beyond(l) \subseteq S
<1>1. \A m \in Links : m[1] \in Sites /\ m[2] \in Sites
  BY LinksAssumption
<1>. QED BY <1>1 DEF Beyond

LEMMA LinkPair ==
    ASSUME NEW m \in Links
    PROVE  m = <<m[1], m[2]>> /\ <<m[2], m[1]>> \in Links /\ m[1] # m[2]
BY LinksAssumption

\* Further on there is less to reach ...
LEMMA BeyondShrinks ==
    ASSUME Forest, NEW l \in Links, NEW m \in Links, m[1] = l[2], m[2] # l[1]
    PROVE  Beyond(m) \subseteq Beyond(l) \ {m[1]}
<1>. DEFINE S == Beyond(m) \intersect Beyond(l)
<1>1. m[1] \notin Beyond(m) /\ l[1] \notin Beyond(l)
  BY DEF Forest
<1>2. /\ m = <<m[1], m[2]>> /\ l = <<l[1], l[2]>> /\ m[1] # l[1] /\ m[1] # m[2]
      /\ m # l /\ m # <<l[2], l[1]>>
  BY LinkPair
<1>3. m[2] \in Beyond(l)
  BY <1>2, BeyondSites
<1>4. ASSUME NEW k \in Links, k[1] \in S, k # m, k # <<m[2], m[1]>>
      PROVE  k[2] \in S
  <2>1. k[2] \in Beyond(m)
    BY <1>4, BeyondSites
  <2>2. k # l /\ k # <<l[2], l[1]>>
    BY <1>1, <1>2, <1>4
  <2>. QED BY <1>4, <2>1, <2>2, BeyondSites
<1>5. m[2] \in S /\ S \in SUBSET Sites
  BY <1>3, BeyondSites
<1>6. Beyond(m) \subseteq S
  BY <1>4, <1>5, BeyondSites
<1>. QED BY <1>1, <1>6

\* ... and different ways lead to different sites.
LEMMA BeyondApart ==
    ASSUME Forest, NEW l \in Links, NEW m \in Links, l[1] = m[1], l # m
    PROVE  Beyond(l) \intersect Beyond(m) = {}
<1>. DEFINE S == Beyond(l) \ Beyond(m)
<1>1. l[1] \notin Beyond(l) /\ l[1] \notin Beyond(m)
  BY DEF Forest
<1>2. /\ l = <<l[1], l[2]>> /\ m = <<m[1], m[2]>> /\ l[1] # l[2] /\ m[1] # m[2]
      /\ <<l[2], l[1]>> \in Links
  BY LinkPair
<1>3. l[2] \notin Beyond(m)
  <2>. DEFINE back == <<l[2], l[1]>>
  <2>1. back \in Links /\ back[1] = l[2] /\ back[2] = l[1]
    BY <1>2
  <2>2. back # m /\ back # <<m[2], m[1]>>
    BY <1>2
  <2>. QED BY <1>1, <2>1, <2>2, BeyondSites
<1>4. ASSUME NEW j \in Links, j[1] \in S, j # l, j # <<l[2], l[1]>>
      PROVE  j[2] \in S
  <2>1. j[2] \in Beyond(l)
    BY <1>4, BeyondSites
  <2>2. ASSUME j[2] \in Beyond(m) PROVE FALSE
    <3>1. <<j[2], j[1]>> \in Links /\ j = <<j[1], j[2]>>
      BY LinkPair
    <3>2. <<j[2], j[1]>> # m /\ <<j[2], j[1]>> # <<m[2], m[1]>>
      BY <1>1, <1>2, <1>4, <2>2, <3>1
    <3>3. j[1] \in Beyond(m)
      BY <2>2, <3>1, <3>2, BeyondSites
    <3>. QED BY <1>4, <3>3
  <2>. QED BY <2>1, <2>2
<1>5. l[2] \in S /\ S \in SUBSET Sites
  BY <1>3, BeyondSites
<1>6. Beyond(l) \subseteq S
  BY <1>4, <1>5, BeyondSites
<1>. QED BY <1>6

\* A queue holds a copy of frame d; it holds no two.
Carries(q, d) == \E k \in DOMAIN q : q[k].kind = "data" /\ q[k].id = d
Once(q, d) ==
    \A j, k \in DOMAIN q : /\ q[j].kind = "data" /\ q[j].id = d
                           /\ q[k].kind = "data" /\ q[k].id = d
                           => j = k

IsCopy(f, d) == f.kind = "data" /\ f.id = d

LEMMA TailCarries ==
    ASSUME NEW q \in Seq(Frames), q # << >>, NEW d, Once(q, d)
    PROVE  /\ Once(Tail(q), d)
           /\ Carries(Tail(q), d) <=> Carries(q, d) /\ ~ IsCopy(Head(q), d)
<1>1. /\ Tail(q) \in Seq(Frames) /\ 1 \in DOMAIN q /\ Head(q) = q[1]
      /\ \A k \in DOMAIN Tail(q) : k + 1 \in DOMAIN q /\ Tail(q)[k] = q[k + 1] /\ k \in Nat
                                   /\ k >= 1
      /\ \A k \in DOMAIN q : k # 1 => k - 1 \in DOMAIN Tail(q) /\ Tail(q)[k - 1] = q[k]
  OBVIOUS
<1>2. Once(Tail(q), d)
  <2>1. ASSUME NEW j \in DOMAIN Tail(q), NEW k \in DOMAIN Tail(q),
               IsCopy(Tail(q)[j], d), IsCopy(Tail(q)[k], d)
        PROVE  j = k
    <3>1. j + 1 = k + 1
      BY <1>1, <2>1 DEF IsCopy, Once
    <3>. QED BY <1>1, <3>1
  <2>. QED BY <2>1 DEF Once, IsCopy
<1>3. ASSUME Carries(Tail(q), d) PROVE Carries(q, d) /\ ~ IsCopy(Head(q), d)
  <2>1. PICK k \in DOMAIN Tail(q) : IsCopy(Tail(q)[k], d)
    BY <1>3 DEF Carries, IsCopy
  <2>2. k + 1 \in DOMAIN q /\ IsCopy(q[k + 1], d) /\ k + 1 # 1
    BY <1>1, <2>1
  <2>3. ~ IsCopy(q[1], d)
    BY <1>1, <2>2 DEF Once, IsCopy
  <2>. QED BY <1>1, <2>2, <2>3 DEF Carries, IsCopy
<1>4. ASSUME Carries(q, d), ~ IsCopy(Head(q), d) PROVE Carries(Tail(q), d)
  <2>1. PICK k \in DOMAIN q : IsCopy(q[k], d)
    BY <1>4 DEF Carries, IsCopy
  <2>2. k # 1
    BY <1>1, <1>4, <2>1
  <2>3. k - 1 \in DOMAIN Tail(q) /\ IsCopy(Tail(q)[k - 1], d)
    BY <1>1, <2>1, <2>2
  <2>. QED BY <2>3 DEF Carries, IsCopy
<1>. QED BY <1>2, <1>3, <1>4

LEMMA AppendCarries ==
    ASSUME NEW q \in Seq(Frames), NEW f \in Frames, NEW d
    PROVE  /\ Carries(Append(q, f), d) <=> Carries(q, d) \/ IsCopy(f, d)
           /\ Once(q, d) /\ ~ (Carries(q, d) /\ IsCopy(f, d)) => Once(Append(q, f), d)
<1>1. /\ Append(q, f) \in Seq(Frames)
      /\ Len(q) + 1 \in DOMAIN Append(q, f) /\ Append(q, f)[Len(q) + 1] = f
      /\ \A k \in DOMAIN q : k \in DOMAIN Append(q, f) /\ Append(q, f)[k] = q[k]
      /\ \A k \in DOMAIN Append(q, f) : k = Len(q) + 1 \/ k \in DOMAIN q
  OBVIOUS
<1>. DEFINE long == Append(q, f)
<1>. HIDE DEF long
<1>2. Carries(long, d) <=> Carries(q, d) \/ IsCopy(f, d)
  BY <1>1 DEF Carries, IsCopy, long
<1>3. ASSUME Once(q, d), ~ (Carries(q, d) /\ IsCopy(f, d)),
             NEW j \in DOMAIN long, NEW k \in DOMAIN long,
             IsCopy(long[j], d), IsCopy(long[k], d)
      PROVE  j = k
  BY <1>1, <1>3 DEF Carries, Once, IsCopy, long
<1>. QED BY <1>2, <1>3 DEF Once, IsCopy, long

LEMMA SentCarries ==
    ASSUME NEW s, NEW targets, NEW frame \in Frames, NEW before \in [Links -> Seq(Frames)],
           Sent(s, targets, frame, before), NEW d, \A l \in Links : Once(before[l], d),
           IsCopy(frame, d) => \A l \in Links :
              l[1] = s /\ l[2] \in targets => ~ Carries(before[l], d)
    PROVE  \A l \in Links :
              /\ Once(chan'[l], d)
              /\ Carries(chan'[l], d) =>
                    \/ Carries(before[l], d)
                    \/ IsCopy(frame, d) /\ l[1] = s /\ l[2] \in targets
<1>1. PICK got \in SUBSET targets : chan' = [l \in Links |->
                    IF l[1] = s /\ l[2] \in got THEN Append(before[l], frame)
                                                ELSE before[l]]
  BY DEF Sent
<1>2. ASSUME NEW l \in Links
      PROVE  /\ Once(chan'[l], d)
             /\ Carries(chan'[l], d) =>
                   \/ Carries(before[l], d)
                   \/ IsCopy(frame, d) /\ l[1] = s /\ l[2] \in targets
  <2>1. CASE l[1] = s /\ l[2] \in got
    <3>1. chan'[l] = Append(before[l], frame) /\ before[l] \in Seq(Frames)
      BY <1>1, <2>1
    <3>. QED BY <2>1, <3>1, AppendCarries
  <2>2. CASE ~ (l[1] = s /\ l[2] \in got)
    <3>1. chan'[l] = before[l]
      BY <1>1, <2>2
    <3>. QED BY <3>1
  <2>. QED BY <2>1, <2>2
<1>. QED BY <1>2

LEMMA ReceivedCarries ==
    ASSUME chan \in [Links -> Seq(Frames)], NEW r, NEW i, NEW kind, Arrived(r, i, kind),
           NEW d, \A l \in Links : Once(chan[l], d)
    PROVE  \A l \in Links :
              /\ Once(Received(r, i)[l], d)
              /\ Carries(Received(r, i)[l], d) <=>
                    Carries(chan[l], d) /\ ~ (l = <<i, r>> /\ IsCopy(Incoming(r, i), d))
<1>1. <<i, r>> \in Links /\ chan[<<i, r>>] # << >> /\ chan[<<i, r>>] \in Seq(Frames)
  BY DEF Arrived
<1>2. ASSUME NEW l \in Links
      PROVE  /\ Once(Received(r, i)[l], d)
             /\ Carries(Received(r, i)[l], d) <=>
                   Carries(chan[l], d) /\ ~ (l = <<i, r>> /\ IsCopy(Incoming(r, i), d))
  <2>1. CASE l = <<i, r>>
    <3>1. Received(r, i)[l] = Tail(chan[l])
      BY <2>1 DEF Received
    <3>. QED BY <1>1, <2>1, <3>1, TailCarries DEF Incoming
  <2>2. CASE l # <<i, r>>
    <3>1. Received(r, i)[l] = chan[l]
      BY <1>1, <2>2 DEF Received
    <3>. QED BY <2>2, <3>1
  <2>. QED BY <2>1, <2>2
<1>. QED BY <1>2

WaveInv ==
    \A d \in DataIds :
       /\ \A l \in Links : Once(chan[l], d)
       /\ \A l \in Links : Carries(chan[l], d) =>
             d <= published /\ \A s \in Beyond(l) : heard[s][d] = 0
       /\ \A l, m \in Links : Carries(chan[l], d) /\ Carries(chan[m], d) /\ l # m =>
             Beyond(l) \intersect Beyond(m) = {}
       /\ \A s \in Sites : heard[s][d] <= 1 /\ (d > published => heard[s][d] = 0)

LEMMA InitWave == Init => WaveInv
BY DEF Init, WaveInv, Once, Carries, DataIds

\* Announcements change nothing of it.
LEMMA OthersKeepWave ==
    ASSUME WaveInv, UNCHANGED <<heard, published>>,
           \A d \in DataIds, l \in Links :
              Once(chan'[l], d) /\ (Carries(chan'[l], d) => Carries(chan[l], d))
    PROVE  WaveInv'
BY DEF WaveInv

LEMMA AnnouncedKeepsWave ==
    ASSUME TypeInv, WaveInv, UNCHANGED <<heard, published>>,
           NEW s, NEW targets, NEW frame \in Frames, frame.kind # "data",
           Sent(s, targets, frame, chan)
    PROVE  WaveInv'
<1>1. ASSUME NEW d \in DataIds, NEW l \in Links
      PROVE  Once(chan'[l], d) /\ (Carries(chan'[l], d) => Carries(chan[l], d))
  <2>1. chan \in [Links -> Seq(Frames)] /\ ~ IsCopy(frame, d)
    BY DEF TypeInv, TypeOK, IsCopy
  <2>2. \A m \in Links : Once(chan[m], d)
    BY DEF WaveInv
  <2>. QED BY <2>1, <2>2, SentCarries
<1>. QED BY <1>1, OthersKeepWave

LEMMA PassedOnKeepsWave ==
    ASSUME TypeInv, WaveInv, UNCHANGED <<heard, published>>,
           NEW r, NEW i, NEW kind, Arrived(r, i, kind), kind # "data", NEW targets,
           \/ Sent(r, targets, Incoming(r, i), Received(r, i))
           \/ chan' = Received(r, i)
    PROVE  WaveInv'
<1>1. ASSUME NEW d \in DataIds, NEW l \in Links
      PROVE  Once(chan'[l], d) /\ (Carries(chan'[l], d) => Carries(chan[l], d))
  <2>1. chan \in [Links -> Seq(Frames)] /\ \A m \in Links : Once(chan[m], d)
    BY DEF TypeInv, TypeOK, WaveInv
  <2>2. /\ Incoming(r, i) \in Frames /\ ~ IsCopy(Incoming(r, i), d)
        /\ Received(r, i) \in [Links -> Seq(Frames)]
    BY <2>1, ReceivedFrames DEF IsCopy
  <2>3. \A m \in Links : Once(Received(r, i)[m], d)
            /\ (Carries(Received(r, i)[m], d) => Carries(chan[m], d))
    BY <2>1, ReceivedCarries
  <2>4. CASE Sent(r, targets, Incoming(r, i), Received(r, i))
    <3>1. Once(chan'[l], d) /\ (Carries(chan'[l], d) => Carries(Received(r, i)[l], d))
      BY <2>2, <2>3, <2>4, SentCarries
    <3>. QED BY <2>3, <3>1
  <2>5. CASE chan' = Received(r, i)
    BY <2>3, <2>5
  <2>. QED BY <2>4, <2>5
<1>. QED BY <1>1, OthersKeepWave

LEMMA PublishKeepsWave ==
    ASSUME Forest, TypeInv, WaveInv, NEW s \in Sites, NEW t \in Topics, NEW dest \in Dests,
           Publish(s, t, dest)
    PROVE  WaveInv'
<1>. DEFINE new == published + 1
            frame == Data(t, dest, new)
<1>1. /\ chan \in [Links -> Seq(Frames)] /\ published \in Nat /\ new \in DataIds
      /\ published' = new /\ heard' = heard
  BY BoundsAssumption DEF TypeInv, TypeOK, Publish, DataIds
<1>2. frame \in Frames /\ \A d : IsCopy(frame, d) <=> d = new
  BY <1>1, FramesMade DEF IsCopy, Data
<1>3. Sent(s, Nbrs(s), frame, chan)
  BY DEF Publish
<1>. HIDE DEF frame, new
<1>4. \A d \in DataIds, l \in Links :
        d \in Nat /\ Once(chan[l], d) /\ (Carries(chan[l], d) => d <= published)
  BY DEF WaveInv, DataIds
<1>5. \A l \in Links : ~ Carries(chan[l], new)
  BY <1>1, <1>4 DEF new
<1>6. ASSUME NEW d \in DataIds
      PROVE  \A l \in Links :
                /\ Once(chan'[l], d)
                /\ Carries(chan'[l], d) =>
                      Carries(chan[l], d) \/ (d = new /\ l[1] = s /\ l[2] \in Nbrs(s))
  <2>1. \A l \in Links : Once(chan[l], d)
    BY <1>4
  <2>2. IsCopy(frame, d) => \A l \in Links : ~ Carries(chan[l], d)
    BY <1>2, <1>5
  <2>. QED BY <1>1, <1>2, <1>3, <2>1, <2>2, SentCarries
<1>7. \A x \in Sites : heard[x][new] = 0
  BY <1>1 DEF WaveInv, new
<1>8. ASSUME NEW d \in DataIds, NEW l \in Links, Carries(chan'[l], d)
      PROVE  d <= published' /\ \A x \in Beyond(l) : heard'[x][d] = 0
  <2>1. CASE Carries(chan[l], d)
    <3>1. d <= published /\ \A x \in Beyond(l) : heard[x][d] = 0
      BY <2>1 DEF WaveInv
    <3>. QED BY <1>1, <1>4, <3>1 DEF new
  <2>2. CASE d = new
    BY <1>1, <1>7, <2>2, BeyondSites DEF new
  <2>. QED BY <1>6, <1>8, <2>1, <2>2
<1>9. ASSUME NEW d \in DataIds, NEW l \in Links, NEW m \in Links,
             Carries(chan'[l], d), Carries(chan'[m], d), l # m
      PROVE  Beyond(l) \intersect Beyond(m) = {}
  <2>1. CASE d = new
    <3>1. l[1] = s /\ m[1] = s
      BY <1>5, <1>6, <1>9, <2>1
    <3>. QED BY <1>9, <3>1, BeyondApart
  <2>2. CASE d # new
    <3>1. Carries(chan[l], d) /\ Carries(chan[m], d)
      BY <1>6, <1>9, <2>2
    <3>. QED BY <1>9, <3>1 DEF WaveInv
  <2>. QED BY <2>1, <2>2
<1>10. ASSUME NEW d \in DataIds, NEW x \in Sites
       PROVE  heard'[x][d] <= 1 /\ (d > published' => heard'[x][d] = 0)
  <2>1. heard[x][d] <= 1 /\ (d > published => heard[x][d] = 0) /\ d \in Nat
    BY <1>4 DEF WaveInv, DataIds
  <2>. QED BY <1>1, <2>1 DEF new
<1>. QED BY <1>6, <1>8, <1>9, <1>10 DEF WaveInv

\* The copy moves on, and this site has heard the frame now.
LEMMA PollDataKeepsWave ==
    ASSUME Forest, TypeInv, WaveInv, NEW r \in Sites, NEW i \in Sites, PollData(r, i)
    PROVE  WaveInv'
<1>. DEFINE f == Incoming(r, i)
            from == <<i, r>>
            targets == ForwardTo(routes[r], r, i, f.topic)
<1>1. chan \in [Links -> Seq(Frames)] /\ heard \in [Sites -> [DataIds -> 0..2]]
  BY DEF TypeInv, TypeOK
<1>2. /\ f \in Frames /\ f.kind = "data" /\ f.id \in DataIds
      /\ Received(r, i) \in [Links -> Seq(Frames)]
      /\ from \in Links /\ Carries(chan[from], f.id)
  <2>1. Arrived(r, i, "data")
    BY DEF PollData
  <2>2. /\ f \in InFlight(chan, from) /\ f \in Frames /\ f.kind = "data"
        /\ Received(r, i) \in [Links -> Seq(Frames)]
    BY <1>1, <2>1, ReceivedFrames
  <2>. QED BY <2>1, <2>2, FrameKinds DEF InFlight, Carries, Arrived
<1>3. /\ Sent(r, targets, f, Received(r, i)) /\ published' = published
      /\ \/ heard' = heard
         \/ heard' = [heard EXCEPT ![r][f.id] = @ + 1]
  BY DEF PollData
<1>4. targets \subseteq Nbrs(r) \ {i}
  BY DEF ForwardTo
<1>. HIDE DEF f, targets
<1>5. ASSUME NEW d \in DataIds
      PROVE  \A l \in Links :
                /\ Once(chan'[l], d)
                /\ Carries(chan'[l], d) =>
                      \/ Carries(chan[l], d) /\ ~ (l = from /\ d = f.id)
                      \/ d = f.id /\ l[1] = r /\ l[2] \in Nbrs(r) \ {i}
  <2>1. Arrived(r, i, "data") /\ \A l \in Links : Once(chan[l], d)
    BY DEF PollData, WaveInv
  <2>2. IsCopy(f, d) <=> d = f.id
    BY <1>2 DEF IsCopy
  <2>3. \A l \in Links :
              /\ Once(Received(r, i)[l], d)
              /\ Carries(Received(r, i)[l], d) <=>
                    Carries(chan[l], d) /\ ~ (l = from /\ d = f.id)
    BY <1>1, <2>1, <2>2, ReceivedCarries DEF f
  <2>4. ASSUME d = f.id, NEW l \in Links, l[1] = r, l[2] \in targets
        PROVE  ~ Carries(Received(r, i)[l], d)
    <3>1. l = <<r, l[2]>> /\ l[2] # i /\ r # i
      BY <1>2, <1>4, <2>4, LinkPair
    <3>2. Beyond(l) \subseteq Beyond(from) \ {r}
      <4>1. from \in Links /\ from[1] = i /\ from[2] = r
        BY <1>2
      <4>. HIDE DEF from
      <4>. QED BY <2>4, <3>1, <4>1, BeyondShrinks
    <3>3. l[2] \in Beyond(l)
      BY <2>4, BeyondSites
    <3>4. Beyond(l) \intersect Beyond(from) # {}
      BY <3>2, <3>3
    <3>5. l # from
      BY <2>4, <3>1
    <3>6. ~ Carries(chan[l], d)
      BY <1>2, <2>4, <3>4, <3>5 DEF WaveInv
    <3>. QED BY <2>3, <3>6
  <2>5. \A l \in Links :
              /\ Once(chan'[l], d)
              /\ Carries(chan'[l], d) =>
                    \/ Carries(Received(r, i)[l], d)
                    \/ IsCopy(f, d) /\ l[1] = r /\ l[2] \in targets
    <3>1. IsCopy(f, d) => \A l \in Links :
             l[1] = r /\ l[2] \in targets => ~ Carries(Received(r, i)[l], d)
      BY <2>2, <2>4
    <3>2. \A l \in Links : Once(Received(r, i)[l], d)
      BY <2>3
    <3>. QED BY <1>2, <1>3, <3>1, <3>2, SentCarries
  <2>. QED BY <1>4, <2>2, <2>3, <2>5
<1>6. /\ r \in Beyond(from) /\ from # <<r, i>> /\ from[1] = i /\ from[2] = r
      /\ f.id <= published /\ \A x \in Beyond(from) : heard[x][f.id] = 0
  BY <1>2, BeyondSites, LinkPair DEF WaveInv
<1>7. ASSUME NEW d \in DataIds, NEW x \in Sites
      PROVE  heard'[x][d] = heard[x][d] \/ (x = r /\ d = f.id /\ heard'[x][d] = 1)
  <2>1. heard[r][f.id] = 0 /\ heard[x] \in [DataIds -> 0..2] /\ heard[r] \in [DataIds -> 0..2]
    BY <1>1, <1>6
  <2>2. CASE heard' = [heard EXCEPT ![r][f.id] = @ + 1]
    <3>1. CASE x = r /\ d = f.id
      BY <1>1, <2>1, <2>2, <3>1
    <3>2. CASE ~ (x = r /\ d = f.id)
      BY <1>1, <2>1, <2>2, <3>2
    <3>. QED BY <3>1, <3>2
  <2>. QED BY <1>3, <2>2
\* A new copy covers part of what the old one covered, without this site.
<1>8. ASSUME NEW l \in Links, l[1] = r, l[2] \in Nbrs(r) \ {i}
      PROVE  Beyond(l) \subseteq Beyond(from) \ {r}
  <2>1. from \in Links /\ from[1] = i /\ from[2] = r /\ l[2] # i
    BY <1>2, <1>8
  <2>. HIDE DEF from
  <2>. QED BY <1>8, <2>1, BeyondShrinks
\* Another copy that was there before covers none of it.
<1>9. ASSUME NEW l \in Links, Carries(chan[l], f.id), l # from
      PROVE  Beyond(l) \intersect Beyond(from) = {}
  BY <1>2, <1>9 DEF WaveInv
<1>10. ASSUME NEW d \in DataIds, NEW l \in Links, Carries(chan'[l], d)
       PROVE  d <= published' /\ \A x \in Beyond(l) : heard'[x][d] = 0
  <2>1. CASE d = f.id /\ l[1] = r /\ l[2] \in Nbrs(r) \ {i}
    <3>1. Beyond(l) \subseteq Beyond(from) \ {r} /\ Beyond(l) \subseteq Sites
      BY <1>8, <2>1, BeyondSites
    <3>2. \A x \in Beyond(l) : x \in Sites /\ x # r /\ heard[x][d] = 0
      BY <1>6, <2>1, <3>1
    <3>. QED BY <1>3, <1>6, <1>7, <2>1, <3>2
  <2>2. CASE Carries(chan[l], d) /\ ~ (l = from /\ d = f.id)
    <3>1. /\ d <= published /\ \A x \in Beyond(l) : heard[x][d] = 0
          /\ Beyond(l) \subseteq Sites
      BY <2>2, BeyondSites DEF WaveInv
    <3>2. d = f.id => r \notin Beyond(l)
      BY <1>6, <1>9, <2>2
    <3>. QED BY <1>3, <1>7, <3>1, <3>2
  <2>. QED BY <1>5, <1>10, <2>1, <2>2
<1>11. ASSUME NEW d \in DataIds, NEW l \in Links, NEW m \in Links,
              Carries(chan'[l], d), Carries(chan'[m], d), l # m
       PROVE  Beyond(l) \intersect Beyond(m) = {}
  <2>. DEFINE New(k) == d = f.id /\ k[1] = r /\ k[2] \in Nbrs(r) \ {i}
              Old(k) == Carries(chan[k], d) /\ ~ (k = from /\ d = f.id)
  <2>1. (New(l) \/ Old(l)) /\ (New(m) \/ Old(m))
    BY <1>5, <1>11
  <2>2. CASE New(l) /\ New(m)
    BY <1>11, <2>2, BeyondApart
  <2>3. CASE New(l) /\ Old(m)
    <3>1. Beyond(l) \subseteq Beyond(from) /\ Beyond(m) \intersect Beyond(from) = {}
      BY <1>8, <1>9, <2>3
    <3>. QED BY <3>1
  <2>4. CASE Old(l) /\ New(m)
    <3>1. Beyond(m) \subseteq Beyond(from) /\ Beyond(l) \intersect Beyond(from) = {}
      BY <1>8, <1>9, <2>4
    <3>. QED BY <3>1
  <2>5. CASE Old(l) /\ Old(m)
    BY <1>11, <2>5 DEF WaveInv
  <2>. QED BY <2>1, <2>2, <2>3, <2>4, <2>5
<1>12. ASSUME NEW d \in DataIds, NEW x \in Sites
       PROVE  heard'[x][d] <= 1 /\ (d > published' => heard'[x][d] = 0)
  <2>1. heard[x][d] <= 1 /\ (d > published => heard[x][d] = 0)
    BY DEF WaveInv
  <2>2. f.id \in Nat /\ published \in Nat
    BY <1>2 DEF DataIds, TypeInv, TypeOK
  <2>. QED BY <1>3, <1>6, <1>7, <2>1, <2>2
<1>. QED BY <1>5, <1>10, <1>11, <1>12 DEF WaveInv

HeardInv == TypeInv /\ (Forest => WaveInv)

LEMMA NextHeardInv == HeardInv /\ [Next]_vars => HeardInv'
<1>. SUFFICES ASSUME TypeInv, Forest => WaveInv, [Next]_vars PROVE HeardInv'
  BY DEF HeardInv
<1>1. TypeInv'
  BY NextTypeInv
<1>2. Forest' <=> Forest
  BY DEF Forest, Beyond
<1>3. ASSUME Forest PROVE WaveInv'
  <2>0. WaveInv
    BY <1>3
  <2>1. ASSUME NEW s \in Sites, NEW t \in Topics, Subscribe(s, t) PROVE WaveInv'
    <3>1. Sent(s, Nbrs(s), Announce("sub", t, s), chan) /\ UNCHANGED <<heard, published>>
      BY <2>1 DEF Subscribe
    <3>2. Announce("sub", t, s) \in Frames /\ Announce("sub", t, s).kind # "data"
      BY FramesMade DEF Announce
    <3>. QED BY <2>0, <3>1, <3>2, AnnouncedKeepsWave
  <2>2. ASSUME NEW s \in Sites, NEW t \in Topics, Unsubscribe(s, t) PROVE WaveInv'
    <3>1. Sent(s, Nbrs(s), Announce("unsub", t, s), chan) /\ UNCHANGED <<heard, published>>
      BY <2>2 DEF Unsubscribe
    <3>2. Announce("unsub", t, s) \in Frames /\ Announce("unsub", t, s).kind # "data"
      BY FramesMade DEF Announce
    <3>. QED BY <2>0, <3>1, <3>2, AnnouncedKeepsWave
  <2>3. ASSUME NEW s \in Sites, NEW t \in Topics, NEW d \in Dests, Publish(s, t, d)
        PROVE  WaveInv'
    BY <1>3, <2>0, <2>3, PublishKeepsWave
  <2>4. ASSUME NEW r \in Sites, NEW i \in Sites, PollSubscribe(r, i) PROVE WaveInv'
    <3>. DEFINE f == Incoming(r, i)
                table == AddRoute(routes[r], Route(f.topic, i, f.remote))
                targets == ReemitTo(table, r, i, f.topic)
    <3>1. /\ Arrived(r, i, "sub") /\ UNCHANGED <<heard, published>>
          /\ Sent(r, targets, f, Received(r, i)) \/ chan' = Received(r, i)
      BY <2>4 DEF PollSubscribe
    <3>. HIDE DEF targets
    <3>. QED BY <2>0, <3>1, PassedOnKeepsWave
  <2>5. ASSUME NEW r \in Sites, NEW i \in Sites, PollUnsubscribe(r, i) PROVE WaveInv'
    <3>1. /\ Arrived(r, i, "unsub") /\ UNCHANGED <<heard, published>>
          /\ \/ Sent(r, Nbrs(r) \ {i}, Incoming(r, i), Received(r, i))
             \/ chan' = Received(r, i)
      BY <2>5 DEF PollUnsubscribe
    <3>. QED BY <2>0, <3>1, PassedOnKeepsWave
  <2>6. ASSUME NEW r \in Sites, NEW i \in Sites, PollData(r, i) PROVE WaveInv'
    BY <1>3, <2>0, <2>6, PollDataKeepsWave
  <2>7. CASE UNCHANGED vars
    BY <2>0, <2>7 DEF WaveInv, vars
  <2>. QED BY <2>1, <2>2, <2>3, <2>4, <2>5, <2>6, <2>7 DEF Next, Poll
<1>. QED BY <1>1, <1>2, <1>3 DEF HeardInv

(* In a forest no broker is handed a published frame twice, however many   *)
(* sites there are, whoever subscribes and leaves and whatever sends are   *)
(* lost: handle_data never forwards to the interface a frame came from.    *)
THEOREM MeshHeardAtMostOnce == Spec => []HeardAtMostOnce
<1>1. Init => HeardInv
  BY InitTypeInv, InitWave DEF HeardInv
<1>2. HeardInv => HeardAtMostOnce
  BY DEF HeardInv, WaveInv, HeardAtMostOnce
<1>. QED BY <1>1, <1>2, NextHeardInv, PTL DEF Spec

-------------------------------------------------------------------------------
(* A tree.  Every site is on one side of each cable, and closures are      *)
(* least closed sets.                                                      *)

LEMMA LeastNumber ==
    ASSUME NEW T \in SUBSET Nat, T # {}
    PROVE  \E x \in T : \A y \in T : x <= y
<1>. DEFINE R == OpToRel(<, Nat)
<1>1. IsWellFoundedOn(R, Nat)
  BY NatLessThanWellFounded
<1>2. \A x, y \in Nat : <<y, x>> \in R <=> y < x
  BY DEF OpToRel
<1>. HIDE DEF R
<1>3. PICK x \in T : \A y \in T : ~ (<<y, x>> \in R)
  BY <1>1, WFMin
<1>4. ASSUME NEW y \in T PROVE x <= y
  <2>1. ~ (<<y, x>> \in R) /\ x \in Nat /\ y \in Nat
    BY <1>3
  <2>2. ~ (y < x)
    BY <1>2, <2>1
  <2>. QED BY <2>1, <2>2
<1>. QED BY <1>4

Back(l) == <<l[2], l[1]>>

LEMMA OppositeSides ==
    ASSUME Forest, NEW l \in Links
    PROVE  Beyond(l) \intersect Beyond(Back(l)) = {}
<1>. DEFINE b == Back(l)
            S == Beyond(l) \ Beyond(b)
<1>1. b \in Links /\ b[1] = l[2] /\ b[2] = l[1] /\ l = <<b[2], b[1]>> /\ b = <<l[2], l[1]>>
  BY LinkPair DEF Back
<1>2. l[2] \in S
  BY <1>1, BeyondSites DEF Forest
<1>3. ASSUME NEW k \in Links, k[1] \in S, k # l, k # <<l[2], l[1]>>
      PROVE  k[2] \in S
  <2>1. k[2] \in Beyond(l)
    BY <1>3, BeyondSites
  <2>2. ASSUME k[2] \in Beyond(b) PROVE FALSE
    <3>1. Back(k) \in Links /\ Back(k)[1] = k[2] /\ Back(k)[2] = k[1]
      BY LinkPair DEF Back
    <3>2. Back(k) # b /\ Back(k) # <<b[2], b[1]>>
      BY <1>1, <1>3, LinkPair DEF Back
    <3>. HIDE DEF b
    <3>3. k[1] \in Beyond(b)
      BY <1>1, <2>2, <3>1, <3>2, BeyondSites
    <3>. QED BY <1>3, <3>3
  <2>. QED BY <2>1, <2>2
<1>4. S \in SUBSET Sites
  BY BeyondSites
<1>5. Beyond(l) \subseteq S
  <2>. HIDE DEF S
  <2>. QED BY <1>2, <1>3, <1>4, BeyondSites
<1>. QED BY <1>5

Joined ==
    \A S \in SUBSET Sites :
        (S # {} /\ \A l \in Links : l[1] \in S => l[2] \in S) => S = Sites

LEMMA EitherSide ==
    ASSUME Joined, NEW l \in Links, NEW x \in Sites
    PROVE  x \in Beyond(l) \/ x \in Beyond(Back(l))
<1>. DEFINE b == Back(l)
            S == Beyond(l) \union Beyond(b)
<1>1. b \in Links /\ b[1] = l[2] /\ b[2] = l[1] /\ l = <<b[2], b[1]>> /\ b = <<l[2], l[1]>>
  BY LinkPair DEF Back
<1>2. S # {} /\ S \in SUBSET Sites
  BY <1>1, BeyondSites
<1>3. ASSUME NEW k \in Links, k[1] \in S PROVE k[2] \in S
  <2>1. k = l \/ k = b => k[2] \in S
    BY <1>1, BeyondSites
  <2>2. k # l /\ k # b => k[2] \in S
    <3>. HIDE DEF b
    <3>. QED BY <1>1, <1>3, BeyondSites
  <2>. QED BY <2>1, <2>2
<1>4. S = Sites
  <2>. HIDE DEF S
  <2>. QED BY <1>2, <1>3 DEF Joined
<1>. QED BY <1>4

LEMMA FiniteTree ==
    ASSUME IsFiniteSet(Sites)
    PROVE  /\ IsFiniteSet(Links)
           /\ \A l \in Links : IsFiniteSet(Beyond(l)) /\ Cardinality(Beyond(l)) \in Nat
<1>1. IsFiniteSet(Sites \X Sites)
  BY FS_Product
<1>2. IsFiniteSet(Links)
  BY <1>1, LinksAssumption, FS_Subset
<1>3. ASSUME NEW l \in Links
      PROVE  IsFiniteSet(Beyond(l)) /\ Cardinality(Beyond(l)) \in Nat
  BY BeyondSites, FS_Subset, FS_CardinalityType
<1>. QED BY <1>2, <1>3

\* Crossed(tables, first, t) holds `first', all that follows on it and no more.
LEMMA CrossedIsClosed ==
    ASSUME IsFiniteSet(Links), NEW tables, NEW t, NEW first \in SUBSET Links
    PROVE  /\ first \subseteq Crossed(tables, first, t)
           /\ Onward(tables, Crossed(tables, first, t), t) \subseteq Crossed(tables, first, t)
           /\ Crossed(tables, first, t) \subseteq Links
           /\ \A D \in SUBSET Links :
                 first \subseteq D /\ Onward(tables, D, t) \subseteq D
                    => Crossed(tables, first, t) \subseteq D
<1>. DEFINE On(S) == Onward(tables, S, t)
            Body(f) == [links \in SUBSET Links |->
                          IF On(links) \subseteq links THEN links
                          ELSE f[links \union On(links)]]
            Least(S) == { n \in Links :
                            \A C \in SUBSET Links : S \subseteq C /\ On(C) \subseteq C => n \in C }
            least == [links \in SUBSET Links |-> Least(links)]
            closure == CHOOSE f : f = Body(f)
<1>1. \A S : On(S) \subseteq Links
  BY DEF Onward
<1>2. \A S, C : S \subseteq C => On(S) \subseteq On(C)
  BY DEF Onward
<1>. HIDE DEF On
<1>3. ASSUME NEW S \in SUBSET Links
      PROVE  Least(S) = IF On(S) \subseteq S THEN S ELSE Least(S \union On(S))
  <2>1. CASE On(S) \subseteq S
    BY <2>1
  <2>2. CASE ~ (On(S) \subseteq S)
    <3>1. \A C \in SUBSET Links :
             S \subseteq C /\ On(C) \subseteq C <=> S \union On(S) \subseteq C /\ On(C) \subseteq C
      BY <1>2
    <3>2. Least(S) = Least(S \union On(S))
      BY <3>1
    <3>. QED BY <2>2, <3>2
  <2>. QED BY <2>1, <2>2
<1>4. least = Body(least)
  <2>. HIDE DEF Least
  <2>1. \A S \in SUBSET Links : least[S] = IF On(S) \subseteq S THEN S ELSE least[S \union On(S)]
    BY <1>1, <1>3
  <2>. QED BY <2>1
<1>5. closure = Body(closure)
  <2>. HIDE DEF Body, least
  <2>. QED BY <1>4
<1>6. Crossed(tables, first, t) = closure[first]
  BY DEF Crossed, On
<1>. HIDE DEF closure
<1>7. \A S \in SUBSET Links : closure[S] = IF On(S) \subseteq S THEN S ELSE closure[S \union On(S)]
  BY <1>5
<1>. DEFINE Fit(S) == S \subseteq closure[S] /\ On(closure[S]) \subseteq closure[S]
                      /\ closure[S] \subseteq Links
                      /\ \A D \in SUBSET Links :
                            S \subseteq D /\ On(D) \subseteq D => closure[S] \subseteq D
            Odd == { S \in SUBSET Links : ~ Fit(S) }
            rest(S) == Cardinality(Links \ S)
<1>8. \A S \in SUBSET Links : rest(S) \in Nat
  <2>1. ASSUME NEW S \in SUBSET Links PROVE IsFiniteSet(Links \ S)
    BY FS_Subset
  <2>. QED BY <2>1, FS_CardinalityType
<1>9. ASSUME Odd # {} PROVE FALSE
  <2>. DEFINE R == { rest(S) : S \in Odd }
  <2>1. R \in SUBSET Nat /\ R # {}
    <3>. HIDE DEF Fit, rest
    <3>. QED BY <1>8, <1>9
  <2>2. PICK n \in R : \A m \in R : n <= m
    <3>. HIDE DEF R
    <3>. QED BY <2>1, LeastNumber
  <2>3. PICK S \in Odd : \A C \in Odd : rest(S) <= rest(C)
    BY <2>2
  <2>4. S \in SUBSET Links /\ ~ Fit(S)
    OBVIOUS
  <2>5. ~ (On(S) \subseteq S)
    BY <1>7, <2>4
  <2>. DEFINE C == S \union On(S)
  <2>6. C \in SUBSET Links /\ closure[S] = closure[C] /\ S \subseteq C
    BY <1>1, <1>7, <2>4, <2>5
  <2>7. C \in Odd
    <3>1. \A D \in SUBSET Links : S \subseteq D /\ On(D) \subseteq D => C \subseteq D
      BY <1>2
    <3>. HIDE DEF C
    <3>2. ASSUME Fit(C) PROVE FALSE
      BY <2>4, <2>6, <3>1, <3>2
    <3>. QED BY <2>6, <3>2
  <2>8. rest(C) < rest(S)
    <3>1. Links \ C \in SUBSET (Links \ S) /\ Links \ C # Links \ S
      BY <1>1, <2>4, <2>5
    <3>2. IsFiniteSet(Links \ S)
      BY FS_Subset
    <3>3. rest(C) <= rest(S) /\ rest(C) # rest(S)
      BY <3>1, <3>2, FS_Subset
    <3>. QED BY <1>8, <2>4, <2>6, <3>3
  <2>. HIDE DEF C, rest, Odd
  <2>. QED BY <1>8, <2>3, <2>4, <2>6, <2>7, <2>8
<1>10. Fit(first)
  BY <1>9
<1>. QED BY <1>6, <1>10 DEF On

(* Where entries for x point toward x and never end short of it, a frame   *)
(* from a router that has one reaches x.                                   *)
LEMMA FollowedToTheEnd ==
    ASSUME Forest, IsFiniteSet(Sites), NEW t, NEW x \in Sites,
           \A r \in Sites : \A e \in routes[r] :
              e.topic = t /\ e.remote = x =>
                 /\ <<r, e.iface>> \in Links /\ x \in Beyond(<<r, e.iface>>)
                 /\ Knows(e.iface, t, x),
           NEW p \in Sites, NEW e0 \in routes[p], e0.topic = t, e0.remote = x
    PROVE  Reaches(routes, p, t, x)
<1>. DEFINE first == {<<p, n>> : n \in Nbrs(p)}
            C == Crossed(routes, first, t)
            size(l) == Cardinality(Beyond(l))
            Leading == { l \in C : x \in Beyond(l) /\ Knows(l[2], t, x) }
<1>1. first \in SUBSET Links
  BY DEF Nbrs
<1>2. IsFiniteSet(Links) /\ \A l \in Links : IsFiniteSet(Beyond(l)) /\ size(l) \in Nat
  BY FiniteTree
<1>3. first \subseteq C /\ Onward(routes, C, t) \subseteq C /\ C \subseteq Links
  BY <1>1, <1>2, CrossedIsClosed
<1>4. <<p, e0.iface>> \in Leading
  <2>1. <<p, e0.iface>> \in Links /\ x \in Beyond(<<p, e0.iface>>) /\ Knows(e0.iface, t, x)
    OBVIOUS
  <2>2. e0.iface \in Nbrs(p)
    BY <2>1, LinksAssumption DEF Nbrs
  <2>. QED BY <1>3, <2>1, <2>2
<1>. HIDE DEF C
<1>5. PICK l \in Leading : \A m \in Leading : size(l) <= size(m)
  <2>. DEFINE T == { size(l) : l \in Leading }
  <2>1. T \in SUBSET Nat /\ T # {}
    BY <1>2, <1>3, <1>4
  <2>2. PICK n \in T : \A k \in T : n <= k
    <3>. HIDE DEF T
    <3>. QED BY <2>1, LeastNumber
  <2>. QED BY <2>2
<1>6. l \in Links /\ l = <<l[1], l[2]>> /\ l[2] \in Sites
  BY <1>3, LinksAssumption
<1>7. ASSUME l[2] # x PROVE FALSE
  <2>1. PICK j \in Nbrs(l[2]) : Route(t, j, x) \in routes[l[2]]
    BY <1>7 DEF Knows
  <2>. DEFINE m == <<l[2], j>>
  <2>2. m \in Links /\ x \in Beyond(m) /\ Knows(j, t, x) /\ m[1] = l[2] /\ m[2] = j
    BY <1>6, <2>1 DEF Route
  <2>3. j # l[1]
    <3>1. x \notin Beyond(Back(l))
      BY <1>6, OppositeSides
    <3>. QED BY <2>2, <3>1 DEF Back
  <2>4. j \in ForwardTo(routes[l[2]], l[2], l[1], t)
    BY <2>1, <2>3 DEF ForwardTo, HasAnyRoute, Route
  <2>5. m \in Onward(routes, C, t)
    <3>. HIDE DEF m
    <3>. QED BY <2>2, <2>4 DEF Onward
  <2>6. m \in Leading
    BY <1>3, <2>2, <2>5
  <2>7. Beyond(m) \subseteq Beyond(l) \ {l[2]} /\ l[2] \in Beyond(l)
    <3>. HIDE DEF m
    <3>. QED BY <1>6, <2>2, <2>3, BeyondShrinks, BeyondSites
  <2>8. size(m) < size(l)
    <3>1. size(m) <= size(l) /\ size(m) # size(l)
      BY <1>2, <1>6, <2>7, FS_Subset
    <3>. QED BY <1>2, <1>6, <2>2, <3>1
  <2>. HIDE DEF size, Leading
  <2>. QED BY <1>2, <1>5, <1>6, <2>2, <2>6, <2>8
<1>8. l \in C /\ l[2] = x
  BY <1>7
<1>. QED BY <1>8 DEF Reaches, C

-------------------------------------------------------------------------------
(* What announcements and entries say of a site is true: it lies in the    *)
(* direction they came from, and it has asked.                             *)

Asked ==
    \A t \in Topics : /\ came[t] \subseteq Clients[t]
                      /\ \A s \in Sites : t \in wants[s] => s \in came[t]
                      /\ \A s \in came[t] : s \in gone[t] \/ t \in wants[s]

Tracks(r, e) ==
    /\ <<r, e.iface>> \in Links /\ e.remote \in came[e.topic]
    /\ Forest => e.remote \in Beyond(<<r, e.iface>>)

Heralds(l, f) ==
    /\ f.remote \in came[f.topic]
    /\ Forest => f.remote \in Beyond(Back(l))

Directed ==
    /\ \A r \in Sites : \A e \in routes[r] : Tracks(r, e)
    /\ \A l \in Links : \A f \in InFlight(chan, l) : f.kind # "data" => Heralds(l, f)

DirInv == TypeInv /\ Asked /\ Directed

LEMMA InitDir == Init => DirInv
BY InitTypeInv, ClientsAssumption DEF Init, DirInv, Asked, Directed, InFlight

\* A router sends, at most, `frame', which tells the truth.
LEMMA DirStep ==
    ASSUME DirInv, TypeInv', Asked', \A t \in Topics : came[t] \subseteq came'[t],
           \A r \in Sites : \A e \in routes'[r] : e \in routes[r] \/ Tracks(r, e)',
           NEW s, NEW frame \in Frames,
           frame.kind # "data" => \A l \in Links : 
              (frame \in InFlight(chan', l) /\ frame \notin InFlight(chan, l))
                 => Heralds(l, frame)',
           \A l \in Links : \A f \in InFlight(chan', l) : f \in InFlight(chan, l) \/ f = frame
    PROVE  DirInv'
<1>1. /\ \A r \in Sites : \A e \in routes'[r] : e.topic \in Topics
      /\ \A r \in Sites : \A e \in routes[r] : e.topic \in Topics
      /\ \A l \in Links : \A f \in InFlight(chan, l) : f.kind # "data" => f.topic \in Topics
  <2>1. /\ routes \in [Sites -> SUBSET Routes] /\ routes' \in [Sites -> SUBSET Routes]
        /\ \A l \in Links : chan[l] \in Seq(Frames)
    BY DEF DirInv, TypeInv, TypeOK, Routes
  <2>2. \A l \in Links : \A f \in InFlight(chan, l) : f \in Frames
    BY <2>1 DEF InFlight
  <2>3. \A e \in Routes : e.topic \in Topics
    BY DEF Routes
  <2>4. \A f \in Frames : f.topic \in Topics
    BY DEF Frames, Announcements, DataFrames
  <2>. QED BY <2>1, <2>2, <2>3, <2>4
<1>2. ASSUME NEW r \in Sites, NEW e \in routes'[r] PROVE Tracks(r, e)'
  <2>1. CASE e \in routes[r]
    BY <1>1, <2>1 DEF DirInv, Directed, Tracks, Forest, Beyond
  <2>. QED BY <1>2, <2>1
<1>3. ASSUME NEW l \in Links, NEW f \in InFlight(chan', l), f.kind # "data"
      PROVE  Heralds(l, f)'
  <2>1. CASE f \in InFlight(chan, l)
    BY <1>1, <1>3, <2>1 DEF DirInv, Directed, Heralds, Forest, Beyond, Back
  <2>. QED BY <1>3, <2>1
<1>. QED BY <1>2, <1>3 DEF DirInv, Directed, InFlight

LEMMA SentTo ==
    ASSUME NEW s, NEW targets, NEW frame \in Frames,
           NEW before \in [Links -> Seq(Frames)],
           Sent(s, targets, frame, before)
    PROVE  \A l \in Links : \A f \in InFlight(chan', l) :
              f \in InFlight(before, l) \/ (f = frame /\ l[1] = s /\ l[2] \in targets)
<1>1. PICK got \in SUBSET targets :
         chan' = [l \in Links |->
                    IF l[1] = s /\ l[2] \in got THEN Append(before[l], frame)
                                                ELSE before[l]]
  BY DEF Sent
<1>2. ASSUME NEW l \in Links, NEW f \in InFlight(chan', l)
      PROVE  f \in InFlight(before, l) \/ (f = frame /\ l[1] = s /\ l[2] \in targets)
  <2>1. before[l] \in Seq(Frames)
    OBVIOUS
  <2>2. CASE l[1] = s /\ l[2] \in got
    <3>1. chan'[l] = Append(before[l], frame)
      BY <1>1, <2>2
    <3>. QED BY <1>2, <2>1, <2>2, <3>1 DEF InFlight
  <2>3. CASE ~ (l[1] = s /\ l[2] \in got)
    BY <1>1, <1>2, <2>3 DEF InFlight
  <2>. QED BY <2>2, <2>3
<1>. QED BY <1>2

LEMMA NextDir ==
    ASSUME DirInv, [Next]_vars
    PROVE  DirInv'
<1>1. TypeInv /\ TypeInv' /\ Asked /\ Directed
  BY NextTypeInv DEF DirInv
<1>2. /\ chan \in [Links -> Seq(Frames)] /\ routes \in [Sites -> SUBSET Routes]
      /\ wants \in [Sites -> SUBSET Topics]
      /\ came \in [Topics -> SUBSET Sites] /\ gone \in [Topics -> SUBSET Sites]
      /\ \A l \in Links : l[1] \in Sites /\ l[2] \in Sites
  BY <1>1, LinksAssumption DEF TypeInv, TypeOK, Routes
<1>3. ASSUME NEW s \in Sites, NEW t \in Topics, NEW kind \in {"sub", "unsub"},
             Sent(s, Nbrs(s), Announce(kind, t, s), chan), routes' = routes, s \in came'[t],
             \A u \in Topics : came[u] \subseteq came'[u], Asked'
      PROVE  DirInv'
  <2>. DEFINE f == Announce(kind, t, s)
  <2>1. f \in Frames /\ f.topic = t /\ f.remote = s
    BY FramesMade DEF Announce
  <2>. HIDE DEF f
  <2>2. \A l \in Links : \A g \in InFlight(chan', l) :
           g \in InFlight(chan, l) \/ (g = f /\ l[1] = s)
    BY <1>2, <1>3, <2>1, SentTo DEF f
  <2>3. \A l \in Links : l[1] = s => s \in Beyond(Back(l))
    BY LinkPair, BeyondSites DEF Back
  <2>4. \A l \in Links : l[1] = s => Heralds(l, f)'
    BY <1>3, <2>1, <2>3 DEF Heralds, Back, Beyond, Forest
  <2>. QED BY <1>1, <1>3, <2>1, <2>2, <2>4, DirStep
<1>4. ASSUME NEW s \in Sites, NEW t \in Topics, Subscribe(s, t)
      PROVE  DirInv'
  <2>1. /\ Sent(s, Nbrs(s), Announce("sub", t, s), chan) /\ routes' = routes
        /\ came' = [came EXCEPT ![t] = @ \union {s}]
        /\ wants' = [wants EXCEPT ![s] = @ \union {t}] /\ gone' = gone /\ s \in Clients[t]
    BY <1>4 DEF Subscribe
  <2>2. Asked'
    BY <1>1, <1>2, <2>1 DEF Asked
  <2>. QED BY <1>2, <1>3, <2>1, <2>2
<1>5. ASSUME NEW s \in Sites, NEW t \in Topics, Unsubscribe(s, t)
      PROVE  DirInv'
  <2>1. /\ Sent(s, Nbrs(s), Announce("unsub", t, s), chan) /\ routes' = routes
        /\ came' = came /\ t \in wants[s]
        /\ wants' = [wants EXCEPT ![s] = @ \ {t}] /\ gone' = [gone EXCEPT ![t] = @ \union {s}]
    BY <1>5 DEF Unsubscribe
  <2>2. Asked'
    BY <1>1, <1>2, <2>1 DEF Asked
  <2>3. s \in came'[t]
    BY <1>1, <2>1 DEF Asked
  <2>. QED BY <1>2, <1>3, <2>1, <2>2, <2>3
<1>6. ASSUME NEW s \in Sites, NEW t \in Topics, NEW d \in Dests, Publish(s, t, d)
      PROVE  DirInv'
  <2>. DEFINE f == Data(t, d, published + 1)
  <2>1. published + 1 \in DataIds
    BY <1>1, <1>6, BoundsAssumption DEF Publish, DataIds, TypeInv, TypeOK
  <2>2. f \in Frames /\ f.kind = "data"
    BY <2>1, FramesMade DEF Data
  <2>3. /\ routes' = routes /\ gone' = gone /\ came' = came /\ wants' = wants
        /\ Sent(s, Nbrs(s), f, chan)
    BY <1>6 DEF Publish, calls
  <2>. HIDE DEF f
  <2>4. \A l \in Links : \A g \in InFlight(chan', l) :
           g \in InFlight(chan, l) \/ (g = f /\ l[1] = s)
    BY <1>2, <2>2, <2>3, SentTo
  <2>5. Asked'
    BY <1>1, <2>3 DEF Asked
  <2>. QED BY <1>1, <2>2, <2>3, <2>4, <2>5, DirStep
<1>7. ASSUME NEW r \in Sites, NEW i \in Sites, NEW f \in Frames, f = Incoming(r, i),
             Arrived(r, i, f.kind), NEW targets, targets \subseteq Nbrs(r) \ {i},
             chan' = Received(r, i) \/ Sent(r, targets, f, Received(r, i)),
             UNCHANGED calls,
             \A q \in Sites : \A e \in routes'[q] :
                \/ e \in routes[q]
                \/ q = r /\ e = Route(f.topic, i, f.remote) /\ f.kind = "sub"
      PROVE  DirInv'
  <2>1. /\ f \in InFlight(chan, <<i, r>>) /\ <<i, r>> \in Links
        /\ Received(r, i) \in [Links -> Seq(Frames)]
        /\ \A l \in Links : InFlight(Received(r, i), l) \subseteq InFlight(chan, l)
    BY <1>2, <1>7, ReceivedFrames DEF Arrived
  <2>2. f.kind # "data" => Heralds(<<i, r>>, f)
    BY <1>1, <2>1 DEF Directed
  <2>3. Asked' /\ came' = came
    BY <1>1, <1>7 DEF Asked, calls
  <2>4. \A l \in Links : \A g \in InFlight(chan', l) :
           g \in InFlight(chan, l) \/ (g = f /\ l[1] = r /\ l[2] \in Nbrs(r) \ {i})
    <3>1. CASE chan' = Received(r, i)
      BY <2>1, <3>1 DEF InFlight
    <3>2. CASE Sent(r, targets, f, Received(r, i))
      BY <1>7, <2>1, <3>2, SentTo
    <3>. QED BY <1>7, <3>1, <3>2
  <2>5. <<r, i>> \in Links
    BY <2>1, LinksAssumption
  <2>6. Forest /\ f.kind # "data" => f.remote \in Beyond(<<r, i>>)
    BY <2>2 DEF Heralds, Back
  <2>7. ASSUME f.kind # "data", NEW l \in Links, l[1] = r, l[2] \in Nbrs(r) \ {i}
        PROVE  Heralds(l, f)'
    <3>1. ASSUME Forest PROVE f.remote \in Beyond(Back(l))
      <4>. DEFINE b == Back(l)
                  m == <<r, i>>
      <4>1. b \in Links /\ b[2] = r /\ b[1] = l[2]
        BY <2>7, LinkPair DEF Back
      <4>2. m \in Links /\ m[1] = r /\ m[2] = i
        BY <2>5
      <4>. HIDE DEF b, m
      <4>3. Beyond(m) \subseteq Beyond(b)
        BY <2>7, <3>1, <4>1, <4>2, BeyondShrinks
      <4>. QED BY <2>6, <2>7, <3>1, <4>3 DEF b, m
    <3>. QED BY <2>2, <2>3, <2>7, <3>1 DEF Heralds, Forest, Beyond, Back
  <2>8. ASSUME NEW q \in Sites, NEW e \in routes'[q], e \notin routes[q]
        PROVE  Tracks(q, e)'
    <3>1. q = r /\ e = Route(f.topic, i, f.remote) /\ f.kind = "sub"
      BY <1>7, <2>8
    <3>2. e.topic = f.topic /\ e.iface = i /\ e.remote = f.remote
      BY <3>1 DEF Route
    <3>. QED BY <2>2, <2>3, <2>5, <2>6, <3>1, <3>2 DEF Tracks, Heralds, Forest, Beyond
  <2>9. f.kind # "data" => \A l \in Links :
           (f \in InFlight(chan', l) /\ f \notin InFlight(chan, l)) => Heralds(l, f)'
    BY <2>4, <2>7
  <2>. QED BY <1>1, <2>3, <2>4, <2>8, <2>9, DirStep
<1>8. ASSUME NEW r \in Sites, NEW i \in Sites, Poll(r, i)
      PROVE  DirInv'
  <2>. PICK f : f = Incoming(r, i)
    OBVIOUS
  <2>1. CASE PollSubscribe(r, i)
    <3>. DEFINE table == AddRoute(routes[r], Route(f.topic, i, f.remote))
                targets == ReemitTo(table, r, i, f.topic)
    <3>1. /\ Arrived(r, i, "sub") /\ UNCHANGED calls
          /\ routes' = [routes EXCEPT ![r] = table]
          /\ chan' = Received(r, i) \/ Sent(r, targets, f, Received(r, i))
      BY <2>1 DEF PollSubscribe
    <3>2. f \in Frames /\ f.kind = "sub"
      BY <1>2, <3>1, ReceivedFrames
    <3>3. targets \subseteq Nbrs(r) \ {i}
      BY DEF ReemitTo
    <3>4. \A q \in Sites : \A e \in routes'[q] :
             e \in routes[q] \/ (q = r /\ e = Route(f.topic, i, f.remote) /\ f.kind = "sub")
      BY <1>2, <3>1, <3>2 DEF AddRoute
    <3>. HIDE DEF targets
    <3>. QED BY <1>7, <3>1, <3>2, <3>3, <3>4
  <2>2. CASE PollUnsubscribe(r, i)
    <3>1. /\ Arrived(r, i, "unsub") /\ UNCHANGED calls
          /\ routes' = [routes EXCEPT ![r] = RemoveRoute(@, Route(f.topic, i, f.remote))]
          /\ chan' = Received(r, i) \/ Sent(r, Nbrs(r) \ {i}, f, Received(r, i))
      BY <2>2 DEF PollUnsubscribe
    <3>2. f \in Frames /\ f.kind = "unsub"
      BY <1>2, <3>1, ReceivedFrames
    <3>3. \A q \in Sites : routes'[q] \subseteq routes[q]
      BY <1>2, <3>1 DEF RemoveRoute
    <3>. QED BY <1>7, <3>1, <3>2, <3>3
  <2>3. CASE PollData(r, i)
    <3>1. /\ Arrived(r, i, "data") /\ UNCHANGED calls /\ routes' = routes
          /\ Sent(r, ForwardTo(routes[r], r, i, f.topic), f, Received(r, i))
      BY <2>3 DEF PollData
    <3>2. f \in Frames /\ f.kind = "data"
      BY <1>2, <3>1, ReceivedFrames
    <3>3. ForwardTo(routes[r], r, i, f.topic) \subseteq Nbrs(r) \ {i}
      BY DEF ForwardTo
    <3>. QED BY <1>7, <3>1, <3>2, <3>3
  <2>. QED BY <1>8, <2>1, <2>2, <2>3 DEF Poll
<1>9. CASE UNCHANGED vars
  BY <1>1, <1>9 DEF DirInv, vars, Asked, Directed, InFlight, Tracks, Heralds, Forest, Beyond, Back
<1>. QED BY <1>4, <1>5, <1>6, <1>8, <1>9 DEF Next

-------------------------------------------------------------------------------
(* Every demand is told on.  A router that wants a topic, or has heard     *)
(* somebody does, has told each neighbour, or is about to, or knows        *)
(* demand in the neighbour's direction, which makes it keep its own to     *)
(* itself (ReemitTo).                                                      *)

LEMMA OneWay ==
    ASSUME Forest, NEW r, NEW e \in Routes, NEW d \in Routes,
           Tracks(r, e), Tracks(r, d), e.topic = d.topic, e.remote = d.remote
    PROVE  e = d
<1>. DEFINE l == <<r, e.iface>>
            m == <<r, d.iface>>
<1>1. l \in Links /\ m \in Links /\ e.remote \in Beyond(l) /\ e.remote \in Beyond(m) /\ l[1] = m[1]
  BY DEF Tracks
<1>2. l = m
  <2>. HIDE DEF l, m
  <2>. QED BY <1>1, BeyondApart
<1>3. e.iface = d.iface
  BY <1>2
<1>. QED BY <1>3 DEF Routes

\* With a slot for each demand, only a duplicate is refused.
LEMMA RoomLeft ==
    ASSUME DirInv, LossFreeTree, NEW r \in Sites, NEW i \in Sites, <<r, i>> \in Links,
           NEW f \in Frames, f.kind # "data", Heralds(<<i, r>>, f),
           Route(f.topic, i, f.remote) \notin routes[r]
    PROVE  Inserts(routes[r], Route(f.topic, i, f.remote))
<1>. DEFINE new == Route(f.topic, i, f.remote)
            all == routes[r] \union {new}
            g == [e \in all |-> <<e.topic, e.remote>>]
<1>1. f.topic \in Topics /\ f.remote \in Sites
  BY DEF Frames, Announcements, DataFrames
<1>2. new \in Routes /\ new.topic = f.topic /\ new.iface = i /\ new.remote = f.remote
  BY <1>1 DEF Route, Routes
<1>3. routes[r] \subseteq Routes /\ IsFiniteSet(routes[r]) /\ Forest
  BY DEF DirInv, TypeInv, TypeOK, Routes, LossFreeTree
<1>4. Tracks(r, new)
  BY <1>2, <1>3 DEF Heralds, Tracks, Back
<1>. HIDE DEF new
<1>5. \A e \in all : e \in Routes /\ Tracks(r, e)
  BY <1>2, <1>3, <1>4 DEF DirInv, Directed
<1>6. \A e \in all : <<e.topic, e.remote>> \in Demands
  <2>1. ASSUME NEW e \in Routes, Tracks(r, e) PROVE <<e.topic, e.remote>> \in Demands
    <3>1. e.topic \in Topics /\ e.remote \in Sites
      BY DEF Routes
    <3>2. e.remote \in Clients[e.topic]
      BY <2>1, <3>1 DEF Tracks, DirInv, Asked
    <3>. QED BY <3>1, <3>2 DEF Demands
  <2>. QED BY <1>5, <2>1
<1>7. g \in Injection(all, Demands)
  <2>1. \A e, d \in all : g[e] = g[d] => e = d
    <3>1. ASSUME NEW e \in all, NEW d \in all, g[e] = g[d] PROVE e = d
      <4>1. e.topic = d.topic /\ e.remote = d.remote
        BY <3>1
      <4>. HIDE DEF all
      <4>. QED BY <1>3, <1>5, <4>1, OneWay
    <3>. QED BY <3>1
  <2>2. g \in [all -> Demands]
    BY <1>6
  <2>. HIDE DEF g, all
  <2>. QED BY <2>1, <2>2 DEF Injection, IsInjective
<1>8. IsFiniteSet(Demands) /\ Cardinality(Demands) <= MaxRoutes
  BY DEF LossFreeTree
<1>9. Cardinality(all) <= Cardinality(Demands) /\ Cardinality(Demands) \in Nat
  <2>. HIDE DEF all, g
  <2>. QED BY <1>7, <1>8, FS_Injection, FS_CardinalityType
<1>10. new \notin routes[r]
  BY DEF new
<1>11. Cardinality(all) = Cardinality(routes[r]) + 1 /\ Cardinality(routes[r]) \in Nat
  BY <1>3, <1>10, FS_AddElement, FS_CardinalityType
<1>12. Cardinality(routes[r]) < MaxRoutes
  <2>. HIDE DEF all, g
  <2>. QED BY <1>8, <1>9, <1>11, MaxRoutesAssumption
<1>. QED BY <1>10, <1>12 DEF Inserts, new

Wanting(l, t) ==
    t \in wants[l[1]] \/ \E e \in routes[l[1]] : e.topic = t /\ e.iface # l[2]

IsCall(f, t) == f.kind = "sub" /\ f.topic = t

Told ==
    \A t \in Topics : Settled(t) =>
        \A l \in Links : Wanting(l, t) =>
            \/ HasAnyRoute(routes[l[2]], t, l[1])
            \/ HasAnyRoute(routes[l[1]], t, l[2])
            \/ \E f \in InFlight(chan, l) : IsCall(f, t)

LEMMA ToldStep ==
    ASSUME Told,
           \A t \in Topics : Settled(t)' => Settled(t),
           ASSUME NEW t \in Topics, Settled(t)'
           PROVE  /\ \A r \in Sites : \A e \in routes[r] : e.topic = t => e \in routes'[r]
                  /\ \A l \in Links : \A f \in InFlight(chan, l) : IsCall(f, t) =>
                        f \in InFlight(chan', l) \/ HasAnyRoute(routes'[l[2]], t, l[1])
                  /\ \A l \in Links : Wanting(l, t)' =>
                        \/ Wanting(l, t)
                        \/ HasAnyRoute(routes'[l[1]], t, l[2])
                        \/ \E f \in InFlight(chan', l) : IsCall(f, t)
    PROVE  Told'
<1>. SUFFICES ASSUME NEW t \in Topics, Settled(t)', NEW l \in Links, Wanting(l, t)'
              PROVE  \/ HasAnyRoute(routes'[l[2]], t, l[1])
                     \/ HasAnyRoute(routes'[l[1]], t, l[2])
                     \/ \E f \in InFlight(chan', l) : IsCall(f, t)
  BY DEF Told, HasAnyRoute, InFlight, IsCall
<1>1. l[1] \in Sites /\ l[2] \in Sites
  BY LinksAssumption
<1>2. \A a, b \in Sites : HasAnyRoute(routes[a], t, b) => HasAnyRoute(routes'[a], t, b)
  BY DEF HasAnyRoute
<1>3. CASE Wanting(l, t)
  <2>1. \/ HasAnyRoute(routes[l[2]], t, l[1])
        \/ HasAnyRoute(routes[l[1]], t, l[2])
        \/ \E f \in InFlight(chan, l) : IsCall(f, t)
    BY <1>3 DEF Told
  <2>2. ASSUME NEW f \in InFlight(chan, l), IsCall(f, t)
        PROVE  f \in InFlight(chan', l) \/ HasAnyRoute(routes'[l[2]], t, l[1])
    BY <2>2
  <2>. QED BY <1>1, <1>2, <2>1, <2>2
<1>. QED BY <1>3

\* What was under way still is, but for the frame received.
LEMMA SentKeeps ==
    ASSUME NEW s, NEW targets, NEW frame \in Frames, ~Lossy,
           NEW before \in [Links -> Seq(Frames)],
           Sent(s, targets, frame, before), NEW l \in Links
    PROVE  /\ InFlight(before, l) \subseteq InFlight(chan', l)
           /\ l[1] = s /\ l[2] \in targets => frame \in InFlight(chan', l)
<1>0. PICK got \in (IF Lossy THEN SUBSET targets ELSE {targets}) :
         chan' = [m \in Links |->
                    IF m[1] = s /\ m[2] \in got THEN Append(before[m], frame)
                                                ELSE before[m]]
  BY DEF Sent
<1>1. /\ \/ chan'[l] = before[l]
         \/ chan'[l] = Append(before[l], frame)
      /\ l[1] = s /\ l[2] \in targets => chan'[l] = Append(before[l], frame)
  BY <1>0
<1>2. before[l] \in Seq(Frames)
  OBVIOUS
<1>3. CASE chan'[l] = Append(before[l], frame)
  <2>1. /\ Len(before[l]) + 1 \in DOMAIN chan'[l] /\ chan'[l][Len(before[l]) + 1] = frame
        /\ \A k \in DOMAIN before[l] : k \in DOMAIN chan'[l] /\ chan'[l][k] = before[l][k]
    BY <1>2, <1>3
  <2>. QED BY <2>1 DEF InFlight
<1>4. CASE chan'[l] = before[l] /\ ~ (l[1] = s /\ l[2] \in targets)
  BY <1>4 DEF InFlight
<1>. QED BY <1>1, <1>3, <1>4

LEMMA ReceivedKeeps ==
    ASSUME chan \in [Links -> Seq(Frames)], NEW r, NEW i, NEW kind, Arrived(r, i, kind),
           NEW l \in Links, NEW f \in InFlight(chan, l)
    PROVE  \/ f \in InFlight(Received(r, i), l)
           \/ l = <<i, r>> /\ f = Incoming(r, i)
<1>. DEFINE q == chan[l]
<1>1. CASE l = <<i, r>>
  <2>1. q \in Seq(Frames) /\ q # << >> /\ Received(r, i)[l] = Tail(q) /\ Incoming(r, i) = q[1]
    BY <1>1 DEF Arrived, Received, Incoming
  <2>2. PICK k \in DOMAIN q : f = q[k]
    BY DEF InFlight
  <2>. HIDE DEF q
  <2>3. k # 1 => k - 1 \in DOMAIN Tail(q) /\ Tail(q)[k - 1] = q[k]
    BY <2>1, <2>2
  <2>. QED BY <1>1, <2>1, <2>2, <2>3 DEF InFlight
<1>2. CASE l # <<i, r>>
  <2>1. Received(r, i)[l] = chan[l]
    BY <1>2 DEF Received
  <2>. QED BY <2>1 DEF InFlight
<1>. QED BY <1>1, <1>2

ToldInv == HoleInv /\ DirInv /\ (LossFreeTree => Told)

LEMMA InitTold == Init => ToldInv
<1>. SUFFICES ASSUME Init PROVE Told
  BY InitHoleInv, InitDir DEF ToldInv
<1>1. \A l \in Links : l[1] \in Sites
  BY LinksAssumption
<1>2. \A l \in Links, t \in Topics : ~ Wanting(l, t)
  BY <1>1 DEF Init, Wanting
<1>. QED BY <1>2 DEF Told

LEMMA NextTold ==
    ASSUME HoleInv, HoleInv', DirInv, DirInv', LossFreeTree, Told, [Next]_vars
    PROVE  Told'
<1>1. TypeInv /\ TypeInv' /\ ~Lossy /\ Forest
  BY DEF DirInv, LossFreeTree
<1>2. /\ chan \in [Links -> Seq(Frames)] /\ routes \in [Sites -> SUBSET Routes]
      /\ wants \in [Sites -> SUBSET Topics] /\ gone \in [Topics -> SUBSET Sites]
      /\ \A l \in Links : l[1] \in Sites /\ l[2] \in Sites /\ l[2] \in Nbrs(l[1])
  BY <1>1, LinkPair, LinksAssumption DEF TypeInv, TypeOK, Routes, Nbrs
<1>3. ASSUME NEW s \in Sites, NEW t \in Topics, Subscribe(s, t)
      PROVE  Told'
  <2>. DEFINE f == Announce("sub", t, s)
  <2>1. f \in Frames /\ IsCall(f, t)
    BY FramesMade DEF Announce, IsCall
  <2>2. /\ Sent(s, Nbrs(s), f, chan) /\ routes' = routes /\ gone' = gone
        /\ wants' = [wants EXCEPT ![s] = @ \union {t}]
    BY <1>3 DEF Subscribe
  <2>. HIDE DEF f
  <2>3. \A l \in Links : /\ InFlight(chan, l) \subseteq InFlight(chan', l)
                         /\ l[1] = s => f \in InFlight(chan', l)
    BY <1>1, <1>2, <2>1, <2>2, SentKeeps
  <2>4. ASSUME NEW u \in Topics, NEW l \in Links, Wanting(l, u)'
        PROVE  Wanting(l, u) \/ \E g \in InFlight(chan', l) : IsCall(g, u)
    <3>1. CASE u = t /\ l[1] = s
      BY <2>1, <2>3, <3>1
    <3>2. CASE ~ (u = t /\ l[1] = s)
      BY <1>2, <2>2, <2>4, <3>2 DEF Wanting
    <3>. QED BY <3>1, <3>2
  <2>. QED BY <2>2, <2>3, <2>4, ToldStep DEF Settled
<1>4. ASSUME NEW s \in Sites, NEW t \in Topics, Unsubscribe(s, t)
      PROVE  Told'
  <2>. DEFINE f == Announce("unsub", t, s)
  <2>1. f \in Frames
    BY FramesMade DEF Announce
  <2>2. /\ Sent(s, Nbrs(s), f, chan) /\ routes' = routes
        /\ gone' = [gone EXCEPT ![t] = @ \union {s}]
        /\ wants' = [wants EXCEPT ![s] = @ \ {t}]
    BY <1>4 DEF Unsubscribe
  <2>. HIDE DEF f
  <2>3. \A l \in Links : InFlight(chan, l) \subseteq InFlight(chan', l)
    BY <1>1, <1>2, <2>1, <2>2, SentKeeps
  <2>4. \A u \in Topics, l \in Links : Wanting(l, u)' => Wanting(l, u)
    BY <1>2, <2>2 DEF Wanting
  <2>5. \A u \in Topics : Settled(u)' => Settled(u)
    BY <1>2, <2>2 DEF Settled
  <2>. QED BY <2>2, <2>3, <2>4, <2>5, ToldStep
<1>5. ASSUME NEW s \in Sites, NEW t \in Topics, NEW d \in Dests, Publish(s, t, d)
      PROVE  Told'
  <2>. DEFINE f == Data(t, d, published + 1)
  <2>1. published + 1 \in DataIds
    BY <1>1, <1>5, BoundsAssumption DEF Publish, DataIds, TypeInv, TypeOK
  <2>2. f \in Frames
    BY <2>1, FramesMade
  <2>3. /\ routes' = routes /\ gone' = gone /\ wants' = wants /\ Sent(s, Nbrs(s), f, chan)
    BY <1>5 DEF Publish, calls
  <2>. HIDE DEF f
  <2>4. \A l \in Links : InFlight(chan, l) \subseteq InFlight(chan', l)
    BY <1>1, <1>2, <2>2, <2>3, SentKeeps
  <2>. QED BY <2>3, <2>4, ToldStep DEF Settled, Wanting
\* Receiving takes f away and sends it on; no demand is new but f's.
<1>6. ASSUME NEW r \in Sites, NEW i \in Sites, NEW f \in Frames, f = Incoming(r, i),
             Arrived(r, i, f.kind), NEW targets, targets \subseteq Nbrs(r),
             chan' = Received(r, i) \/ Sent(r, targets, f, Received(r, i))
      PROVE  \A l \in Links : \A g \in InFlight(chan, l) :
                g \in InFlight(chan', l) \/ (l = <<i, r>> /\ g = f)
  <2>1. Received(r, i) \in [Links -> Seq(Frames)]
    BY <1>2, <1>6, ReceivedFrames
  <2>2. ASSUME NEW l \in Links, NEW g \in InFlight(chan, l)
        PROVE  g \in InFlight(Received(r, i), l) \/ (l = <<i, r>> /\ g = f)
    BY <1>2, <1>6, ReceivedKeeps
  <2>3. \A l \in Links : InFlight(Received(r, i), l) \subseteq InFlight(chan', l)
    <3>1. CASE chan' = Received(r, i)
      BY <3>1 DEF InFlight
    <3>2. CASE Sent(r, targets, f, Received(r, i))
      BY <1>1, <1>6, <2>1, <3>2, SentKeeps
    <3>. QED BY <1>6, <3>1, <3>2
  <2>. QED BY <2>2, <2>3
<1>7. ASSUME NEW r \in Sites, NEW i \in Sites, PollSubscribe(r, i)
      PROVE  Told'
  <2>. PICK f : f = Incoming(r, i)
    OBVIOUS
  <2>. PICK route : route = Route(f.topic, i, f.remote)
    OBVIOUS
  <2>. DEFINE table == AddRoute(routes[r], route)
              targets == ReemitTo(table, r, i, f.topic)
  <2>1. /\ Arrived(r, i, "sub") /\ UNCHANGED calls
        /\ routes' = [routes EXCEPT ![r] = table]
        /\ IF Inserts(routes[r], route) THEN Sent(r, targets, f, Received(r, i))
           ELSE chan' = Received(r, i)
    BY <1>7 DEF PollSubscribe
  <2>2. /\ f \in Frames /\ f.kind = "sub" /\ f \in InFlight(chan, <<i, r>>)
        /\ <<i, r>> \in Links /\ <<r, i>> \in Links
        /\ Received(r, i) \in [Links -> Seq(Frames)]
    BY <1>2, <2>1, ReceivedFrames, LinksAssumption DEF Arrived
  <2>3. Heralds(<<i, r>>, f)
    BY <2>2 DEF DirInv, Directed
  <2>4. route \notin routes[r] => Inserts(routes[r], route)
    BY <2>2, <2>3, RoomLeft
  <2>5. table = routes[r] \union {route}
    BY <2>4 DEF AddRoute
  <2>6. route.topic = f.topic /\ route.iface = i
    BY DEF Route
  <2>. HIDE DEF targets
  <2>7. \A l \in Links : \A g \in InFlight(chan, l) :
           g \in InFlight(chan', l) \/ (l = <<i, r>> /\ g = f)
    <3>1. chan' = Received(r, i) \/ Sent(r, targets, f, Received(r, i))
      BY <2>1
    <3>2. targets \subseteq Nbrs(r)
      BY DEF targets, ReemitTo
    <3>3. Arrived(r, i, f.kind) /\ f \in Frames
      BY <2>1, <2>2
    <3>. HIDE DEF table
    <3>. QED BY <1>6, <3>1, <3>2, <3>3
  <2>8. HasAnyRoute(routes'[r], f.topic, i)
    BY <1>2, <2>1, <2>5, <2>6 DEF HasAnyRoute
  <2>9. ASSUME NEW t \in Topics, NEW l \in Links, Wanting(l, t)'
        PROVE  \/ Wanting(l, t)
               \/ HasAnyRoute(routes'[l[1]], t, l[2])
               \/ \E g \in InFlight(chan', l) : IsCall(g, t)
    <3>1. CASE /\ l[1] = r /\ t = f.topic /\ l[2] # i /\ route \notin routes[r]
               /\ ~ HasAnyRoute(routes'[r], t, l[2])
      <4>1. Sent(r, targets, f, Received(r, i))
        BY <2>1, <2>4, <3>1
      <4>2. l[2] \in targets
        BY <1>2, <2>1, <3>1 DEF targets, ReemitTo
      <4>3. f \in InFlight(chan', l)
        BY <1>1, <2>2, <3>1, <4>1, <4>2, SentKeeps
      <4>. QED BY <2>2, <3>1, <4>3 DEF IsCall
    <3>2. CASE ~ (l[1] = r /\ t = f.topic /\ l[2] # i /\ route \notin routes[r])
      BY <1>2, <2>1, <2>5, <2>6, <2>9, <3>2 DEF Wanting, calls
    <3>. QED BY <3>1, <3>2
  <2>10. ASSUME NEW t \in Topics, NEW l \in Links, NEW g \in InFlight(chan, l), IsCall(g, t)
         PROVE  g \in InFlight(chan', l) \/ HasAnyRoute(routes'[l[2]], t, l[1])
    BY <2>7, <2>8, <2>10 DEF IsCall
  <2>11. \A q \in Sites : routes[q] \subseteq routes'[q]
    BY <1>2, <2>1, <2>5
  <2>. HIDE DEF table
  <2>. QED BY <2>1, <2>9, <2>10, <2>11, ToldStep DEF Settled, calls
<1>8. ASSUME NEW r \in Sites, NEW i \in Sites, PollUnsubscribe(r, i)
      PROVE  Told'
  <2>. PICK f : f = Incoming(r, i)
    OBVIOUS
  <2>1. /\ Arrived(r, i, "unsub") /\ UNCHANGED calls
        /\ routes' = [routes EXCEPT ![r] = RemoveRoute(@, Route(f.topic, i, f.remote))]
        /\ chan' = Received(r, i) \/ Sent(r, Nbrs(r) \ {i}, f, Received(r, i))
    BY <1>8 DEF PollUnsubscribe
  <2>2. f \in Frames /\ f.kind = "unsub" /\ f \in InFlight(chan, <<i, r>>) /\ <<i, r>> \in Links
    BY <1>2, <2>1, ReceivedFrames DEF Arrived
  <2>3. ~ Settled(f.topic)
    BY <2>2 DEF HoleInv, NoWithdrawals
  <2>4. \A t \in Topics, q \in Sites : \A e \in routes[q] :
           Settled(t) /\ e.topic = t => e \in routes'[q]
    BY <1>2, <2>1, <2>3 DEF RemoveRoute, Route
  <2>5. \A q \in Sites : routes'[q] \subseteq routes[q]
    BY <1>2, <2>1 DEF RemoveRoute
  <2>6. \A l \in Links : \A g \in InFlight(chan, l) : g \in InFlight(chan', l) \/ g = f
    <3>1. Nbrs(r) \ {i} \subseteq Nbrs(r)
      OBVIOUS
    <3>. QED BY <1>6, <2>1, <2>2, <3>1
  <2>7. \A t \in Topics, l \in Links : \A g \in InFlight(chan, l) :
           IsCall(g, t) => g \in InFlight(chan', l)
    BY <2>2, <2>6 DEF IsCall
  <2>8. \A t \in Topics, l \in Links : Wanting(l, t)' => Wanting(l, t)
    BY <1>2, <2>1, <2>5 DEF Wanting, calls
  <2>. QED BY <2>1, <2>4, <2>7, <2>8, ToldStep DEF Settled, calls
<1>9. ASSUME NEW r \in Sites, NEW i \in Sites, PollData(r, i)
      PROVE  Told'
  <2>. PICK f : f = Incoming(r, i)
    OBVIOUS
  <2>1. /\ Arrived(r, i, "data") /\ UNCHANGED calls /\ routes' = routes
        /\ Sent(r, ForwardTo(routes[r], r, i, f.topic), f, Received(r, i))
    BY <1>9 DEF PollData
  <2>2. f \in Frames /\ f.kind = "data"
    BY <1>2, <2>1, ReceivedFrames
  <2>3. \A l \in Links : \A g \in InFlight(chan, l) : g \in InFlight(chan', l) \/ g = f
    <3>1. ForwardTo(routes[r], r, i, f.topic) \subseteq Nbrs(r)
      BY DEF ForwardTo
    <3>. QED BY <1>6, <2>1, <2>2, <3>1
  <2>4. \A t \in Topics, l \in Links : \A g \in InFlight(chan, l) :
           IsCall(g, t) => g \in InFlight(chan', l)
    BY <2>2, <2>3 DEF IsCall
  <2>. QED BY <2>1, <2>4, ToldStep DEF Settled, Wanting, calls
<1>10. CASE UNCHANGED vars
  BY <1>10 DEF vars, Told, Settled, Wanting, HasAnyRoute, InFlight, IsCall
<1>. QED BY <1>3, <1>4, <1>5, <1>7, <1>8, <1>9, <1>10 DEF Next, Poll

\* An entry is good for something.
LEMMA EntryReaches ==
    ASSUME HoleInv, DirInv, LossFreeTree, NEW t \in Topics, Settled(t),
           NEW r \in Sites, NEW e \in routes[r], e.topic = t
    PROVE  /\ e.remote \in Sites /\ t \in wants[e.remote] /\ e.iface \in Sites
           /\ Reaches(routes, r, t, e.remote)
           /\ t \in wants[e.iface] \/ HasTopic(routes[e.iface], t)
<1>1. routes \in [Sites -> SUBSET Routes] /\ Forest /\ IsFiniteSet(Sites)
      /\ came \in [Topics -> SUBSET Sites]
  BY DEF DirInv, TypeInv, TypeOK, Routes, LossFreeTree
<1>. DEFINE x == e.remote
<1>2. e \in Routes /\ x \in Sites /\ e.iface \in Sites
  BY <1>1 DEF Routes
<1>3. ASSUME NEW q \in Sites, NEW d \in routes[q], d.topic = t
      PROVE  /\ <<q, d.iface>> \in Links /\ d.remote \in Beyond(<<q, d.iface>>)
             /\ Knows(d.iface, t, d.remote) /\ t \in wants[d.remote]
  <2>1. Tracks(q, d)
    BY DEF DirInv, Directed
  <2>2. Knows(d.iface, t, d.remote)
    BY <1>3 DEF HoleInv, NoBlackHole, Settled
  <2>3. t \in wants[d.remote]
    BY <1>3, <2>1 DEF Tracks, DirInv, Asked, Settled
  <2>. QED BY <1>1, <2>1, <2>2, <2>3 DEF Tracks
<1>4. Reaches(routes, r, t, x)
  BY <1>1, <1>2, <1>3, FollowedToTheEnd
<1>5. t \in wants[e.iface] \/ HasTopic(routes[e.iface], t)
  BY <1>2, <1>3 DEF Knows, HasTopic, Route
<1>. QED BY <1>2, <1>3, <1>4, <1>5

LEMMA SomebodyReached == ToldInv => SomeSubscriberReached
<1>. SUFFICES ASSUME HoleInv, DirInv, LossFreeTree, Told, Quiet,
                     NEW t \in Topics, NEW p \in Sites, Settled(t), t \notin wants[p],
                     NEW y \in Sites, t \in wants[y]
              PROVE  \E x \in Sites : t \in wants[x] /\ Reaches(routes, p, t, x)
  BY DEF ToldInv, SomeSubscriberReached, Settled
<1>. DEFINE S == { r \in Sites : t \in wants[r] \/ HasTopic(routes[r], t) }
<1>1. ASSUME NEW l \in Links, l[1] \in S PROVE l[2] \in S
  <2>1. l[1] \in Sites /\ l[2] \in Sites
    BY LinksAssumption
  <2>2. ASSUME NEW e \in routes[l[1]], e.topic = t, e.iface = l[2] PROVE l[2] \in S
    BY <2>1, <2>2, EntryReaches
  <2>3. CASE Wanting(l, t)
    <3>1. \A f \in InFlight(chan, l) : ~ IsCall(f, t)
      BY DEF Quiet, InFlight, IsCall
    <3>2. HasAnyRoute(routes[l[2]], t, l[1]) \/ HasAnyRoute(routes[l[1]], t, l[2])
      BY <2>3, <3>1 DEF Told
    <3>. QED BY <2>1, <2>2, <3>2 DEF HasAnyRoute, HasTopic
  <2>4. CASE ~ Wanting(l, t)
    BY <1>1, <2>2, <2>4 DEF Wanting, HasTopic
  <2>. QED BY <2>3, <2>4
<1>2. y \in S /\ S \in SUBSET Sites
  OBVIOUS
<1>3. S = Sites
  <2>. HIDE DEF S
  <2>. QED BY <1>1, <1>2 DEF LossFreeTree
<1>4. PICK e \in routes[p] : e.topic = t
  BY <1>3 DEF HasTopic
<1>. QED BY <1>4, EntryReaches

(* In a loss-free tree with room in the tables, of any size and shape, a   *)
(* frame published where nobody subscribes reaches some subscriber, once   *)
(* announcements have settled, although handle_subscribe keeps demand to   *)
(* itself wherever it knows of some the other way.                         *)
THEOREM MeshSomeSubscriberReached == Spec => []SomeSubscriberReached
<1>1. ToldInv /\ [Next]_vars => ToldInv'
  <2>. SUFFICES ASSUME ToldInv, [Next]_vars PROVE ToldInv'
    OBVIOUS
  <2>1. HoleInv' /\ DirInv'
    BY NextHoleInv, NextDir DEF ToldInv
  <2>2. LossFreeTree => Told'
    BY <2>1, NextTold DEF ToldInv
  <2>3. LossFreeTree' <=> LossFreeTree
    BY DEF LossFreeTree, Forest, Beyond, Demands
  <2>. QED BY <2>1, <2>2, <2>3 DEF ToldInv
<1>. QED BY <1>1, InitTold, SomebodyReached, PTL DEF Spec

-------------------------------------------------------------------------------
(* One subscriber.  Its announcements travel away from it and keep their   *)
(* order, so that on each link they go on from what the router at the far  *)
(* end has heard to what the one at the near end has.                      *)

IsNews(f, t) == f.kind # "data" /\ f.topic = t

Turn(f, t, old, new) == IF IsNews(f, t) THEN new = f.kind /\ old # new ELSE new = old

Stands == {"sub", "unsub"}

\* The announcements in q about t alternate, and lead from `before' to `after'.
InTurn(q, t, before, after) ==
    \E v \in [0..Len(q) -> Stands] :
        /\ v[0] = before /\ v[Len(q)] = after
        /\ \A k \in 1..Len(q) : Turn(q[k], t, v[k - 1], v[k])

LEMMA TurnAppended ==
    ASSUME NEW q \in Seq(Frames), NEW f \in Frames, NEW t, NEW a, NEW b,
           InTurn(q, t, b, a), NEW new \in Stands, Turn(f, t, a, new)
    PROVE  InTurn(Append(q, f), t, b, new)
<1>1. PICK v \in [0..Len(q) -> Stands] :
         /\ v[0] = b /\ v[Len(q)] = a
         /\ \A k \in 1..Len(q) : Turn(q[k], t, v[k - 1], v[k])
  BY DEF InTurn
<1>. DEFINE n == Len(q)
            long == Append(q, f)
            w == [k \in 0..(n + 1) |-> IF k = n + 1 THEN new ELSE v[k]]
<1>2. n \in Nat /\ Len(long) = n + 1 /\ long[n + 1] = f /\ \A k \in 1..n : long[k] = q[k]
  OBVIOUS
<1>. HIDE DEF n, long
<1>3. w \in [0..(n + 1) -> Stands] /\ w[0] = b /\ w[n + 1] = new /\ w[n] = a
  BY <1>1, <1>2 DEF n
<1>4. ASSUME NEW k \in 1..(n + 1) PROVE Turn(long[k], t, w[k - 1], w[k])
  <2>1. CASE k = n + 1
    <3>1. k - 1 = n /\ w[k] = new /\ w[k - 1] = a
      BY <1>2, <1>3, <2>1
    <3>. QED BY <1>2, <2>1, <3>1
  <2>2. CASE k # n + 1
    <3>1. k \in 1..n /\ w[k] = v[k] /\ w[k - 1] = v[k - 1]
      BY <1>2, <2>2
    <3>. QED BY <1>1, <1>2, <3>1 DEF n
  <2>. QED BY <2>1, <2>2
<1>. HIDE DEF w
<1>. QED BY <1>2, <1>3, <1>4 DEF InTurn, long

LEMMA TurnTaken ==
    ASSUME NEW q \in Seq(Frames), q # << >>, NEW t, NEW a, NEW b, InTurn(q, t, b, a)
    PROVE  \E c \in Stands : Turn(Head(q), t, b, c) /\ InTurn(Tail(q), t, c, a)
<1>1. PICK v \in [0..Len(q) -> Stands] :
         /\ v[0] = b /\ v[Len(q)] = a
         /\ \A k \in 1..Len(q) : Turn(q[k], t, v[k - 1], v[k])
  BY DEF InTurn
<1>. DEFINE n == Len(q)
            short == Tail(q)
            w == [k \in 0..(n - 1) |-> v[k + 1]]
<1>2. /\ n \in Nat /\ n >= 1 /\ Len(short) = n - 1 /\ Head(q) = q[1]
      /\ \A k \in 1..(n - 1) : short[k] = q[k + 1]
  OBVIOUS
<1>. HIDE DEF n, short
<1>3. w \in [0..(n - 1) -> Stands] /\ w[0] = v[1] /\ w[n - 1] = a
  BY <1>1, <1>2 DEF n
<1>4. ASSUME NEW k \in 1..(n - 1) PROVE Turn(short[k], t, w[k - 1], w[k])
  <2>1. k + 1 \in 1..n /\ w[k] = v[k + 1] /\ w[k - 1] = v[k] /\ (k + 1) - 1 = k
    BY <1>2
  <2>2. Turn(q[k + 1], t, v[(k + 1) - 1], v[k + 1])
    BY <1>1, <2>1 DEF n
  <2>. QED BY <1>2, <2>1, <2>2
<1>5. Turn(Head(q), t, b, v[1]) /\ v[1] \in Stands
  <2>1. 1 \in 1..Len(q) /\ 1 - 1 = 0
    BY <1>2 DEF n
  <2>. QED BY <1>1, <1>2, <2>1
<1>. HIDE DEF w
<1>6. InTurn(short, t, v[1], a)
  BY <1>2, <1>3, <1>4 DEF InTurn
<1>. QED BY <1>5, <1>6 DEF short

LEMMA NoTurn ==
    ASSUME NEW q \in Seq(Frames), NEW t, NEW a, NEW b, InTurn(q, t, b, a),
           \A k \in DOMAIN q : ~ IsNews(q[k], t)
    PROVE  a = b
<1>1. PICK v \in [0..Len(q) -> Stands] :
         /\ v[0] = b /\ v[Len(q)] = a
         /\ \A k \in 1..Len(q) : Turn(q[k], t, v[k - 1], v[k])
  BY DEF InTurn
<1>2. \A k \in 1..Len(q) : v[k] = v[k - 1]
  BY <1>1 DEF Turn
<1>. DEFINE D == { k \in 0..Len(q) : v[k] # b }
<1>3. ASSUME D # {} PROVE FALSE
  <2>1. PICK k \in D : \A j \in D : k <= j
    <3>1. D \in SUBSET Nat
      OBVIOUS
    <3>. HIDE DEF D
    <3>. QED BY <1>3, <3>1, LeastNumber
  <2>2. k \in 1..Len(q) /\ k - 1 \in 0..Len(q)
    BY <1>1
  <2>3. k - 1 \in D
    BY <1>2, <2>2
  <2>. HIDE DEF D
  <2>. QED BY <2>1, <2>2, <2>3
<1>. QED BY <1>1, <1>3

\* What r has heard of t, where x is the only one to ask for it.
Stand(r, t, x) ==
    IF (IF r = x THEN t \in wants[x] ELSE HasTopic(routes[r], t)) THEN "sub" ELSE "unsub"

AloneInTurn ==
    \A t \in Topics, x \in Sites : came[t] \subseteq {x} =>
        \A l \in Links : x \in Beyond(Back(l)) =>
            InTurn(chan[l], t, Stand(l[2], t, x), Stand(l[1], t, x))

LEMMA AnnouncedInTurn ==
    ASSUME DirInv, LossFreeTree, AloneInTurn, NEW s \in Sites, NEW u \in Topics,
           NEW kind \in Stands, Sent(s, Nbrs(s), Announce(kind, u, s), chan),
           routes' = routes, s \in came'[u], \A t \in Topics : came[t] \subseteq came'[t],
           \A r \in Sites, t \in Topics :
              r # s \/ t # u => (t \in wants'[r] <=> t \in wants[r]),
           u \in wants'[s] <=> kind = "sub", u \in wants[s] <=> kind # "sub"
    PROVE  AloneInTurn'
<1>. SUFFICES ASSUME NEW t \in Topics, NEW x \in Sites, came'[t] \subseteq {x},
                     NEW l \in Links, x \in Beyond(Back(l))
              PROVE  InTurn(chan'[l], t, Stand(l[2], t, x)', Stand(l[1], t, x)')
  BY DEF AloneInTurn, Beyond, Back, InTurn
<1>. PICK f : f = Announce(kind, u, s)
  OBVIOUS
<1>1. /\ f \in Frames /\ f.kind = kind /\ f.topic = u /\ kind # "data"
      /\ chan[l] \in Seq(Frames) /\ l[1] \in Sites /\ l[2] \in Sites
  BY FramesMade, LinksAssumption DEF Announce, DirInv, TypeInv, TypeOK, Stands
<1>2. InTurn(chan[l], t, Stand(l[2], t, x), Stand(l[1], t, x))
  BY DEF AloneInTurn
<1>3. /\ l[1] = s => chan'[l] = Append(chan[l], f)
      /\ l[1] # s => chan'[l] = chan[l]
  <2>1. l[2] \in Nbrs(l[1])
    BY <1>1, LinkPair DEF Nbrs
  <2>2. ~ Lossy /\ chan \in [Links -> Seq(Frames)] /\ Sent(s, Nbrs(s), f, chan)
    BY DEF LossFreeTree, DirInv, TypeInv, TypeOK
  <2>. QED BY <2>1, <2>2 DEF Sent
<1>4. l[2] # x
  BY LinkPair DEF LossFreeTree, Forest, Back
<1>5. \A q \in Sites : Stand(q, t, x) \in Stands /\ Stand(q, t, x)' \in Stands
  BY DEF Stand, Stands
<1>6. CASE t = u
  <2>1. x = s
    BY <1>6
  <2>2. Stand(l[2], t, x)' = Stand(l[2], t, x)
    BY <1>4 DEF Stand
  <2>3. CASE l[1] = s
    <3>1. Stand(l[1], t, x)' = kind /\ Stand(l[1], t, x) # kind
      BY <1>6, <2>1, <2>3 DEF Stand, Stands
    <3>2. Turn(f, t, Stand(l[1], t, x), Stand(l[1], t, x)')
      BY <1>1, <1>6, <3>1 DEF Turn, IsNews
    <3>3. PICK new \in Stands : new = Stand(l[1], t, x)'
      BY <1>1, <1>5
    <3>4. InTurn(Append(chan[l], f), t, Stand(l[2], t, x), new)
      BY <1>1, <1>2, <3>2, <3>3, TurnAppended
    <3>. QED BY <1>3, <2>2, <2>3, <3>3, <3>4
  <2>4. CASE l[1] # s
    <3>1. Stand(l[1], t, x)' = Stand(l[1], t, x)
      BY <2>1, <2>4 DEF Stand
    <3>. QED BY <1>2, <1>3, <2>2, <2>4, <3>1
  <2>. QED BY <2>3, <2>4
<1>7. CASE t # u
  <2>1. \A q \in Sites : Stand(q, t, x)' = Stand(q, t, x)
    BY <1>7 DEF Stand
  <2>2. Turn(f, t, Stand(l[1], t, x), Stand(l[1], t, x))
    BY <1>1, <1>7 DEF Turn, IsNews
  <2>3. CASE l[1] = s
    <3>1. InTurn(Append(chan[l], f), t, Stand(l[2], t, x), Stand(l[1], t, x))
      BY <1>1, <1>2, <1>5, <2>2, TurnAppended
    <3>. QED BY <1>1, <1>3, <2>1, <2>3, <3>1
  <2>4. CASE l[1] # s
    BY <1>1, <1>2, <1>3, <2>1, <2>4
  <2>. QED BY <2>3, <2>4
<1>. QED BY <1>6, <1>7

\* One poll: f leaves its queue, and goes on to `targets'.
Moved(r, i, f, targets) ==
    \A l \in Links :
       IF l = <<i, r>> THEN chan'[l] = Tail(chan[l])
       ELSE IF l[1] = r /\ l[2] \in targets THEN chan'[l] = Append(chan[l], f)
       ELSE chan'[l] = chan[l]

LEMMA PolledInTurn ==
    ASSUME DirInv, LossFreeTree, AloneInTurn, NEW r \in Sites, NEW i \in Sites,
           NEW f \in Frames, <<i, r>> \in Links, chan[<<i, r>>] # << >>,
           f = Head(chan[<<i, r>>]), NEW targets, Moved(r, i, f, targets),
           came' = came, wants' = wants, \A q \in Sites : q # r => routes'[q] = routes[q],
           \A t \in Topics : ~ IsNews(f, t) =>
              (HasTopic(routes'[r], t) <=> HasTopic(routes[r], t)),
           f.kind # "data" /\ came[f.topic] \subseteq {f.remote}
             /\ (HasTopic(routes[r], f.topic) <=> f.kind # "sub") =>
                  /\ HasTopic(routes'[r], f.topic) <=> f.kind = "sub"
                  /\ targets = Nbrs(r) \ {i}
    PROVE  AloneInTurn'
<1>. SUFFICES ASSUME NEW t \in Topics, NEW x \in Sites, came[t] \subseteq {x},
                     NEW l \in Links, x \in Beyond(Back(l))
              PROVE  InTurn(chan'[l], t, Stand(l[2], t, x)', Stand(l[1], t, x)')
  BY DEF AloneInTurn, Beyond, Back, InTurn
<1>. PICK a : a = Stand(l[1], t, x)
  OBVIOUS
<1>. PICK b : b = Stand(l[2], t, x)
  OBVIOUS
<1>1. /\ chan[l] \in Seq(Frames) /\ l[1] \in Sites /\ l[2] \in Sites /\ i # r /\ Forest
      /\ l = <<l[1], l[2]>> /\ l[2] \in Nbrs(l[1]) /\ l[1] # l[2]
  <2>1. l[1] \in Sites /\ l[2] \in Sites /\ l = <<l[1], l[2]>> /\ l[1] # l[2]
    BY LinkPair, LinksAssumption
  <2>2. i # r
    BY LinksAssumption
  <2>3. chan[l] \in Seq(Frames) /\ Forest
    BY DEF DirInv, TypeInv, TypeOK, LossFreeTree
  <2>. QED BY <2>1, <2>2, <2>3 DEF Nbrs
<1>2. InTurn(chan[l], t, b, a)
  BY DEF AloneInTurn
<1>3. a \in Stands /\ b \in Stands
  BY DEF Stand, Stands
<1>4. CASE ~ IsNews(f, t)
  <2>1. \A q \in Sites : Stand(q, t, x)' = Stand(q, t, x)
    BY <1>4 DEF Stand
  <2>2. \A c, d : Turn(f, t, c, d) <=> d = c
    BY <1>4 DEF Turn
  <2>3. CASE l = <<i, r>>
    <3>1. chan'[l] = Tail(chan[l]) /\ f = Head(chan[l]) /\ chan[l] # << >>
      BY <2>3 DEF Moved
    <3>2. PICK c \in Stands : Turn(Head(chan[l]), t, b, c) /\ InTurn(Tail(chan[l]), t, c, a)
      BY <1>1, <1>2, <3>1, TurnTaken
    <3>3. c = b
      BY <2>2, <3>1, <3>2
    <3>. QED BY <1>1, <2>1, <3>1, <3>2, <3>3
  <2>4. CASE l # <<i, r>> /\ chan'[l] = Append(chan[l], f)
    <3>1. InTurn(Append(chan[l], f), t, b, a)
      BY <1>1, <1>2, <1>3, <2>2, TurnAppended
    <3>. QED BY <1>1, <2>1, <2>4, <3>1
  <2>5. CASE l # <<i, r>> /\ chan'[l] = chan[l]
    BY <1>1, <1>2, <2>1, <2>5
  <2>. QED BY <2>3, <2>4, <2>5 DEF Moved
<1>5. CASE IsNews(f, t)
  <2>. DEFINE from == <<i, r>>
              away == <<r, i>>
  <2>1. /\ f \in InFlight(chan, from) /\ f.kind \in Stands /\ f.topic = t /\ f.kind # "data"
        /\ chan[from] \in Seq(Frames)
    <3>1. chan[from] \in Seq(Frames) /\ chan[from] # << >> /\ f = Head(chan[from])
      BY DEF DirInv, TypeInv, TypeOK
    <3>2. 1 \in DOMAIN chan[from] /\ f = chan[from][1]
      BY <3>1
    <3>. QED BY <1>5, <3>1, <3>2
         DEF InFlight, IsNews, Stands, Frames, Announcements, DataFrames
  <2>2. x = f.remote /\ x \in Beyond(away) /\ Back(from) = away
    <3>1. Back(from) = away
      BY DEF Back
    <3>2. Heralds(from, f)
      BY <2>1 DEF DirInv, Directed
    <3>. QED BY <1>1, <2>1, <3>1, <3>2 DEF Heralds
  <2>3. /\ from \in Links /\ away \in Links /\ away[1] = r /\ away[2] = i
        /\ from[1] = i /\ from[2] = r /\ Back(away) = from
    BY LinksAssumption DEF Back
  <2>. HIDE DEF from, away
  <2>4. x # r /\ x \notin Beyond(from)
    BY <1>1, <2>2, <2>3, OppositeSides DEF Forest
  <2>5. InTurn(chan[from], t, Stand(r, t, x), Stand(i, t, x))
    BY <2>2, <2>3 DEF AloneInTurn
  <2>6. PICK c \in Stands : /\ Turn(f, t, Stand(r, t, x), c)
                            /\ InTurn(Tail(chan[from]), t, c, Stand(i, t, x))
    <3>1. chan[from] # << >> /\ f = Head(chan[from])
      BY DEF from
    <3>. QED BY <2>1, <2>5, <3>1, TurnTaken
  <2>7. c = f.kind /\ Stand(r, t, x) # f.kind
    BY <1>5, <2>6 DEF Turn
  <2>8. HasTopic(routes[r], t) <=> f.kind # "sub"
    BY <2>1, <2>4, <2>7 DEF Stand, Stands
  <2>9. /\ HasTopic(routes'[r], t) <=> f.kind = "sub"
        /\ targets = Nbrs(r) \ {i}
    BY <2>1, <2>2, <2>8
  <2>10. Stand(r, t, x)' = f.kind /\ \A q \in Sites : q # r => Stand(q, t, x)' = Stand(q, t, x)
    BY <2>1, <2>4, <2>9 DEF Stand, Stands
  <2>11. CASE l = from
    <3>1. l[1] = i /\ l[2] = r /\ chan'[l] = Tail(chan[from])
      BY <2>3, <2>11 DEF Moved, from
    <3>. QED BY <1>1, <2>6, <2>7, <2>10, <3>1
  <2>12. CASE l # from /\ l[1] = r
    <3>1. l[2] # i
      BY <1>1, <2>3, <2>4, <2>12 DEF away
    <3>2. chan'[l] = Append(chan[l], f)
      BY <1>1, <2>9, <2>12, <3>1 DEF Moved, from
    <3>3. Turn(f, t, a, f.kind)
      BY <1>5, <2>7, <2>12 DEF Turn
    <3>4. InTurn(Append(chan[l], f), t, b, f.kind)
      BY <1>1, <1>2, <2>1, <3>3, TurnAppended
    <3>5. Stand(l[1], t, x)' = f.kind /\ Stand(l[2], t, x)' = b
      BY <1>1, <2>10, <2>12
    <3>. QED BY <3>2, <3>4, <3>5
  <2>13. CASE l # from /\ l[1] # r
    <3>1. l[2] # r
      <4>. SUFFICES ASSUME l[2] = r PROVE FALSE
        OBVIOUS
      <4>1. Back(l) \in Links /\ Back(l)[1] = r /\ Back(l)[2] = l[1]
        BY <1>1, LinkPair DEF Back
      <4>2. Back(l) = away
        BY <1>1, <2>2, <2>3, <4>1, BeyondApart
      <4>. QED BY <1>1, <2>13, <4>2 DEF Back, away, from
    <3>2. chan'[l] = chan[l]
      BY <2>13 DEF Moved, from
    <3>. QED BY <1>1, <1>2, <2>10, <2>13, <3>1, <3>2
  <2>. QED BY <2>11, <2>12, <2>13
<1>. QED BY <1>4, <1>5

AloneInv == DirInv /\ (LossFreeTree => AloneInTurn)

LEMMA InitAlone == Init => AloneInv
<1>. SUFFICES ASSUME Init, NEW t \in Topics, NEW x \in Sites, NEW l \in Links
              PROVE  InTurn(chan[l], t, Stand(l[2], t, x), Stand(l[1], t, x))
  BY InitDir DEF AloneInv, AloneInTurn
<1>1. l[1] \in Sites /\ l[2] \in Sites
  BY LinksAssumption
<1>2. Stand(l[1], t, x) = "unsub" /\ Stand(l[2], t, x) = "unsub" /\ chan[l] = << >>
  BY <1>1 DEF Init, Stand, HasTopic
<1>. DEFINE v == [k \in 0..0 |-> "unsub"]
<1>3. /\ v \in [0..0 -> Stands] /\ v[0] = "unsub"
      /\ Len(chan[l]) = 0 /\ 1..0 = {}
  BY <1>2 DEF Stands
<1>. HIDE DEF v
<1>. QED BY <1>2, <1>3 DEF InTurn

LEMMA NextInTurn ==
    ASSUME DirInv, DirInv', LossFreeTree, AloneInTurn, [Next]_vars
    PROVE  AloneInTurn'
<1>1. /\ TypeInv /\ TypeInv' /\ ~ Lossy /\ Forest
      /\ chan \in [Links -> Seq(Frames)] /\ routes \in [Sites -> SUBSET Routes]
      /\ wants \in [Sites -> SUBSET Topics] /\ came \in [Topics -> SUBSET Sites]
  BY DEF DirInv, LossFreeTree, TypeInv, TypeOK, Routes
<1>2. ASSUME NEW s \in Sites, NEW t \in Topics, Subscribe(s, t)
      PROVE  AloneInTurn'
  <2>1. /\ Sent(s, Nbrs(s), Announce("sub", t, s), chan) /\ routes' = routes
        /\ wants' = [wants EXCEPT ![s] = @ \union {t}] /\ t \notin wants[s]
        /\ came' = [came EXCEPT ![t] = @ \union {s}]
    BY <1>2 DEF Subscribe
  <2>2. \A r \in Sites, u \in Topics :
           r # s \/ u # t => (u \in wants'[r] <=> u \in wants[r])
    BY <1>1, <2>1
  <2>3. t \in wants'[s] /\ s \in came'[t] /\ \A u \in Topics : came[u] \subseteq came'[u]
    BY <1>1, <2>1
  <2>4. "sub" \in Stands
    BY DEF Stands
  <2>. QED BY <2>1, <2>2, <2>3, <2>4, AnnouncedInTurn
<1>3. ASSUME NEW s \in Sites, NEW t \in Topics, Unsubscribe(s, t)
      PROVE  AloneInTurn'
  <2>1. /\ Sent(s, Nbrs(s), Announce("unsub", t, s), chan) /\ routes' = routes
        /\ wants' = [wants EXCEPT ![s] = @ \ {t}] /\ t \in wants[s] /\ came' = came
    BY <1>3 DEF Unsubscribe
  <2>2. \A r \in Sites, u \in Topics :
           r # s \/ u # t => (u \in wants'[r] <=> u \in wants[r])
    BY <1>1, <2>1
  <2>3. t \notin wants'[s] /\ s \in came'[t]
    BY <1>1, <2>1 DEF DirInv, Asked
  <2>4. "unsub" \in Stands /\ "unsub" # "sub"
    BY DEF Stands
  <2>. QED BY <2>1, <2>2, <2>3, <2>4, AnnouncedInTurn
<1>4. ASSUME NEW s \in Sites, NEW t \in Topics, NEW d \in Dests, Publish(s, t, d)
      PROVE  AloneInTurn'
  <2>. DEFINE f == Data(t, d, published + 1)
  <2>1. published + 1 \in DataIds
    BY <1>1, <1>4, BoundsAssumption DEF Publish, DataIds, TypeInv, TypeOK
  <2>2. f \in Frames /\ \A u : ~ IsNews(f, u)
    BY <2>1, FramesMade DEF Data, IsNews
  <2>3. /\ routes' = routes /\ came' = came /\ wants' = wants /\ Sent(s, Nbrs(s), f, chan)
    BY <1>4 DEF Publish, calls
  <2>. HIDE DEF f
  <2>4. ASSUME NEW u \in Topics, NEW x \in Sites, came[u] \subseteq {x},
               NEW l \in Links, x \in Beyond(Back(l))
        PROVE  InTurn(chan'[l], u, Stand(l[2], u, x)', Stand(l[1], u, x)')
    <3>1. \A q : Stand(q, u, x)' = Stand(q, u, x)
      BY <2>3 DEF Stand
    <3>2. InTurn(chan[l], u, Stand(l[2], u, x), Stand(l[1], u, x))
      BY <2>4 DEF AloneInTurn
    <3>3. chan'[l] = chan[l] \/ chan'[l] = Append(chan[l], f)
      BY <1>1, <2>3 DEF Sent
    <3>4. chan[l] \in Seq(Frames) /\ Stand(l[1], u, x) \in Stands
      BY <1>1 DEF Stand, Stands
    <3>5. InTurn(Append(chan[l], f), u, Stand(l[2], u, x), Stand(l[1], u, x))
      <4>1. Turn(f, u, Stand(l[1], u, x), Stand(l[1], u, x))
        BY <2>2 DEF Turn
      <4>. QED BY <2>2, <3>2, <3>4, <4>1, TurnAppended
    <3>. QED BY <3>1, <3>2, <3>3, <3>5
  <2>. QED BY <2>3, <2>4 DEF AloneInTurn, Beyond, Back, InTurn
\* What a poll does to the queues.
<1>5. ASSUME NEW r \in Sites, NEW i \in Sites, NEW f \in Frames, f = Incoming(r, i),
             Arrived(r, i, f.kind), NEW targets, targets \subseteq Nbrs(r),
             \/ Sent(r, targets, f, Received(r, i))
             \/ targets = {} /\ chan' = Received(r, i)
      PROVE  /\ Moved(r, i, f, targets)
             /\ <<i, r>> \in Links /\ chan[<<i, r>>] # << >> /\ f = Head(chan[<<i, r>>])
             /\ f \in InFlight(chan, <<i, r>>)
  <2>1. <<i, r>> \in Links /\ i # r /\ chan[<<i, r>>] # << >> /\ f = Head(chan[<<i, r>>])
    BY <1>5, LinksAssumption DEF Arrived, Incoming
  <2>2. \A l \in Links : Received(r, i)[l] = IF l = <<i, r>> THEN Tail(chan[l]) ELSE chan[l]
    BY <1>1, <2>1 DEF Received
  <2>3. \A l \in Links : chan'[l] = IF l[1] = r /\ l[2] \in targets
                                    THEN Append(Received(r, i)[l], f) ELSE Received(r, i)[l]
    BY <1>1, <1>5 DEF Sent
  <2>4. ASSUME NEW l \in Links
        PROVE  IF l = <<i, r>> THEN chan'[l] = Tail(chan[l])
               ELSE IF l[1] = r /\ l[2] \in targets THEN chan'[l] = Append(chan[l], f)
               ELSE chan'[l] = chan[l]
    BY <2>1, <2>2, <2>3
  <2>5. f \in InFlight(chan, <<i, r>>)
    BY <1>1, <1>5, ReceivedFrames
  <2>. QED BY <2>1, <2>4, <2>5 DEF Moved
<1>6. ASSUME NEW r \in Sites, NEW i \in Sites, PollSubscribe(r, i)
      PROVE  AloneInTurn'
  <2>. PICK f : f = Incoming(r, i)
    OBVIOUS
  <2>. PICK route : route = Route(f.topic, i, f.remote)
    OBVIOUS
  <2>. PICK table : table = AddRoute(routes[r], route)
    OBVIOUS
  <2>. PICK targets : targets = IF Inserts(routes[r], route)
                                THEN ReemitTo(table, r, i, f.topic) ELSE {}
    OBVIOUS
  <2>1. /\ Arrived(r, i, "sub") /\ UNCHANGED calls
        /\ routes' = [routes EXCEPT ![r] = table]
        /\ IF Inserts(routes[r], route)
           THEN Sent(r, ReemitTo(table, r, i, f.topic), f, Received(r, i))
           ELSE chan' = Received(r, i)
    BY <1>6 DEF PollSubscribe
  <2>2. f \in Frames /\ f.kind = "sub" /\ f.topic \in Topics
    BY <1>1, <2>1, ReceivedFrames, FrameKinds
  <2>3. targets \subseteq Nbrs(r)
    BY DEF ReemitTo
  <2>4. \/ Sent(r, targets, f, Received(r, i))
        \/ targets = {} /\ chan' = Received(r, i)
    BY <2>1
  <2>5. Arrived(r, i, f.kind)
    BY <2>1, <2>2
  <2>6. /\ Moved(r, i, f, targets) /\ <<i, r>> \in Links
        /\ chan[<<i, r>>] # << >> /\ f = Head(chan[<<i, r>>]) /\ f \in InFlight(chan, <<i, r>>)
    BY <1>5, <2>2, <2>3, <2>4, <2>5
  <2>7. route.topic = f.topic /\ route.iface = i
    BY DEF Route
  <2>8. \A t \in Topics : ~ IsNews(f, t) =>
           (HasTopic(routes'[r], t) <=> HasTopic(routes[r], t))
    BY <1>1, <2>1, <2>2, <2>7 DEF IsNews, HasTopic, AddRoute
  <2>9. ASSUME ~ HasTopic(routes[r], f.topic)
        PROVE  HasTopic(routes'[r], f.topic) /\ targets = Nbrs(r) \ {i}
    <3>1. route \notin routes[r]
      BY <2>7, <2>9 DEF HasTopic
    <3>2. Heralds(<<i, r>>, f) /\ <<r, i>> \in Links
      BY <2>2, <2>6, LinksAssumption DEF DirInv, Directed
    <3>3. Inserts(routes[r], route)
      BY <2>2, <3>1, <3>2, RoomLeft
    <3>4. table = routes[r] \union {route}
      BY <3>3 DEF AddRoute
    <3>5. \A j : HasAnyRoute(table, f.topic, j) => j = i
      BY <2>7, <2>9, <3>4 DEF HasAnyRoute, HasTopic
    <3>6. targets = Nbrs(r) \ {i}
      BY <3>3, <3>5 DEF ReemitTo
    <3>. QED BY <1>1, <2>1, <2>7, <3>4, <3>6 DEF HasTopic
  <2>10. came' = came /\ wants' = wants /\ \A q \in Sites : q # r => routes'[q] = routes[q]
    BY <1>1, <2>1 DEF calls
  <2>. QED BY <2>2, <2>6, <2>8, <2>9, <2>10, PolledInTurn
<1>7. ASSUME NEW r \in Sites, NEW i \in Sites, PollUnsubscribe(r, i)
      PROVE  AloneInTurn'
  <2>. PICK f : f = Incoming(r, i)
    OBVIOUS
  <2>. PICK route : route = Route(f.topic, i, f.remote)
    OBVIOUS
  <2>. PICK left : left = RemoveRoute(routes[r], route)
    OBVIOUS
  <2>. PICK targets : targets = IF route \in routes[r] /\ ~HasTopic(left, f.topic)
                                THEN Nbrs(r) \ {i} ELSE {}
    OBVIOUS
  <2>1. /\ Arrived(r, i, "unsub") /\ UNCHANGED calls
        /\ routes' = [routes EXCEPT ![r] = left]
        /\ IF route \in routes[r] /\ ~HasTopic(left, f.topic)
           THEN Sent(r, Nbrs(r) \ {i}, f, Received(r, i))
           ELSE chan' = Received(r, i)
    BY <1>7 DEF PollUnsubscribe
  <2>2. f \in Frames /\ f.kind = "unsub" /\ f.topic \in Topics /\ f.remote \in Sites
    BY <1>1, <2>1, ReceivedFrames, FrameKinds
  <2>3. targets \subseteq Nbrs(r)
    OBVIOUS
  <2>4. \/ Sent(r, targets, f, Received(r, i))
        \/ targets = {} /\ chan' = Received(r, i)
    BY <2>1
  <2>5. Arrived(r, i, f.kind)
    BY <2>1, <2>2
  <2>6. /\ Moved(r, i, f, targets) /\ <<i, r>> \in Links
        /\ chan[<<i, r>>] # << >> /\ f = Head(chan[<<i, r>>]) /\ f \in InFlight(chan, <<i, r>>)
    BY <1>5, <2>2, <2>3, <2>4, <2>5
  <2>7. route.topic = f.topic /\ route.iface = i /\ route.remote = f.remote /\ route \in Routes
    BY <2>2 DEF Route, Routes
  <2>8. \A t \in Topics : ~ IsNews(f, t) =>
           (HasTopic(routes'[r], t) <=> HasTopic(routes[r], t))
    BY <1>1, <2>1, <2>2, <2>7 DEF IsNews, HasTopic, RemoveRoute
  <2>9. ASSUME HasTopic(routes[r], f.topic), came[f.topic] \subseteq {f.remote}
        PROVE  ~ HasTopic(routes'[r], f.topic) /\ targets = Nbrs(r) \ {i}
    <3>1. Heralds(<<i, r>>, f) /\ <<r, i>> \in Links
      BY <2>2, <2>6, LinksAssumption DEF DirInv, Directed
    <3>2. Tracks(r, route)
      BY <2>7, <3>1 DEF Heralds, Tracks, Back
    <3>3. ASSUME NEW e \in routes[r], e.topic = f.topic PROVE e = route
      <4>1. Tracks(r, e) /\ e \in Routes
        BY <1>1 DEF DirInv, Directed
      <4>2. e.remote = f.remote
        BY <2>9, <3>3, <4>1 DEF Tracks
      <4>. QED BY <1>1, <2>7, <3>2, <3>3, <4>1, <4>2, OneWay
    <3>4. route \in routes[r] /\ ~ HasTopic(left, f.topic)
      BY <2>9, <3>3 DEF HasTopic, RemoveRoute
    <3>. QED BY <1>1, <2>1, <3>4
  <2>10. came' = came /\ wants' = wants /\ \A q \in Sites : q # r => routes'[q] = routes[q]
    BY <1>1, <2>1 DEF calls
  <2>. QED BY <2>2, <2>6, <2>8, <2>9, <2>10, PolledInTurn
<1>8. ASSUME NEW r \in Sites, NEW i \in Sites, PollData(r, i)
      PROVE  AloneInTurn'
  <2>. PICK f : f = Incoming(r, i)
    OBVIOUS
  <2>. PICK targets : targets = ForwardTo(routes[r], r, i, f.topic)
    OBVIOUS
  <2>1. /\ Arrived(r, i, "data") /\ UNCHANGED calls /\ routes' = routes
        /\ Sent(r, targets, f, Received(r, i))
    BY <1>8 DEF PollData
  <2>2. f \in Frames /\ f.kind = "data" /\ f.topic \in Topics
    BY <1>1, <2>1, ReceivedFrames, FrameKinds
  <2>3. targets \subseteq Nbrs(r) /\ Arrived(r, i, f.kind)
    BY <2>1, <2>2 DEF ForwardTo
  <2>4. /\ Moved(r, i, f, targets) /\ <<i, r>> \in Links
        /\ chan[<<i, r>>] # << >> /\ f = Head(chan[<<i, r>>])
    BY <1>5, <2>1, <2>2, <2>3
  <2>. QED BY <2>1, <2>2, <2>4, PolledInTurn DEF calls
<1>9. CASE UNCHANGED vars
  BY <1>9 DEF vars, AloneInTurn, Stand, InTurn, Beyond, Back
<1>. QED BY <1>2, <1>3, <1>4, <1>6, <1>7, <1>8, <1>9 DEF Next, Poll

LEMMA AloneSettles == AloneInv => SettledMatchesDemand
<1>. SUFFICES ASSUME DirInv, LossFreeTree, AloneInTurn, Quiet,
                     NEW t \in Topics, NEW x \in Sites, came[t] = {x}
              PROVE  IF t \in wants[x]
                     THEN \A p \in Sites \ {x} : Reaches(routes, p, t, x)
                     ELSE \A r \in Sites : ~HasTopic(routes[r], t)
  BY DEF AloneInv, SettledMatchesDemand
<1>1. /\ routes \in [Sites -> SUBSET Routes] /\ Forest /\ IsFiniteSet(Sites) /\ Joined
      /\ \A l \in Links : chan[l] \in Seq(Frames)
  BY DEF DirInv, TypeInv, TypeOK, Routes, LossFreeTree, Joined
<1>2. ASSUME NEW l \in Links, x \in Beyond(Back(l))
      PROVE  Stand(l[1], t, x) = Stand(l[2], t, x)
  <2>1. InTurn(chan[l], t, Stand(l[2], t, x), Stand(l[1], t, x))
    BY <1>2 DEF AloneInTurn
  <2>2. \A k \in DOMAIN chan[l] : ~ IsNews(chan[l][k], t)
    BY DEF Quiet, IsNews
  <2>. QED BY <1>1, <2>1, <2>2, NoTurn
<1>. DEFINE S == { r \in Sites : Stand(r, t, x) = Stand(x, t, x) }
<1>3. ASSUME NEW l \in Links, l[1] \in S PROVE l[2] \in S
  <2>1. /\ l[2] \in Sites /\ Back(l) \in Links /\ Back(Back(l)) = l
        /\ Back(l)[1] = l[2] /\ Back(l)[2] = l[1]
    BY LinkPair, LinksAssumption DEF Back
  <2>2. CASE x \in Beyond(l)
    <3>1. Stand(l[2], t, x) = Stand(l[1], t, x)
      BY <1>2, <2>1, <2>2
    <3>. QED BY <1>3, <2>1, <3>1
  <2>3. CASE x \in Beyond(Back(l))
    BY <1>2, <1>3, <2>1, <2>3
  <2>. QED BY <1>1, <2>2, <2>3, EitherSide
<1>4. S = Sites
  <2>1. x \in S /\ S \in SUBSET Sites
    OBVIOUS
  <2>. HIDE DEF S
  <2>. QED BY <1>1, <1>3, <2>1 DEF Joined
<1>5. \A r \in Sites : r # x => (HasTopic(routes[r], t) <=> t \in wants[x])
  <2>1. \A r \in Sites : Stand(r, t, x) = Stand(x, t, x)
    BY <1>4
  <2>. QED BY <2>1 DEF Stand
<1>6. ASSUME NEW r \in Sites, NEW e \in routes[r], e.topic = t
      PROVE  /\ e \in Routes /\ e.remote = x /\ <<r, e.iface>> \in Links
             /\ x \in Beyond(<<r, e.iface>>) /\ r # x /\ e.iface \in Nbrs(r)
  <2>1. Tracks(r, e) /\ e \in Routes
    BY <1>1 DEF DirInv, Directed
  <2>2. /\ e.remote = x /\ <<r, e.iface>> \in Links /\ x \in Beyond(<<r, e.iface>>)
    BY <1>1, <1>6, <2>1 DEF Tracks
  <2>3. r # x
    BY <1>1, <2>2 DEF Forest
  <2>. QED BY <2>1, <2>2, <2>3 DEF Nbrs, Routes
<1>7. CASE t \notin wants[x]
  BY <1>5, <1>6, <1>7 DEF HasTopic
<1>8. CASE t \in wants[x]
  <2>1. ASSUME NEW r \in Sites, NEW e \in routes[r], e.topic = t
        PROVE  Knows(e.iface, t, x)
    <3>1. e.iface \in Sites
      BY <1>6, <2>1 DEF Nbrs
    <3>2. CASE e.iface = x
      BY <3>2 DEF Knows
    <3>3. CASE e.iface # x
      <4>1. PICK d \in routes[e.iface] : d.topic = t
        BY <1>5, <1>8, <3>1, <3>3 DEF HasTopic
      <4>2. d \in Routes /\ d.remote = x /\ d.iface \in Nbrs(e.iface)
        BY <1>6, <3>1, <4>1
      <4>3. d = Route(t, d.iface, x)
        BY <4>1, <4>2 DEF Routes, Route
      <4>. QED BY <4>1, <4>2, <4>3 DEF Knows
    <3>. QED BY <3>2, <3>3
  <2>2. ASSUME NEW p \in Sites, p # x PROVE Reaches(routes, p, t, x)
    <3>1. PICK e \in routes[p] : e.topic = t
      BY <1>5, <1>8, <2>2 DEF HasTopic
    <3>. QED BY <1>1, <1>6, <2>1, <3>1, FollowedToTheEnd
  <2>. QED BY <1>8, <2>2
<1>. QED BY <1>7, <1>8

(* For a topic that one site only has ever subscribed to, the tables of a  *)
(* loss-free tree come to match what it wants, however often it changes    *)
(* its mind and however its announcements overlap: handle_subscribe and    *)
(* handle_unsubscribe pass each of them on, in order and in turn.          *)
THEOREM MeshSettledMatchesDemand == Spec => []SettledMatchesDemand
<1>1. AloneInv /\ [Next]_vars => AloneInv'
  <2>. SUFFICES ASSUME AloneInv, [Next]_vars PROVE AloneInv'
    OBVIOUS
  <2>1. DirInv'
    BY NextDir DEF AloneInv
  <2>2. LossFreeTree => AloneInTurn'
    BY <2>1, NextInTurn DEF AloneInv
  <2>3. LossFreeTree' <=> LossFreeTree
    BY DEF LossFreeTree, Forest, Beyond, Demands
  <2>. QED BY <2>1, <2>2, <2>3 DEF AloneInv
<1>. QED BY <1>1, InitAlone, AloneSettles, PTL DEF Spec

-------------------------------------------------------------------------------
(* Whoever stays, stays reached.  Between p and a subscriber y that p      *)
(* reaches every router has an entry in y's direction, the last one y's    *)
(* own, and nobody there takes back a demand: y does not leave, routers in *)
(* between are no end nodes, and one that has an entry passes no           *)
(* withdrawal on.                                                          *)

LEMMA FirstHop ==
    ASSUME Joined, NEW p \in Sites, NEW y \in Sites, p # y
    PROVE  \E n \in Nbrs(p) : y \in Beyond(<<p, n>>)
<1>. DEFINE S == {p} \union { s \in Sites : \E n \in Nbrs(p) : s \in Beyond(<<p, n>>) }
<1>1. ASSUME NEW k \in Links, k[1] \in S PROVE k[2] \in S
  <2>1. k = <<k[1], k[2]>> /\ k[1] \in Sites /\ k[2] \in Sites
    BY LinksAssumption
  <2>2. CASE k[1] = p
    <3>1. k[2] \in Nbrs(p) /\ k[2] \in Beyond(<<p, k[2]>>)
      BY <2>1, <2>2, BeyondSites DEF Nbrs
    <3>. QED BY <2>1, <3>1
  <2>3. ASSUME NEW n \in Nbrs(p), k[1] \in Beyond(<<p, n>>) PROVE k[2] \in S
    <3>. DEFINE l == <<p, n>>
    <3>1. l \in Links /\ l[1] = p /\ l[2] = n
      BY DEF Nbrs
    <3>. HIDE DEF l
    <3>2. k = <<l[2], l[1]>> => k[2] = p
      BY <3>1
    <3>3. k # <<l[2], l[1]>> => k[2] \in Beyond(l)
      BY <2>3, <3>1, BeyondSites DEF l
    <3>. QED BY <2>1, <3>2, <3>3 DEF l
  <2>. QED BY <1>1, <2>2, <2>3
<1>2. S # {} /\ S \in SUBSET Sites
  OBVIOUS
<1>3. S = Sites
  <2>. HIDE DEF S
  <2>. QED BY <1>1, <1>2 DEF Joined
<1>. QED BY <1>3

LEMMA NextHop ==
    ASSUME NEW l \in Links, NEW y \in Beyond(l), y # l[2]
    PROVE  \E n \in Nbrs(l[2]) : n # l[1] /\ y \in Beyond(<<l[2], n>>)
<1>. DEFINE b == l[2]
            S == {b} \union { s \in Sites :
                     \E n \in Nbrs(b) : n # l[1] /\ s \in Beyond(<<b, n>>) }
<1>0. l = <<l[1], b>> /\ b \in Sites
  BY LinksAssumption
<1>1. ASSUME NEW k \in Links, k[1] \in S, k # l, k # <<l[2], l[1]>> PROVE k[2] \in S
  <2>1. k = <<k[1], k[2]>> /\ k[1] \in Sites /\ k[2] \in Sites
    BY LinksAssumption
  <2>2. CASE k[1] = b
    <3>1. k[2] # l[1]
      BY <1>1, <2>1, <2>2
    <3>2. k[2] \in Nbrs(b) /\ k[2] \in Beyond(<<b, k[2]>>)
      BY <2>1, <2>2, BeyondSites DEF Nbrs
    <3>. QED BY <2>1, <3>1, <3>2
  <2>3. ASSUME NEW n \in Nbrs(b), n # l[1], k[1] \in Beyond(<<b, n>>) PROVE k[2] \in S
    <3>. DEFINE m == <<b, n>>
    <3>1. m \in Links /\ m[1] = b /\ m[2] = n
      BY DEF Nbrs
    <3>. HIDE DEF m
    <3>2. k = <<m[2], m[1]>> => k[2] = b
      BY <3>1
    <3>3. k # <<m[2], m[1]>> => k[2] \in Beyond(m)
      BY <2>3, <3>1, BeyondSites DEF m
    <3>. QED BY <2>1, <2>3, <3>2, <3>3 DEF m
  <2>. QED BY <1>1, <2>2, <2>3
<1>2. l[2] \in S /\ S \in SUBSET Sites
  BY <1>0
<1>3. Beyond(l) \subseteq S
  <2>. HIDE DEF S
  <2>. QED BY <1>1, <1>2, BeyondSites
<1>. QED BY <1>3

\* On the way from p to y, after p, comes a; b is next.
Between(a, b, p, y) ==
    /\ <<a, b>> \in Links /\ y \in Beyond(<<a, b>>)
    /\ \E c \in Nbrs(a) : c # b /\ p \in Beyond(<<a, c>>)

LEMMA BetweenNext ==
    ASSUME Forest, NEW l \in Links, NEW p, NEW y \in Beyond(l), y # l[2],
           p \in Beyond(Back(l))
    PROVE  \E n \in Nbrs(l[2]) : /\ n # l[1] /\ Between(l[2], n, p, y)
                                 /\ p \in Beyond(Back(<<l[2], n>>))
<1>1. PICK n \in Nbrs(l[2]) : n # l[1] /\ y \in Beyond(<<l[2], n>>)
  BY NextHop
<1>. DEFINE b == Back(l)
            m == Back(<<l[2], n>>)
<1>2. /\ b \in Links /\ b[1] = l[2] /\ b[2] = l[1] /\ b = <<l[2], l[1]>>
      /\ <<l[2], n>> \in Links /\ m \in Links /\ m[1] = n /\ m[2] = l[2]
  BY <1>1, LinkPair, LinksAssumption DEF Back, Nbrs
<1>. HIDE DEF b, m
<1>3. Beyond(b) \subseteq Beyond(m)
  BY <1>1, <1>2, BeyondShrinks
<1>4. l[1] \in Nbrs(l[2])
  BY <1>2, LinksAssumption DEF Nbrs
<1>5. p \in Beyond(<<l[2], l[1]>>)
  BY DEF Back
<1>6. Between(l[2], n, p, y)
  BY <1>1, <1>2, <1>4, <1>5 DEF Between
<1>7. p \in Beyond(m)
  BY <1>3 DEF b
<1>. QED BY <1>1, <1>6, <1>7 DEF m

IsWithdrawal(f, t) == f.kind = "unsub" /\ f.topic = t

Held(t, p, y) ==
    \A a, b \in Sites : Between(a, b, p, y) =>
        IF b = y THEN Route(t, y, y) \in routes[a]
        ELSE /\ HasAnyRoute(routes[a], t, b)
             /\ \A f \in InFlight(chan, <<b, a>>) : ~ IsWithdrawal(f, t)

\* What is held leads to y.
LEMMA HeldReaches ==
    ASSUME LossFreeTree, NEW t, NEW p \in Sites, NEW y \in Sites, p # y, Held(t, p, y)
    PROVE  Reaches(routes, p, t, y)
<1>. DEFINE first == {<<p, n>> : n \in Nbrs(p)}
            C == Crossed(routes, first, t)
            size(l) == Cardinality(Beyond(l))
            Leading == { l \in C : y \in Beyond(l) /\ p \in Beyond(Back(l)) }
<1>0. Forest /\ IsFiniteSet(Sites) /\ Joined
  BY DEF LossFreeTree, Joined
<1>1. first \in SUBSET Links
  BY DEF Nbrs
<1>2. IsFiniteSet(Links) /\ \A l \in Links : IsFiniteSet(Beyond(l)) /\ size(l) \in Nat
  BY <1>0, FiniteTree
<1>3. first \subseteq C /\ Onward(routes, C, t) \subseteq C /\ C \subseteq Links
  BY <1>1, <1>2, CrossedIsClosed
<1>4. Leading # {}
  <2>1. PICK n \in Nbrs(p) : y \in Beyond(<<p, n>>)
    BY <1>0, FirstHop
  <2>2. <<p, n>> \in first
    OBVIOUS
  <2>3. p \in Beyond(Back(<<p, n>>))
    <3>1. <<n, p>> \in Links
      BY LinksAssumption DEF Nbrs
    <3>. QED BY <3>1, BeyondSites DEF Back
  <2>. QED BY <1>3, <2>1, <2>2, <2>3
<1>. HIDE DEF C
<1>5. PICK l \in Leading : \A m \in Leading : size(l) <= size(m)
  <2>. DEFINE T == { size(l) : l \in Leading }
  <2>1. T \in SUBSET Nat /\ T # {}
    BY <1>2, <1>3, <1>4
  <2>2. PICK n \in T : \A k \in T : n <= k
    <3>. HIDE DEF T
    <3>. QED BY <2>1, LeastNumber
  <2>. QED BY <2>2
<1>6. l \in Links /\ l = <<l[1], l[2]>> /\ l[2] \in Sites
  BY <1>3, LinksAssumption
<1>7. ASSUME l[2] # y PROVE FALSE
  <2>1. PICK n \in Nbrs(l[2]) : /\ n # l[1] /\ Between(l[2], n, p, y)
                                /\ p \in Beyond(Back(<<l[2], n>>))
    BY <1>0, <1>6, <1>7, BetweenNext
  <2>. DEFINE m == <<l[2], n>>
  <2>2. m \in Links /\ y \in Beyond(m) /\ p \in Beyond(Back(m)) /\ m[1] = l[2] /\ m[2] = n
    BY <2>1 DEF Between
  <2>3. HasAnyRoute(routes[l[2]], t, n)
    <3>1. n \in Sites
      BY <2>1 DEF Nbrs
    <3>2. IF n = y THEN Route(t, y, y) \in routes[l[2]]
          ELSE /\ HasAnyRoute(routes[l[2]], t, n)
               /\ \A f \in InFlight(chan, <<n, l[2]>>) : ~ IsWithdrawal(f, t)
      BY <1>6, <2>1, <3>1 DEF Held
    <3>3. CASE n = y
      <4>1. Route(t, y, y) \in routes[l[2]]
        BY <3>2, <3>3
      <4>2. Route(t, y, y).topic = t /\ Route(t, y, y).iface = n
        BY <3>3 DEF Route
      <4>. QED BY <4>1, <4>2 DEF HasAnyRoute
    <3>. QED BY <3>2, <3>3
  <2>4. n \in ForwardTo(routes[l[2]], l[2], l[1], t)
    BY <2>1, <2>3 DEF ForwardTo
  <2>5. m \in Onward(routes, C, t)
    <3>. HIDE DEF m
    <3>. QED BY <2>2, <2>4 DEF Onward
  <2>6. m \in Leading
    BY <1>3, <2>2, <2>5
  <2>7. Beyond(m) \subseteq Beyond(l) \ {l[2]} /\ l[2] \in Beyond(l)
    <3>. HIDE DEF m
    <3>. QED BY <1>0, <1>6, <2>1, <2>2, BeyondShrinks, BeyondSites
  <2>8. size(m) < size(l)
    <3>1. size(m) <= size(l) /\ size(m) # size(l)
      BY <1>2, <1>6, <2>7, FS_Subset
    <3>. QED BY <1>2, <1>6, <2>2, <3>1
  <2>. HIDE DEF size, Leading
  <2>. QED BY <1>2, <1>5, <1>6, <2>2, <2>6, <2>8
<1>8. l \in C /\ l[2] = y
  BY <1>7
<1>. QED BY <1>8 DEF Reaches, C

\* The way across a cable is the cable.
LEMMA OnlyWayIn ==
    ASSUME Forest, NEW m \in Links, NEW k \in Links, k[2] \in Beyond(m), k[1] \notin Beyond(m)
    PROVE  k = m
<1>. DEFINE b == Back(k)
<1>1. b \in Links /\ b[1] = k[2] /\ b[2] = k[1]
  BY LinkPair DEF Back
<1>2. k = <<k[1], k[2]>> /\ m = <<m[1], m[2]>> /\ b = <<k[2], k[1]>>
  BY LinkPair DEF Back
<1>3. m[1] \notin Beyond(m)
  BY DEF Forest
<1>4. b = m \/ b = <<m[2], m[1]>>
  <2>. HIDE DEF b
  <2>. QED BY <1>1, BeyondSites
<1>. QED BY <1>1, <1>2, <1>3, <1>4

\* p and y are on different sides of every step of the way.
LEMMA BetweenSides ==
    ASSUME Forest, NEW a, NEW b, NEW p, NEW y, Between(a, b, p, y)
    PROVE  /\ p \in Beyond(Back(<<a, b>>)) /\ p \notin Beyond(<<a, b>>) /\ p # a
           /\ y \in Beyond(<<a, b>>) /\ <<a, b>> \in Links /\ <<b, a>> \in Links
<1>1. PICK c \in Nbrs(a) : c # b /\ p \in Beyond(<<a, c>>)
  BY DEF Between
<1>. DEFINE l == <<a, b>>
            k == <<b, a>>
            m == <<a, c>>
<1>2. /\ l \in Links /\ y \in Beyond(l) /\ k \in Links /\ m \in Links /\ m # l
      /\ l[1] = a /\ m[1] = a /\ k[1] = b /\ k[2] = a /\ m[2] = c /\ Back(l) = k
  BY <1>1, LinksAssumption DEF Between, Nbrs, Back
<1>. HIDE DEF l, k, m
<1>3. p \in Beyond(m)
  BY <1>1 DEF m
<1>4. p \notin Beyond(l)
  BY <1>2, <1>3, BeyondApart
<1>5. p \in Beyond(k)
  BY <1>1, <1>2, <1>3, BeyondShrinks
<1>6. p # a
  BY <1>2, <1>3 DEF Forest
<1>. QED BY <1>2, <1>4, <1>5, <1>6 DEF l, k

(* A site that stays has told each neighbour itself, or is about to; only  *)
(* leavers' announcements take anything back.                              *)
OwnTold ==
    \A t \in Topics, y \in Sites \ Leavers : t \in wants[y] =>
        \A a \in Nbrs(y) : \/ Route(t, y, y) \in routes[a]
                           \/ Announce("sub", t, y) \in InFlight(chan, <<y, a>>)

Leaves ==
    \A l \in Links : \A f \in InFlight(chan, l) : f.kind = "unsub" => f.remote \in Leavers

StayInv == DirInv /\ Leaves /\ (LossFreeTree => OwnTold)

\* Who is reached when things have settled is held.
LEMMA ReachedIsHeld ==
    ASSUME StayInv, LossFreeTree, Quiet, NEW t \in Topics, NEW p \in Sites,
           NEW y \in Sites \ Leavers, t \in wants[y], Reaches(routes, p, t, y)
    PROVE  Held(t, p, y)
<1>0. Forest /\ IsFiniteSet(Sites) /\ OwnTold /\ IsFiniteSet(Links)
  BY FiniteTree DEF LossFreeTree, StayInv
<1>1. \A l \in Links : \A f \in InFlight(chan, l) : f.kind = "data"
  BY DEF Quiet, InFlight
<1>. SUFFICES ASSUME NEW a \in Sites, NEW b \in Sites, Between(a, b, p, y)
              PROVE  IF b = y THEN Route(t, y, y) \in routes[a]
                     ELSE /\ HasAnyRoute(routes[a], t, b)
                          /\ \A f \in InFlight(chan, <<b, a>>) : ~ IsWithdrawal(f, t)
  BY DEF Held
<1>. DEFINE m == <<a, b>>
            first == {<<p, n>> : n \in Nbrs(p)}
            D == { l \in Links : l[2] \notin Beyond(m) }
<1>2. /\ m \in Links /\ m[1] = a /\ m[2] = b /\ <<b, a>> \in Links
      /\ y \in Beyond(m) /\ p \notin Beyond(m) /\ p # a
  BY <1>0, BetweenSides
<1>3. CASE b = y
  <2>1. a \in Nbrs(y)
    BY <1>2, <1>3 DEF Nbrs
  <2>2. Announce("sub", t, y) \notin InFlight(chan, <<y, a>>)
    BY <1>1, <1>2, <1>3 DEF Announce
  <2>. QED BY <1>0, <1>3, <2>1, <2>2 DEF OwnTold
<1>4. ASSUME ~ HasAnyRoute(routes[a], t, b) PROVE FALSE
  <2>. HIDE DEF m
  <2>1. first \subseteq D
    <3>1. ASSUME NEW n \in Nbrs(p) PROVE <<p, n>> \in D
      <4>. DEFINE k == <<p, n>>
      <4>1. k \in Links /\ k[1] = p /\ k[2] = n
        BY DEF Nbrs
      <4>. HIDE DEF k
      <4>2. k[2] \notin Beyond(m)
        BY <1>0, <1>2, <4>1, OnlyWayIn
      <4>. QED BY <4>1, <4>2 DEF k
    <3>. QED BY <3>1
  <2>2. ASSUME NEW k \in Onward(routes, D, t) PROVE k \in D
    <3>0. k \in Links
      BY DEF Onward
    <3>1. PICK l \in D : k[1] = l[2] /\ k[2] \in ForwardTo(routes[l[2]], l[2], l[1], t)
      BY DEF Onward
    <3>2. k # m
      BY <1>2, <1>4, <3>1 DEF ForwardTo
    <3>3. k[2] \notin Beyond(m)
      BY <1>0, <1>2, <3>0, <3>1, <3>2, OnlyWayIn
    <3>. QED BY <3>0, <3>3
  <2>3. first \in SUBSET Links /\ D \in SUBSET Links
    BY DEF Nbrs
  <2>. HIDE DEF D
  <2>4. Crossed(routes, first, t) \subseteq D
    BY <1>0, <2>1, <2>2, <2>3, CrossedIsClosed
  <2>. QED BY <1>2, <2>4 DEF Reaches, D
<1>5. \A f \in InFlight(chan, <<b, a>>) : ~ IsWithdrawal(f, t)
  BY <1>1, <1>2 DEF IsWithdrawal
<1>. QED BY <1>3, <1>4, <1>5

LEMMA InitStay == Init => StayInv
BY InitDir DEF Init, StayInv, Leaves, OwnTold, InFlight

\* What a step sends and takes, for what follows: f is received by r from i
\* and sent on to some of r's neighbours.
LEMMA PolledFrames ==
    ASSUME chan \in [Links -> Seq(Frames)], NEW r \in Sites, NEW i \in Sites,
           NEW f \in Frames, f = Incoming(r, i), Arrived(r, i, f.kind),
           NEW targets, targets \subseteq Nbrs(r),
           chan' = Received(r, i) \/ Sent(r, targets, f, Received(r, i))
    PROVE  /\ f \in InFlight(chan, <<i, r>>) /\ <<i, r>> \in Links
           /\ \A l \in Links : \A g \in InFlight(chan', l) :
                 g \in InFlight(chan, l) \/ (g = f /\ l[1] = r)
           /\ ~Lossy => \A l \in Links : \A g \in InFlight(chan, l) :
                            g \in InFlight(chan', l) \/ (l = <<i, r>> /\ g = f)
<1>1. /\ f \in InFlight(chan, <<i, r>>) /\ <<i, r>> \in Links
      /\ Received(r, i) \in [Links -> Seq(Frames)]
      /\ \A l \in Links : InFlight(Received(r, i), l) \subseteq InFlight(chan, l)
  BY ReceivedFrames DEF Arrived
<1>2. ASSUME NEW l \in Links, NEW g \in InFlight(chan, l)
      PROVE  g \in InFlight(Received(r, i), l) \/ (l = <<i, r>> /\ g = f)
  BY ReceivedKeeps
<1>3. CASE chan' = Received(r, i)
  BY <1>1, <1>2, <1>3 DEF InFlight
<1>4. CASE Sent(r, targets, f, Received(r, i))
  <2>1. \A l \in Links : \A g \in InFlight(chan', l) :
           g \in InFlight(Received(r, i), l) \/ (g = f /\ l[1] = r)
    BY <1>1, <1>4, SentFrames
  <2>2. ~Lossy => \A l \in Links : InFlight(Received(r, i), l) \subseteq InFlight(chan', l)
    BY <1>1, <1>4, SentKeeps
  <2>. QED BY <1>1, <1>2, <1>4, <2>1, <2>2
<1>. QED BY <1>3, <1>4

\* A call sends one frame to each neighbour.
LEMMA CalledFrames ==
    ASSUME chan \in [Links -> Seq(Frames)], NEW s \in Sites, NEW f \in Frames,
           Sent(s, Nbrs(s), f, chan)
    PROVE  /\ \A l \in Links : \A g \in InFlight(chan', l) :
                 g \in InFlight(chan, l) \/ (g = f /\ l[1] = s)
           /\ ~Lossy => \A l \in Links : /\ InFlight(chan, l) \subseteq InFlight(chan', l)
                                         /\ l[1] = s => f \in InFlight(chan', l)
<1>1. \A l \in Links : l[1] = s => l[2] \in Nbrs(s)
  BY LinksAssumption DEF Nbrs
<1>2. \A l \in Links : \A g \in InFlight(chan', l) :
         g \in InFlight(chan, l) \/ (g = f /\ l[1] = s)
  BY SentFrames
<1>3. ASSUME ~Lossy, NEW l \in Links
      PROVE  InFlight(chan, l) \subseteq InFlight(chan', l) /\ (l[1] = s => f \in InFlight(chan', l))
  BY <1>1, <1>3, SentKeeps
<1>. QED BY <1>2, <1>3

LEMMA NextStay == StayInv /\ [Next]_vars => StayInv'
<1>. SUFFICES ASSUME StayInv, [Next]_vars PROVE StayInv'
  OBVIOUS
<1>1. TypeInv /\ TypeInv' /\ DirInv /\ DirInv' /\ Leaves
  BY NextDir DEF StayInv, DirInv
<1>2. /\ chan \in [Links -> Seq(Frames)] /\ routes \in [Sites -> SUBSET Routes]
      /\ wants \in [Sites -> SUBSET Topics]
      /\ \A l \in Links : l[1] \in Sites /\ l[2] \in Sites
      /\ \A y \in Sites : \A a \in Nbrs(y) : a \in Sites /\ <<y, a>> \in Links
  BY <1>1, LinksAssumption DEF TypeInv, TypeOK, Routes, Nbrs
<1>3. /\ LossFreeTree => ~Lossy
      /\ LossFreeTree' <=> LossFreeTree
  BY DEF LossFreeTree, Forest, Beyond, Demands
\* Who asks anew tells every neighbour; what was told stays told or arrives.
<1>4. ASSUME \A l \in Links : \A g \in InFlight(chan', l) :
                g \in InFlight(chan, l) \/ (g.kind = "unsub" => g.remote \in Leavers),
             LossFreeTree => \A y \in Sites \ Leavers, t \in Topics : t \in wants'[y] =>
                \A a \in Nbrs(y) :
                   \/ /\ t \in wants[y]
                      /\ Route(t, y, y) \in routes[a] => Route(t, y, y) \in routes'[a]
                      /\ Announce("sub", t, y) \in InFlight(chan, <<y, a>>) =>
                            \/ Route(t, y, y) \in routes'[a]
                            \/ Announce("sub", t, y) \in InFlight(chan', <<y, a>>)
                   \/ Announce("sub", t, y) \in InFlight(chan', <<y, a>>)
      PROVE  StayInv'
  <2>1. Leaves'
    BY <1>1, <1>4 DEF Leaves, InFlight
  <2>2. ASSUME LossFreeTree, NEW t \in Topics, NEW y \in Sites \ Leavers, t \in wants'[y],
               NEW a \in Nbrs(y)
        PROVE  Route(t, y, y) \in routes'[a] \/ Announce("sub", t, y) \in InFlight(chan', <<y, a>>)
    <3>1. OwnTold
      BY <2>2 DEF StayInv
    <3>2. t \in wants[y] => \/ Route(t, y, y) \in routes[a]
                            \/ Announce("sub", t, y) \in InFlight(chan, <<y, a>>)
      BY <3>1 DEF OwnTold
    <3>. QED BY <1>4, <2>2, <3>2
  <2>3. LossFreeTree => OwnTold'
    BY <2>2 DEF OwnTold, InFlight, Route, Announce, Nbrs
  <2>. QED BY <1>1, <1>3, <2>1, <2>3 DEF StayInv
<1>5. ASSUME NEW s \in Sites, NEW t \in Topics, Subscribe(s, t)
      PROVE  StayInv'
  <2>. PICK f : f = Announce("sub", t, s)
    OBVIOUS
  <2>1. f \in Frames /\ f.kind = "sub"
    BY FramesMade DEF Announce
  <2>2. /\ Sent(s, Nbrs(s), f, chan) /\ routes' = routes
        /\ wants' = [wants EXCEPT ![s] = @ \union {t}]
    BY <1>5 DEF Subscribe
  <2>3. /\ \A l \in Links : \A g \in InFlight(chan', l) : g \in InFlight(chan, l) \/ g = f
        /\ ~Lossy => \A l \in Links : /\ InFlight(chan, l) \subseteq InFlight(chan', l)
                                      /\ l[1] = s => f \in InFlight(chan', l)
    BY <1>2, <2>1, <2>2, CalledFrames
  <2>4. ASSUME LossFreeTree, NEW y \in Sites, NEW u \in Topics, u \in wants'[y], NEW a \in Nbrs(y),
               u \notin wants[y]
        PROVE  Announce("sub", u, y) \in InFlight(chan', <<y, a>>)
    <3>1. u = t /\ y = s
      BY <1>2, <2>2, <2>4
    <3>. QED BY <1>2, <1>3, <2>3, <2>4, <3>1
  <2>5. ASSUME LossFreeTree, NEW y \in Sites, NEW u \in Topics, NEW a \in Nbrs(y)
        PROVE  InFlight(chan, <<y, a>>) \subseteq InFlight(chan', <<y, a>>)
    BY <1>2, <1>3, <2>3, <2>5
  <2>. QED BY <1>4, <2>1, <2>2, <2>3, <2>4, <2>5
<1>6. ASSUME NEW s \in Sites, NEW t \in Topics, Unsubscribe(s, t)
      PROVE  StayInv'
  <2>. PICK f : f = Announce("unsub", t, s)
    OBVIOUS
  <2>1. f \in Frames /\ f.remote \in Leavers
    BY <1>6, FramesMade DEF Announce, Unsubscribe
  <2>2. /\ Sent(s, Nbrs(s), f, chan) /\ routes' = routes
        /\ wants' = [wants EXCEPT ![s] = @ \ {t}]
    BY <1>6 DEF Unsubscribe
  <2>3. /\ \A l \in Links : \A g \in InFlight(chan', l) : g \in InFlight(chan, l) \/ g = f
        /\ ~Lossy => \A l \in Links : InFlight(chan, l) \subseteq InFlight(chan', l)
    BY <1>2, <2>1, <2>2, CalledFrames
  <2>4. \A y \in Sites : wants'[y] \subseteq wants[y]
    BY <1>2, <2>2
  <2>5. ASSUME LossFreeTree, NEW y \in Sites, NEW a \in Nbrs(y)
        PROVE  InFlight(chan, <<y, a>>) \subseteq InFlight(chan', <<y, a>>)
    BY <1>2, <1>3, <2>3, <2>5
  <2>. QED BY <1>4, <2>1, <2>2, <2>3, <2>4, <2>5
<1>7. ASSUME NEW s \in Sites, NEW t \in Topics, NEW d \in Dests, Publish(s, t, d)
      PROVE  StayInv'
  <2>. PICK f : f = Data(t, d, published + 1)
    OBVIOUS
  <2>1. published + 1 \in DataIds
    BY <1>1, <1>7, BoundsAssumption DEF Publish, DataIds, TypeInv, TypeOK
  <2>2. f \in Frames /\ f.kind = "data"
    BY <2>1, FramesMade DEF Data
  <2>3. Sent(s, Nbrs(s), f, chan) /\ routes' = routes /\ wants' = wants
    BY <1>7 DEF Publish, calls
  <2>4. /\ \A l \in Links : \A g \in InFlight(chan', l) : g \in InFlight(chan, l) \/ g = f
        /\ ~Lossy => \A l \in Links : InFlight(chan, l) \subseteq InFlight(chan', l)
    BY <1>2, <2>2, <2>3, CalledFrames
  <2>5. ASSUME LossFreeTree, NEW y \in Sites, NEW a \in Nbrs(y)
        PROVE  InFlight(chan, <<y, a>>) \subseteq InFlight(chan', <<y, a>>)
    BY <1>2, <1>3, <2>4, <2>5
  <2>. QED BY <1>4, <2>2, <2>3, <2>4, <2>5
<1>8. ASSUME NEW r \in Sites, NEW i \in Sites, NEW f \in Frames, f = Incoming(r, i),
             Arrived(r, i, f.kind), NEW targets, targets \subseteq Nbrs(r),
             chan' = Received(r, i) \/ Sent(r, targets, f, Received(r, i)), UNCHANGED calls,
             \A t \in Topics, y \in Sites \ Leavers, a \in Sites :
                Route(t, y, y) \in routes[a] => Route(t, y, y) \in routes'[a],
             LossFreeTree /\ f.kind = "sub" => Route(f.topic, i, f.remote) \in routes'[r]
      PROVE  StayInv'
  <2>1. /\ f \in InFlight(chan, <<i, r>>) /\ <<i, r>> \in Links
        /\ \A l \in Links : \A g \in InFlight(chan', l) : g \in InFlight(chan, l) \/ g = f
        /\ ~Lossy => \A l \in Links : \A g \in InFlight(chan, l) :
                         g \in InFlight(chan', l) \/ (l = <<i, r>> /\ g = f)
    <3>1. chan \in [Links -> Seq(Frames)] /\ targets \subseteq Nbrs(r)
      BY <1>2, <1>8
    <3>2. f = Incoming(r, i) /\ Arrived(r, i, f.kind)
      BY <1>8
    <3>3. chan' = Received(r, i) \/ Sent(r, targets, f, Received(r, i))
      BY <1>8
    <3>. QED BY <3>1, <3>2, <3>3, PolledFrames
  <2>2. f.kind = "unsub" => f.remote \in Leavers
    BY <1>1, <2>1 DEF Leaves
  <2>3. ASSUME LossFreeTree, NEW t \in Topics, NEW y \in Sites \ Leavers, NEW a \in Nbrs(y),
               Announce("sub", t, y) \in InFlight(chan, <<y, a>>)
        PROVE  \/ Route(t, y, y) \in routes'[a]
               \/ Announce("sub", t, y) \in InFlight(chan', <<y, a>>)
    <3>1. <<y, a>> \in Links
      BY <1>2
    <3>2. CASE Announce("sub", t, y) = f /\ y = i /\ a = r
      <4>1. f.kind = "sub" /\ f.topic = t /\ f.remote = y
        BY <3>2 DEF Announce
      <4>. QED BY <1>8, <2>3, <3>2, <4>1
    <3>. QED BY <1>3, <2>1, <2>3, <3>1, <3>2
  <2>4. wants' = wants
    BY <1>8 DEF calls
  <2>5. \A y \in Sites : \A a \in Nbrs(y) : a \in Sites
    BY <1>2
  <2>. QED BY <1>4, <1>8, <2>1, <2>2, <2>3, <2>4, <2>5
<1>9. ASSUME NEW r \in Sites, NEW i \in Sites, PollSubscribe(r, i)
      PROVE  StayInv'
  <2>. PICK f : f = Incoming(r, i)
    OBVIOUS
  <2>. PICK route : route = Route(f.topic, i, f.remote)
    OBVIOUS
  <2>. DEFINE table == AddRoute(routes[r], route)
              targets == ReemitTo(table, r, i, f.topic)
  <2>1. /\ Arrived(r, i, "sub") /\ UNCHANGED calls
        /\ routes' = [routes EXCEPT ![r] = table]
        /\ chan' = Received(r, i) \/ Sent(r, targets, f, Received(r, i))
    BY <1>9 DEF PollSubscribe
  <2>2. /\ f \in Frames /\ f.kind = "sub" /\ f \in InFlight(chan, <<i, r>>)
        /\ <<i, r>> \in Links /\ <<r, i>> \in Links
    BY <1>2, <2>1, ReceivedFrames, LinksAssumption DEF Arrived
  <2>3. Heralds(<<i, r>>, f)
    BY <1>1, <2>2 DEF DirInv, Directed
  <2>4. LossFreeTree /\ route \notin routes[r] => Inserts(routes[r], route)
    BY <1>1, <2>2, <2>3, RoomLeft
  <2>5. LossFreeTree => route \in routes'[r]
    BY <1>2, <2>1, <2>4 DEF AddRoute
  <2>6. \A a \in Sites : routes[a] \subseteq routes'[a]
    BY <1>2, <2>1 DEF AddRoute
  <2>7. targets \subseteq Nbrs(r)
    BY DEF ReemitTo
  <2>. HIDE DEF targets, table
  <2>. QED BY <1>8, <2>1, <2>2, <2>5, <2>6, <2>7
<1>10. ASSUME NEW r \in Sites, NEW i \in Sites, PollUnsubscribe(r, i)
       PROVE  StayInv'
  <2>. PICK f : f = Incoming(r, i)
    OBVIOUS
  <2>. PICK targets : targets = Nbrs(r) \ {i}
    OBVIOUS
  <2>1. /\ Arrived(r, i, "unsub") /\ UNCHANGED calls
        /\ routes' = [routes EXCEPT ![r] = @ \ {Route(f.topic, i, f.remote)}]
        /\ chan' = Received(r, i) \/ Sent(r, targets, f, Received(r, i))
    BY <1>10 DEF PollUnsubscribe, RemoveRoute
  <2>2. f \in Frames /\ f.kind = "unsub" /\ f \in InFlight(chan, <<i, r>>) /\ <<i, r>> \in Links
    BY <1>2, <2>1, ReceivedFrames DEF Arrived
  <2>3. f.remote \in Leavers
    BY <1>1, <2>2 DEF Leaves
  <2>4. \A t \in Topics, y \in Sites \ Leavers, a \in Sites :
           Route(t, y, y) \in routes[a] => Route(t, y, y) \in routes'[a]
    BY <1>2, <2>1, <2>3 DEF Route
  <2>. QED BY <1>8, <2>1, <2>2, <2>4
<1>11. ASSUME NEW r \in Sites, NEW i \in Sites, PollData(r, i)
       PROVE  StayInv'
  <2>. PICK f : f = Incoming(r, i)
    OBVIOUS
  <2>. PICK targets : targets = ForwardTo(routes[r], r, i, f.topic)
    OBVIOUS
  <2>1. /\ Arrived(r, i, "data") /\ UNCHANGED calls /\ routes' = routes
        /\ Sent(r, targets, f, Received(r, i))
    BY <1>11 DEF PollData
  <2>2. f \in Frames /\ f.kind = "data"
    BY <1>2, <2>1, ReceivedFrames
  <2>3. targets \subseteq Nbrs(r)
    BY DEF ForwardTo
  <2>. QED BY <1>8, <2>1, <2>2, <2>3
<1>12. CASE UNCHANGED vars
  BY <1>4, <1>12 DEF vars, InFlight
<1>. QED BY <1>5, <1>6, <1>7, <1>9, <1>10, <1>11, <1>12 DEF Next, Poll

\* What is held stays held: where somebody wants to take it back he would
\* have to be a leaver in the middle, or a router without demand.
LEMMA NextHeld ==
    ASSUME StayInv, LossFreeTree, \A s \in Leavers : EndNode(s), [Next]_vars,
           NEW t \in Topics, NEW p \in Sites, NEW y \in Sites \ Leavers, Held(t, p, y)
    PROVE  Held(t, p, y)'
<1>1. TypeInv /\ Forest /\ ~Lossy /\ Leaves
  BY DEF StayInv, DirInv, LossFreeTree
<1>2. /\ chan \in [Links -> Seq(Frames)] /\ routes \in [Sites -> SUBSET Routes]
      /\ \A l \in Links : l[1] \in Sites /\ l[2] \in Sites
  BY <1>1, LinksAssumption DEF TypeInv, TypeOK, Routes
<1>3. \A a, b : Between(a, b, p, y)' <=> Between(a, b, p, y)
  BY DEF Between, Beyond
\* Next to each router in between there are two others.
<1>4. ASSUME NEW a \in Sites, NEW b \in Sites, Between(a, b, p, y), b # y
      PROVE  b \notin Leavers /\ \E n \in Sites : Between(b, n, p, y)
  <2>. DEFINE l == <<a, b>>
  <2>1. l \in Links /\ l[1] = a /\ l[2] = b /\ y \in Beyond(l) /\ p \in Beyond(Back(l))
    BY <1>1, <1>4, BetweenSides
  <2>. HIDE DEF l
  <2>2. PICK n \in Nbrs(b) : n # a /\ Between(b, n, p, y)
    BY <1>1, <1>4, <2>1, BetweenNext
  <2>3. a \in Nbrs(b) /\ n \in Sites
    BY <1>4, <2>2, LinksAssumption DEF Between, Nbrs
  <2>. QED BY <2>2, <2>3 DEF EndNode
\* The entries survive a step that takes out at most a leaver's, when told.
<1>5. ASSUME NEW r \in Sites, NEW i \in Sites, NEW f \in Frames,
             f.kind = "unsub" => f \in InFlight(chan, <<i, r>>) /\ <<i, r>> \in Links,
             \A q \in Sites : \A e \in routes[q] :
                \/ e \in routes'[q]
                \/ q = r /\ f.kind = "unsub" /\ e = Route(f.topic, i, f.remote),
             NEW a \in Sites, NEW b \in Sites, Between(a, b, p, y)
      PROVE  IF b = y THEN Route(t, y, y) \in routes'[a]
             ELSE HasAnyRoute(routes'[a], t, b)
  <2>1. CASE b = y
    <3>1. Route(t, y, y) \in routes[a]
      BY <1>5, <2>1 DEF Held
    <3>2. f.kind = "unsub" => f.remote \in Leavers
      BY <1>1, <1>5 DEF Leaves
    <3>3. Route(t, y, y) # Route(f.topic, i, f.remote) \/ f.kind # "unsub"
      BY <3>2 DEF Route
    <3>. QED BY <1>5, <2>1, <3>1, <3>3
  <2>2. CASE b # y
    <3>1. /\ HasAnyRoute(routes[a], t, b)
          /\ \A g \in InFlight(chan, <<b, a>>) : ~ IsWithdrawal(g, t)
      BY <1>5, <2>2 DEF Held
    <3>2. PICK e \in routes[a] : e.topic = t /\ e.iface = b
      BY <3>1 DEF HasAnyRoute
    <3>3. e # Route(f.topic, i, f.remote) \/ a # r \/ f.kind # "unsub"
      BY <1>5, <3>1, <3>2 DEF Route, IsWithdrawal
    <3>. QED BY <1>5, <2>2, <3>2, <3>3 DEF HasAnyRoute
  <2>. QED BY <2>1, <2>2
\* Putting the two parts of Held together.
<1>6. ASSUME \A a, b \in Sites : Between(a, b, p, y) =>
                IF b = y THEN Route(t, y, y) \in routes'[a] ELSE HasAnyRoute(routes'[a], t, b),
             \A a, b \in Sites : Between(a, b, p, y) /\ b # y =>
                \A f \in InFlight(chan', <<b, a>>) :
                    f \in InFlight(chan, <<b, a>>) \/ ~ IsWithdrawal(f, t)
      PROVE  Held(t, p, y)'
  <2>1. ASSUME NEW a \in Sites, NEW b \in Sites, Between(a, b, p, y), b # y
        PROVE  \A f \in InFlight(chan', <<b, a>>) : ~ IsWithdrawal(f, t)
    BY <1>6, <2>1 DEF Held
  <2>. QED BY <1>3, <1>6, <2>1 DEF Held, HasAnyRoute, InFlight, IsWithdrawal, Route
<1>7. \A a, b \in Sites : Between(a, b, p, y) => <<b, a>> \in Links
  BY <1>1, BetweenSides
\* A caller's frame: no withdrawal comes from a router in between.
<1>8. ASSUME NEW s \in Sites, NEW f \in Frames, Sent(s, Nbrs(s), f, chan), routes' = routes,
             f.kind = "unsub" => s \in Leavers
      PROVE  Held(t, p, y)'
  <2>1. \A l \in Links : \A g \in InFlight(chan', l) : g \in InFlight(chan, l) \/ (g = f /\ l[1] = s)
    BY <1>2, <1>8, CalledFrames
  <2>2. ASSUME NEW a \in Sites, NEW b \in Sites, Between(a, b, p, y), b # y,
               NEW g \in InFlight(chan', <<b, a>>)
        PROVE  g \in InFlight(chan, <<b, a>>) \/ ~ IsWithdrawal(g, t)
    <3>1. b \notin Leavers /\ <<b, a>> \in Links
      BY <1>4, <1>7, <2>2
    <3>2. g \in InFlight(chan, <<b, a>>) \/ (g = f /\ b = s)
      BY <2>1, <2>2, <3>1
    <3>. QED BY <1>8, <3>1, <3>2 DEF IsWithdrawal
  <2>3. \A a, b \in Sites : Between(a, b, p, y) =>
           IF b = y THEN Route(t, y, y) \in routes'[a] ELSE HasAnyRoute(routes'[a], t, b)
    BY <1>8 DEF Held
  <2>. QED BY <1>6, <2>2, <2>3
<1>9. ASSUME NEW s \in Sites, NEW u \in Topics, Subscribe(s, u) \/ Unsubscribe(s, u)
      PROVE  Held(t, p, y)'
  <2>1. Announce("sub", u, s) \in Frames /\ Announce("unsub", u, s) \in Frames
    BY FramesMade
  <2>2. routes' = routes
    BY <1>9 DEF Subscribe, Unsubscribe
  <2>3. CASE Subscribe(s, u)
    <3>1. Sent(s, Nbrs(s), Announce("sub", u, s), chan) /\ Announce("sub", u, s).kind = "sub"
      BY <2>3 DEF Subscribe, Announce
    <3>. QED BY <1>8, <2>1, <2>2, <3>1
  <2>4. CASE Unsubscribe(s, u)
    BY <1>8, <2>1, <2>2, <2>4 DEF Unsubscribe
  <2>. QED BY <1>9, <2>3, <2>4
<1>10. ASSUME NEW s \in Sites, NEW u \in Topics, NEW d \in Dests, Publish(s, u, d)
       PROVE  Held(t, p, y)'
  <2>. PICK f : f = Data(u, d, published + 1)
    OBVIOUS
  <2>1. published + 1 \in DataIds
    BY <1>1, <1>10, BoundsAssumption DEF Publish, DataIds, TypeInv, TypeOK
  <2>2. f \in Frames /\ f.kind = "data"
    BY <2>1, FramesMade DEF Data
  <2>3. Sent(s, Nbrs(s), f, chan) /\ routes' = routes
    BY <1>10 DEF Publish
  <2>. QED BY <1>8, <2>2, <2>3
\* A router's frame: a withdrawal, only where it has no demand left.
<1>11. ASSUME NEW r \in Sites, NEW i \in Sites, NEW f \in Frames, f = Incoming(r, i),
              Arrived(r, i, f.kind), NEW targets, targets \subseteq Nbrs(r),
              chan' = Received(r, i) \/ Sent(r, targets, f, Received(r, i)),
              f.kind = "unsub" /\ chan' # Received(r, i) => ~ HasTopic(routes'[r], f.topic),
              \A q \in Sites : \A e \in routes[q] :
                 \/ e \in routes'[q]
                 \/ q = r /\ f.kind = "unsub" /\ e = Route(f.topic, i, f.remote)
       PROVE  Held(t, p, y)'
  <2>1. /\ f \in InFlight(chan, <<i, r>>) /\ <<i, r>> \in Links
        /\ \A l \in Links : \A g \in InFlight(chan', l) :
              g \in InFlight(chan, l) \/ (g = f /\ l[1] = r)
    BY <1>2, <1>11, PolledFrames
  <2>2. \A l \in Links : InFlight(Received(r, i), l) \subseteq InFlight(chan, l)
    BY <1>2, <1>11, ReceivedFrames
  <2>3. \A a, b \in Sites : Between(a, b, p, y) =>
           IF b = y THEN Route(t, y, y) \in routes'[a] ELSE HasAnyRoute(routes'[a], t, b)
    BY <1>5, <1>11, <2>1
  <2>4. ASSUME NEW a \in Sites, NEW b \in Sites, Between(a, b, p, y), b # y,
               NEW g \in InFlight(chan', <<b, a>>), g \notin InFlight(chan, <<b, a>>),
               IsWithdrawal(g, t)
        PROVE  FALSE
    <3>1. <<b, a>> \in Links
      BY <1>7, <2>4
    <3>2. g = f /\ b = r
      BY <2>1, <2>4, <3>1
    <3>3. chan' # Received(r, i)
      BY <2>2, <2>4, <3>1 DEF InFlight
    <3>4. ~ HasTopic(routes'[b], t)
      BY <1>11, <2>4, <3>2, <3>3 DEF IsWithdrawal
    <3>5. PICK n \in Sites : Between(b, n, p, y)
      BY <1>4, <2>4
    <3>6. HasTopic(routes'[b], t)
      BY <2>3, <3>5 DEF HasTopic, HasAnyRoute, Route
    <3>. QED BY <3>4, <3>6
  <2>. QED BY <1>6, <2>3, <2>4
<1>12. ASSUME NEW r \in Sites, NEW i \in Sites, Poll(r, i)
       PROVE  Held(t, p, y)'
  <2>. PICK f : f = Incoming(r, i)
    OBVIOUS
  <2>1. CASE PollSubscribe(r, i)
    <3>. PICK targets : targets =
              ReemitTo(AddRoute(routes[r], Route(f.topic, i, f.remote)), r, i, f.topic)
      OBVIOUS
    <3>1. /\ Arrived(r, i, "sub")
          /\ routes' = [routes EXCEPT ![r] = AddRoute(@, Route(f.topic, i, f.remote))]
          /\ chan' = Received(r, i) \/ Sent(r, targets, f, Received(r, i))
      BY <2>1 DEF PollSubscribe
    <3>2. f \in Frames /\ f.kind = "sub"
      BY <1>2, <3>1, ReceivedFrames
    <3>3. targets \subseteq Nbrs(r)
      BY DEF ReemitTo
    <3>4. \A q \in Sites : routes[q] \subseteq routes'[q]
      BY <1>2, <3>1 DEF AddRoute
    <3>. QED BY <1>11, <3>1, <3>2, <3>3, <3>4
  <2>2. CASE PollUnsubscribe(r, i)
    <3>. PICK route : route = Route(f.topic, i, f.remote)
      OBVIOUS
    <3>. PICK left : left = routes[r] \ {route}
      OBVIOUS
    <3>. PICK targets : targets = Nbrs(r) \ {i}
      OBVIOUS
    <3>1. /\ Arrived(r, i, "unsub") /\ routes' = [routes EXCEPT ![r] = left]
          /\ IF route \in routes[r] /\ ~HasTopic(left, f.topic)
             THEN Sent(r, targets, f, Received(r, i)) ELSE chan' = Received(r, i)
      BY <2>2 DEF PollUnsubscribe, RemoveRoute
    <3>2. f \in Frames /\ f.kind = "unsub"
      BY <1>2, <3>1, ReceivedFrames
    <3>3. \A q \in Sites : \A e \in routes[q] : e \in routes'[q] \/ (q = r /\ e = route)
      BY <1>2, <3>1
    <3>4. routes'[r] = left
      BY <1>2, <3>1
    <3>5. targets \subseteq Nbrs(r)
      OBVIOUS
    <3>. QED BY <1>11, <3>1, <3>2, <3>3, <3>4, <3>5
  <2>3. CASE PollData(r, i)
    <3>. PICK targets : targets = ForwardTo(routes[r], r, i, f.topic)
      OBVIOUS
    <3>1. /\ Arrived(r, i, "data") /\ routes' = routes
          /\ Sent(r, targets, f, Received(r, i))
      BY <2>3 DEF PollData
    <3>2. f \in Frames /\ f.kind = "data"
      BY <1>2, <3>1, ReceivedFrames
    <3>3. targets \subseteq Nbrs(r)
      BY DEF ForwardTo
    <3>. QED BY <1>11, <3>1, <3>2, <3>3
  <2>. QED BY <1>12, <2>1, <2>2, <2>3 DEF Poll
<1>13. CASE UNCHANGED vars
  BY <1>13 DEF vars, Held, HasAnyRoute, InFlight, IsWithdrawal, Route, Between, Beyond
<1>. QED BY <1>9, <1>10, <1>12, <1>13 DEF Next

(* Withdrawals are never premature: in a loss-free tree of any size and    *)
(* shape, with room in the tables, publications from p keep reaching a     *)
(* subscriber that stays, once they did and whenever announcements have    *)
(* settled, while end nodes come and go in any order.                      *)
THEOREM MeshStayersStayReached == Spec => StayersStayReached
<1>. DEFINE InTree == LossFreeTree /\ \A s \in Leavers : EndNode(s)
<1>1. StayInv /\ [Next]_vars => StayInv'
  BY NextStay
<1>2. InTree => InTree'
  BY DEF LossFreeTree, Forest, Beyond, Demands, EndNode, Nbrs
<1>3. ASSUME NEW CONSTANT t \in Topics, NEW CONSTANT p \in Publishers,
             NEW CONSTANT y \in Sites \ Leavers, p # y
      PROVE  Spec => (InTree => [](Quiet /\ t \in wants[y] /\ Reaches(routes, p, t, y)
                                     => [](Quiet => Reaches(routes, p, t, y))))
  <2>. DEFINE Reached == Reaches(routes, p, t, y)
              Wanted == t \in wants[y]
              Holds == Held(t, p, y)
  <2>0. p \in Sites
    BY PublishersAssumption
  <2>1. InTree /\ StayInv /\ Quiet /\ Wanted /\ Reached => Holds
    BY <2>0, ReachedIsHeld
  <2>2. InTree /\ StayInv /\ Holds /\ [Next]_vars => Holds'
    BY <2>0, NextHeld
  <2>3. InTree /\ Holds => Reached
    BY <1>3, <2>0, HeldReaches
  <2>. HIDE DEF InTree, Reached, Wanted, Holds
  <2>4. Spec => (InTree => [](Quiet /\ Wanted /\ Reached => [](Quiet => Reached)))
    BY <1>1, <1>2, <2>1, <2>2, <2>3, InitStay, PTL DEF Spec
  <2>. QED BY <2>4 DEF Reached, Wanted
<1>. QED BY <1>3 DEF StayersStayReached
===============================================================================
