---------------------------------- MODULE Topo ----------------------------------
(***************************************************************************)
(* The orders in which blocks run (codegen-emit/src/topo.rs) and the       *)
(* groups that may run in parallel (codegen-emit/src/concurrency.rs).      *)
(* Channels are records [from, fromPort, to, toPort]; ids are numbers.     *)
(***************************************************************************)
EXTENDS Naturals, Sequences, FiniteSets, SequencesExt

\* The members of S in ascending order.
SortIds(S) ==
    CHOOSE s \in [1..Cardinality(S) -> S] : \A i, j \in DOMAIN s : i < j => s[i] < s[j]

\* The channels that order blocks: those into a delay block do not.
FaultyDependencies(ids, channels, delays) ==    \* those out of one do not
    { c \in channels : c.from \in ids \ delays /\ c.to \in ids }
Dependencies(ids, channels, delays) ==
    { c \in channels : c.from \in ids /\ c.to \in ids \ delays }

\* The first n elements of a queue.
Popped(queue, n) == { queue[i] : i \in 1..n }

\* The blocks that have to run before id.
Feeders(deps, id) == { c.from : c \in { d \in deps : d.to = id } }

\* The blocks whose last feeder is the n-th one popped.
Readied(ids, deps, queue, n) ==
    { id \in ids : /\ queue[n] \in Feeders(deps, id)
                   /\ Feeders(deps, id) \subseteq Popped(queue, n) }

(* Kahn's algorithm with a FIFO queue.  Queues[n] is everything queued     *)
(* after n pops, the popped first: it is both the queue and the result.    *)
(* The answer is an error when blocks on a cycle never get in.             *)
Queues(ids, deps) ==
    LET queues[n \in 0..Cardinality(ids)] ==
            IF n = 0 THEN SortIds({ id \in ids : Feeders(deps, id) = {} })
            ELSE LET before == queues[n - 1]
                 IN  IF n > Len(before) THEN before
                     ELSE before \o SortIds(Readied(ids, deps, before, n))
    IN  queues

Sorted(ids, channels, delays) ==
    LET queues == Queues(ids, Dependencies(ids, channels, delays))
        result == queues[Cardinality(ids)]
    IN  [ok |-> Len(result) = Cardinality(ids), order |-> result]

-------------------------------------------------------------------------------
\* The blocks that channels connect to id, in either direction.
FaultyComponent(ids, channels, id) ==    \* channels followed forwards only
    LET Closed(S) == \A c \in channels : c.from \in S => c.to \in S
    IN  { other \in ids : \A S \in SUBSET ids : id \in S /\ Closed(S) => other \in S }
Component(ids, channels, id) ==
    LET Closed(S) == \A c \in channels : c.from \in S <=> c.to \in S
    IN  { other \in ids : \A S \in SUBSET ids : id \in S /\ Closed(S) => other \in S }

(* Connected components, each in an order of its own, by their first block; *)
(* an error as soon as one has a cycle, through a delay block or not: the  *)
(* sort is told of no delay blocks.                                        *)
ParallelGroups(ids, channels) ==
    LET components == { Component(ids, channels, id) : id \in ids }
        Order(S) == Sorted(S, channels, {})
        orders == { Order(S).order : S \in components }
        ByFirst(g, h) == g[1] < h[1]
    IN  IF \A S \in components : Order(S).ok
        THEN [ok |-> TRUE, groups |-> SetToSortSeq(orders, ByFirst)]
        ELSE [ok |-> FALSE, groups |-> << >>]
================================================================================
