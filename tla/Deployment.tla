------------------------------- MODULE Deployment -------------------------------
(***************************************************************************)
(* What becomes of a graph outside the simulator: the logic crate that all *)
(* targets share (codegen-emit/src/emit.rs:382-802); the host program,     *)
(* another one, which runs connected groups of blocks in threads           *)
(* (emit.rs:167, 1213) and has stubs for peripherals; and a graph on       *)
(* several nodes: deployment/src/validate.rs checks a manifest,            *)
(* deployment/src/partition.rs cuts the graph and bridges each channel     *)
(* that crosses nodes with a pubsub_sink and a pubsub_source.              *)
(***************************************************************************)
EXTENDS Dataflow

CONSTANT Nodes

-------------------------------------------------------------------------------
(* The logic crate.                                                        *)

\* Block types for which the logic crate compiles.  Others are refused, and
\* a state machine's function is written under a name that nobody calls.
Generable == {"constant", "gain", "clamp", "add", "multiply", "register"}
                 \union Peripherals

Generates ==
    /\ Sorted(DOMAIN blocks, channels, Delays).ok
    /\ \A id \in DOMAIN blocks : blocks[id].kind \in Generable

DefaultState ==
    [out |-> [key \in UNION { {id} \X OutputPorts(blocks[id]) : id \in DOMAIN blocks } |-> 0],
     reg |-> [id \in Delays |-> blocks[id].initial_value]]

\* An argument: the variable of the port that feeds it, or the default.
Argument(out, id, p) ==
    LET feeds == { c \in channels : c.to = id /\ c.toPort = p }
    IN  IF feeds = {} THEN 0
        ELSE LET c == CHOOSE c \in feeds : TRUE IN out[<<c.from, c.fromPort>>]

\* The snapshot carries a gain as ``gain'' and a clamp's bounds as ``min''
\* and ``max''; the generator asks for ``param1'' and ``param2'', and takes
\* 0 for what it does not find.
ConfigFloat(b, key) == 0

\* The function of a block of pure computation.
Call(b, arg) ==
    CASE b.kind = "constant" -> b.value
      [] b.kind = "gain" -> arg[0] * ConfigFloat(b, "param1")
      [] b.kind = "clamp" -> Max({ConfigFloat(b, "param1"),
                                  Min({ConfigFloat(b, "param2"), arg[0]})})
      [] b.kind = "add" -> arg[0] + arg[1]
      [] b.kind = "multiply" -> arg[0] * arg[1]

\* One block's statements in tick().  acc is [state, hw].
Statement(acc, id) ==
    LET b == blocks[id]
        arg == [p \in InputPorts(b) |-> Argument(acc.state.out, id, p)]
        Assign(v) == [acc EXCEPT !.state.out[<<id, 0>>] = v]
    IN  CASE b.kind = "register" ->
                [acc EXCEPT !.state.out[<<id, 0>>] = acc.state.reg[id],
                            !.state.reg[id] = arg[0]]
          [] b.kind \in Sources -> Assign(SimResults(b, acc.hw)[0])
          [] b.kind \in Sinks -> [acc EXCEPT !.hw = SimWrites(b, arg, acc.hw)]
          [] OTHER -> Assign(Call(b, arg))

ProgramTick(acc) ==
    FoldLeft(Statement, acc, Sorted(DOMAIN blocks, channels, Delays).order)

-------------------------------------------------------------------------------
(* Both started afresh on the same hardware: a simulation and the program. *)

Fresh == [NoPeripherals(Channels) EXCEPT !.adc = hw.adc]
EngineTick(acc) == FoldLeft(Visit, acc, TickOrder)
EngineStart ==
    [outputs |-> << >>, hw |-> Fresh,
     stored |-> [id \in Delays |-> blocks[id].initial_value]]

After(Step(_), start, n) ==
    LET run[k \in 0..n] == IF k = 0 THEN start ELSE Step(run[k - 1]) IN run[n]

(* Where simulation and program agree: every input is driven, no parameter *)
(* is lost, and a register that starts with a value finds its input ahead  *)
(* of it in the order.                                                     *)
Position(id) == CHOOSE i \in DOMAIN TickOrder : TickOrder[i] = id
Plain ==
    /\ \A id \in DOMAIN blocks :
          /\ blocks[id].kind \notin {"gain", "clamp"}
          /\ \A p \in InputPorts(blocks[id]) : Driven(id, p)
    /\ \A c \in channels : c.to \in Delays /\ blocks[c.to].initial_value # 0 =>
          Position(c.from) < Position(c.to)

Agree(n) ==
    LET program == After(ProgramTick, [state |-> DefaultState, hw |-> Fresh], n)
        engine == After(EngineTick, EngineStart, n)
    IN  /\ engine.hw = program.hw
        /\ engine.outputs = program.state.out
Runs == simulation_mode \/ \A id \in DOMAIN blocks : blocks[id].kind \notin Peripherals

-------------------------------------------------------------------------------
(* The host program, generate_rust.                                        *)

\* Blocks for which it has a function that is no stub.
Computations == {"constant", "gain", "clamp", "add", "multiply"}

\* The orders in which threads can run the groups' blocks.
Interleavings(groups) ==
    { order \in SetToSeqs(DOMAIN blocks) : \A g \in DOMAIN groups :
          SelectSeq(order, LAMBDA id : id \in Range(groups[g])) = groups[g] }

\* One loop of main: a thread for each group if there are several.
HostOrders ==
    LET groups == ParallelGroups(DOMAIN blocks, channels).groups
    IN  IF Len(groups) >= 2 THEN Interleavings(groups)
        ELSE {Sorted(DOMAIN blocks, channels, Delays).order}
HostLoop(acc, order) == FoldLeft(Statement, acc, order)

(* Threads may take turns as they like: every block is in one group, no    *)
(* channel joins two groups, and within a group every block comes after    *)
(* all that feed it (``can safely execute in parallel'', concurrency.rs:25);*)
(* and where the host program has no stubs and loses no parameter, every   *)
(* loop shows what the simulation shows.                                   *)
GroupsIndependent ==
    LET found == ParallelGroups(DOMAIN blocks, channels)
        groups == found.groups
    IN  found.ok =>
            /\ IsInjective(FlattenSeq(groups)) /\ Range(FlattenSeq(groups)) = DOMAIN blocks
            /\ \A c \in channels : \E g \in DOMAIN groups :
                  \E i, j \in DOMAIN groups[g] :
                      i < j /\ groups[g][i] = c.from /\ groups[g][j] = c.to
HostAgrees ==
    LET start == [state |-> DefaultState, hw |-> Fresh]
        Simulated(n) == After(EngineTick, EngineStart, n).outputs
    IN  \A first, second \in HostOrders :
            /\ HostLoop(start, first).state.out = Simulated(1)
            /\ HostLoop(HostLoop(start, first), second).state.out = Simulated(2)
HostFollows ==
    /\ GroupsIndependent
    /\ /\ Plain /\ ParallelGroups(DOMAIN blocks, channels).ok
       /\ \A id \in DOMAIN blocks : blocks[id].kind \in Computations
       => HostAgrees


-------------------------------------------------------------------------------
(* Several nodes.                                                          *)

\* check_all_blocks_assigned and check_topology_coverage: the errors found.
Unassigned(assignments) == DOMAIN blocks \ DOMAIN assignments
Crossing(assignments) ==
    { c \in channels : /\ {c.from, c.to} \subseteq DOMAIN assignments
                       /\ assignments[c.from] # assignments[c.to] }
Unlinked(assignments, links) ==
    { c \in Crossing(assignments) :
        /\ <<assignments[c.from], assignments[c.to]>> \notin links
        /\ <<assignments[c.to], assignments[c.from]>> \notin links }
Valid(assignments, links) ==
    Unassigned(assignments) = {} /\ Unlinked(assignments, links) = {}

\* The topic that stands for an output port.
Topic(c) == <<c.from, c.fromPort>>

(* Each crossing channel gets a sink and a source of fresh ids, in the     *)
(* order of the channels.                                                  *)
FaultyBridges(assignments) ==    \* the id is not advanced for the source
    LET crossing == SetToSeq(Crossing(assignments))
        base == Max(DOMAIN blocks) + 1000
    IN  [i \in DOMAIN crossing |->
            [sink |-> base + (i - 1), source |-> base + i,
             topic |-> Topic(crossing[i]), channel |-> crossing[i]]]
Bridges(assignments) ==
    LET crossing == SetToSeq(Crossing(assignments))
        base == Max(DOMAIN blocks) + 1000
    IN  [i \in DOMAIN crossing |->
            [sink |-> base + 2 * (i - 1), source |-> base + 2 * (i - 1) + 1,
             topic |-> Topic(crossing[i]), channel |-> crossing[i]]]

\* partition_graph goes ahead: not EmptyGraph, not UnassignedBlock.
Cuts(assignments) == blocks # << >> /\ Unassigned(assignments) = {}

Intra(assignments, node) ==
    { c \in channels : assignments[c.from] = node /\ assignments[c.to] = node }

\* One target's subgraph: its blocks with the topics of the bridges' ends,
\* and its channels.
Part(assignments, node) ==
    LET bridges == Range(Bridges(assignments))
        sinks == { b \in bridges : assignments[b.channel.from] = node }
        sources == { b \in bridges : assignments[b.channel.to] = node }
    IN  [ids |-> { id \in DOMAIN blocks : assignments[id] = node },
         sinks |-> { <<b.sink, b.topic>> : b \in sinks },
         sources |-> { <<b.source, b.topic>> : b \in sources },
         channels |->
            Intra(assignments, node)
              \union { [b.channel EXCEPT !.to = b.sink, !.toPort = 0] : b \in sinks }
              \union { [b.channel EXCEPT !.from = b.source, !.fromPort = 0] : b \in sources }]

-------------------------------------------------------------------------------
Manifests == UNION { [S -> Nodes] : S \in SUBSET DOMAIN blocks }
LinkSets == SUBSET { pair \in Nodes \X Nodes : pair[1] # pair[2] }

AllIds(part) == part.ids \union { e[1] : e \in part.sinks \union part.sources }

\* The channels that parts and topics amount to.
Rejoined(parts) ==
    LET all == UNION { p.channels : p \in parts }
        sinks == UNION { p.sinks : p \in parts }
        sources == UNION { p.sources : p \in parts }
        ends == { e[1] : e \in sinks \union sources }
        Joined(in, out) == [from |-> in.from, fromPort |-> in.fromPort,
                            to |-> out.to, toPort |-> out.toPort]
    IN  { c \in all : c.from \notin ends /\ c.to \notin ends } \union
        UNION { { Joined(in, out) : in \in { c \in all : c.to = pair[1][1] },
                                    out \in { c \in all : c.from = pair[2][1] } }
                : pair \in { q \in sinks \X sources : q[1][2] = q[2][2] } }

(* A manifest without errors cuts into graphs that together are the graph: *)
(* no id is used twice, a target's channels stay on it, what publishers    *)
(* and subscribers of the topics exchange is what the channels carried, no *)
(* more and no less, and every bridge has a link (partition.rs:56,         *)
(* validate.rs:31).  The graphs not yet ticked are all the graphs.         *)
PartsRejoin(assignments) ==
    LET parts == [n \in Nodes |-> Part(assignments, n)]
    IN  /\ \A n, m \in Nodes : n # m => AllIds(parts[n]) \intersect AllIds(parts[m]) = {}
        /\ \A n \in Nodes : \A c \in parts[n].channels :
              {c.from, c.to} \subseteq AllIds(parts[n])
        /\ Rejoined({ parts[n] : n \in Nodes }) = channels
BridgesLinked(assignments, links) ==
    \A b \in Range(Bridges(assignments)) : \E pair \in links :
        {pair[1], pair[2]} = {assignments[b.channel.from], assignments[b.channel.to]}
DeploymentRejoins ==
    tick_count = 0 /\ ~attached =>
        \A assignments \in Manifests :
            /\ Cuts(assignments) => PartsRejoin(assignments)
            /\ \A links \in LinkSets :
                  Valid(assignments, links) /\ blocks # << >> =>
                      Cuts(assignments) /\ BridgesLinked(assignments, links)
================================================================================
