------------------------------- MODULE DagServers -------------------------------
(***************************************************************************)
(* One client drives the firmware's DAG server and the native one with the *)
(* same requests.  ``Provides the same REST + WebSocket API as the Pico2   *)
(* firmware'' says native-server/src/lib.rs:3; here is what that comes to. *)
(* A SimState (dag-core/src/eval.rs), the browser's simulation of the same *)
(* program, is the reference for what the firmware computes.               *)
(***************************************************************************)
EXTENDS DagEval

CONSTANTS
    MaxNodes, MaxTopics, LongNames, Shown, Dbg,   \* see DagFirmware
    Uploads,      \* the bodies that clients post
    MaxDeploys,   \* bound: uploads that decode
    MaxRun,       \* bound: ticks of one program
    MaxDebugs     \* bound: switches of debug mode

\* Bodies are sequences of ops, and every index of the buffer has a topic.
ASSUME DagServersAssumption ==
    /\ MaxNodes \in Nat /\ MaxTopics \in Nat
    /\ 1..MaxNodes \subseteq DOMAIN Dbg
    /\ \A u \in Uploads : /\ Len(u.ops) \in Nat /\ DOMAIN u.ops = 1..Len(u.ops)
                          /\ \A i \in DOMAIN u.ops : IsOp(u.ops[i])

VARIABLES
    dag, loaded, values, tick_count, debug_mode, pubsub_topics, halted,
    since, mixed, refused, skipped,
    n_dag, n_loaded, n_values, n_tick_count, n_debug_mode,
    n_channels, n_pubsub, n_snapshot, fed,
    deploys, ticks, debugs    \* history: requests made, ticks of this program

INSTANCE DagFirmware

N == INSTANCE DagNative WITH
        dag <- n_dag, loaded <- n_loaded, values <- n_values,
        tick_count <- n_tick_count, debug_mode <- n_debug_mode,
        channels <- n_channels, pubsub <- n_pubsub, pubsub_snapshot <- n_snapshot

nVars == <<n_dag, n_loaded, n_values, n_tick_count, n_debug_mode,
           n_channels, n_pubsub, n_snapshot, fed>>
requests == <<deploys, ticks, debugs>>
serversVars == <<fwVars, nVars, requests>>

ServersInit ==
    /\ FwInit /\ N!NativeInit
    /\ deploys = 0 /\ ticks = 0 /\ debugs = 0

-------------------------------------------------------------------------------
(* The requests.                                                           *)

Deploy(upload) ==
    /\ deploys < MaxDeploys
    /\ Decodes(upload)
    /\ FwDeploy(upload) \/ FwDead
    /\ N!NativeDeploy(upload)
    /\ deploys' = deploys + 1 /\ ticks' = 0
    /\ UNCHANGED debugs

Reject(upload) ==
    /\ FwReject(upload) \/ (FwDead /\ ~Decodes(upload))
    /\ N!NativeReject(upload)
    /\ UNCHANGED requests

Tick ==
    /\ ticks < MaxRun
    /\ FwTick \/ FwTickSkipped \/ FwTickUnloaded \/ FwDead
    /\ N!NativeTick \/ N!NativeTickUnloaded
    /\ ticks' = ticks + 1
    /\ UNCHANGED <<deploys, debugs>>

Debug ==
    /\ debugs < MaxDebugs
    /\ FwDebug \/ FwDead
    /\ N!NativeDebug
    /\ debugs' = debugs + 1
    /\ UNCHANGED <<deploys, ticks>>

GetPubsub == (FwGetPubsub \/ FwDead) /\ UNCHANGED nVars /\ UNCHANGED requests

ServersNext ==
    \/ \E u \in Uploads : Deploy(u) \/ Reject(u)
    \/ Tick
    \/ Debug
    \/ GetPubsub

ServersSpec == ServersInit /\ [][ServersNext]_serversVars

-------------------------------------------------------------------------------
(* SimState: a fresh one of the same program after n ticks.                *)
SimTick(d, sim) ==
    LET new == Evaluate(d, sim.pubsub, NullChannels, sim.values)
    IN  [values |-> new,
         pubsub |-> InsertAll(sim.pubsub, Emitted(d, "Publish", new))]
SimAfter(d, n) ==
    LET run[k \in 0..n] ==
            IF k = 0
            THEN [values |-> [i \in DOMAIN d |-> 0], pubsub |-> NullPubSub]
            ELSE SimTick(d, run[k - 1])
    IN  run[n]

-------------------------------------------------------------------------------
(* The firmware computes what the browser simulates: its ticks, and the    *)
(* topics written since the program was loaded, are those of a fresh       *)
(* SimState of that program (dag_handler.rs:129, eval.rs:125), unless a    *)
(* subscription found a topic that an earlier program left behind, an      *)
(* insert or a whole tick was dropped for want of room, or the program has *)
(* a topic with the name of one of debug mode.                             *)
DebugNames == { Dbg[i] : i \in DOMAIN Dbg }
OwnTopics(d) ==
    \A i \in DOMAIN d : d[i].op \in {"Subscribe", "Publish"} => d[i].name \notin DebugNames
FirmwareFollowsSim ==
    ~mixed /\ ~refused /\ ~skipped /\ OwnTopics(dag) =>
        LET sim == SimAfter(dag, tick_count)
        IN  /\ since \ DebugNames = DOMAIN sim.pubsub
            /\ \A t \in DOMAIN sim.pubsub : pubsub_topics[t] = sim.pubsub[t]

(* The two servers show the same: status and topics agree after the same   *)
(* requests as long as the board is up, nothing was dropped, and no        *)
(* program has subscribed to a topic with a value, which only the firmware *)
(* would have seen (lib.rs:141 against dag_handler.rs:129).                *)
ServersAgree ==
    ~halted /\ ~refused /\ ~skipped /\ ~fed =>
        /\ dag = n_dag /\ loaded = n_loaded /\ tick_count = n_tick_count
        /\ debug_mode = n_debug_mode
        /\ pubsub_topics = n_snapshot
================================================================================
