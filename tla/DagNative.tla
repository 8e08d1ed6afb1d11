------------------------------- MODULE DagNative -------------------------------
(***************************************************************************)
(* The native DAG server (hil/native-server/src/lib.rs) over dag-runtime's *)
(* DagExecutor.  The handlers take the state's mutex for their whole       *)
(* length, so each is one action.  Ticks read from NullChannels and        *)
(* NullPubSub, and write to maps that nothing limits or clears.            *)
(***************************************************************************)
EXTENDS DagEval

CONSTANTS Dbg   \* Dbg[i]: the topic _dbg/<i>

VARIABLES
    dag, loaded, values, tick_count,    \* the executor's
    debug_mode,
    channels,           \* MapChannels: the outputs
    pubsub,             \* SimplePubSub: the publishes
    pubsub_snapshot,    \* what /api/pubsub shows
    fed                 \* history: has a tick's program subscribed to a topic
                        \* with a value in the snapshot?

nativeVars == <<dag, loaded, values, tick_count, debug_mode,
                channels, pubsub, pubsub_snapshot, fed>>

NativeInit ==
    /\ dag = << >> /\ loaded = FALSE /\ values = << >> /\ tick_count = 0
    /\ debug_mode = FALSE
    /\ channels = NullChannels
    /\ pubsub = NullPubSub /\ pubsub_snapshot = NullPubSub
    /\ fed = FALSE

\* post_dag: load_cbor ...
NativeDeploy(upload) ==
    /\ Decodes(upload)
    /\ dag' = upload.ops /\ loaded' = TRUE
    /\ values' = [i \in DOMAIN upload.ops |-> 0]
    /\ tick_count' = 0
    /\ UNCHANGED <<debug_mode, channels, pubsub, pubsub_snapshot, fed>>

\* ... which leaves everything alone when it fails.
NativeReject(upload) == ~Decodes(upload) /\ UNCHANGED nativeVars

\* post_tick, with a program ...
NativeTick ==
    /\ loaded
    /\ LET new == Evaluate(dag, NullPubSub, NullChannels, values)
           writes == Emitted(dag, "Publish", new)
           dbg == IF debug_mode
                  THEN [i \in DOMAIN dag |-> [name |-> Dbg[i], v |-> new[i]]]
                  ELSE << >>
       IN  /\ values' = new
           /\ channels' = InsertAll(channels, Emitted(dag, "Output", new))
           /\ pubsub' = InsertAll(pubsub, writes)
           /\ pubsub_snapshot' = InsertAll(pubsub_snapshot, writes \o dbg)
    /\ tick_count' = tick_count + 1
    /\ fed' = (fed \/ \E t \in Reads(dag) : Lookup(pubsub_snapshot, t) # 0)
    /\ UNCHANGED <<dag, loaded, debug_mode>>

\* ... and without.
NativeTickUnloaded == ~loaded /\ UNCHANGED nativeVars

NativeDebug ==
    /\ debug_mode' = ~debug_mode
    /\ UNCHANGED <<dag, loaded, values, tick_count,
                   channels, pubsub, pubsub_snapshot, fed>>
================================================================================
