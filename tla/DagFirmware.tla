------------------------------ MODULE DagFirmware ------------------------------
(***************************************************************************)
(* DagApiHandler, the DAG server of the Pico 2                             *)
(* (hil/board-support-pico2/src/dag_handler.rs): one action per request    *)
(* that changes its state.                                                 *)
(*                                                                         *)
(* pubsub_topics is a map of limited size with short keys; inserts that do *)
(* not fit are dropped silently.  Requests are answered one at a time.     *)
(***************************************************************************)
EXTENDS DagEval

CONSTANTS
    MaxNodes,    \* the length of the evaluation buffer, 128
    MaxTopics,   \* the capacity of pubsub_topics, 64
    LongNames,   \* topics of more than 32 bytes
    Shown,       \* topics whose JSON fits the 400 bytes of /api/pubsub
    Dbg          \* Dbg[i]: the topic _dbg/<i>

VARIABLES
    dag,            \* the program, << >> when none is loaded
    loaded,
    values,
    tick_count,
    debug_mode,
    pubsub_topics,
    halted,         \* a panic: the board answers nothing any more
    since,          \* history: topics written since the program was loaded
    mixed,          \* history: has a tick of the program read a topic of an
                    \* earlier one?
    refused,        \* history: has an insert been dropped?
    skipped         \* history: has a tick answered ok and done nothing?

fwVars == <<dag, loaded, values, tick_count, debug_mode, pubsub_topics,
            halted, since, mixed, refused, skipped>>

Zeros == [i \in 1..MaxNodes |-> 0]

FwInit ==
    /\ dag = << >> /\ loaded = FALSE
    /\ values = Zeros /\ tick_count = 0
    /\ debug_mode = FALSE
    /\ pubsub_topics = NullPubSub
    /\ halted = FALSE
    /\ since = {}
    /\ mixed = FALSE /\ refused = FALSE /\ skipped = FALSE

(* insert: a name that is there is updated, a new one taken while there is *)
(* room, a long one never.                                                 *)
Keeps(topics, name) ==
    /\ name \notin LongNames
    /\ name \in DOMAIN topics \/ Cardinality(DOMAIN topics) < MaxTopics
InsertIfKept(topics, w) == IF Keeps(topics, w.name) THEN Insert(topics, w) ELSE topics
InsertKept(topics, writes) == FoldLeft(InsertIfKept, topics, writes)

\* The whole buffer is published, not the program's values only.
FaultyDebugWrites(buffer, count) ==
    [i \in 1..MaxNodes |-> [name |-> Dbg[i], v |-> buffer[i]]]

\* Debug mode's _dbg/<i> topics.
DebugWrites(buffer, count) ==
    [i \in 1..count |-> [name |-> Dbg[i], v |-> buffer[i]]]

\* POST /api/dag, the count of ticks kept.
FaultyFwDeploy(upload) ==
    /\ ~halted /\ Decodes(upload)
    /\ dag' = upload.ops /\ loaded' = TRUE
    /\ values' = Zeros
    /\ since' = {} /\ mixed' = FALSE
    /\ UNCHANGED <<tick_count, debug_mode, pubsub_topics, halted,
                   refused, skipped>>

\* POST /api/dag with an upload that decodes; the topics stay ...
FwDeploy(upload) ==
    /\ ~halted /\ Decodes(upload)
    /\ dag' = upload.ops /\ loaded' = TRUE
    /\ values' = Zeros /\ tick_count' = 0
    /\ since' = {} /\ mixed' = FALSE
    /\ UNCHANGED <<debug_mode, pubsub_topics, halted, refused, skipped>>

\* ... and with one that does not: 400.
FwReject(upload) == ~halted /\ ~Decodes(upload) /\ UNCHANGED fwVars

\* POST /api/tick with a program that fits the buffer ...
FwTick ==
    /\ ~halted /\ loaded /\ Len(dag) <= MaxNodes
    /\ LET new == Evaluate(dag, pubsub_topics, NullChannels, values)
           writes == Emitted(dag, "Publish", new)
                     \o IF debug_mode THEN DebugWrites(new, Len(dag)) ELSE << >>
       IN  /\ values' = new
           /\ pubsub_topics' = InsertKept(pubsub_topics, writes)
           /\ since' = since \union Names(writes)
           /\ refused' = (refused \/ ~(Names(writes) \subseteq DOMAIN pubsub_topics'))
    /\ tick_count' = tick_count + 1
    /\ mixed' = (mixed \/ \E t \in Reads(dag) : t \in DOMAIN pubsub_topics \ since)
    /\ UNCHANGED <<dag, loaded, debug_mode, halted, skipped>>

\* ... with a longer one, which is not evaluated though the answer is ok ...
FwTickSkipped ==
    /\ ~halted /\ loaded /\ Len(dag) > MaxNodes
    /\ skipped' = TRUE
    /\ UNCHANGED <<dag, loaded, values, tick_count, debug_mode, pubsub_topics,
                   halted, since, mixed, refused>>

\* ... and with none: 400.
FwTickUnloaded == ~halted /\ ~loaded /\ UNCHANGED fwVars

FwDebug ==
    /\ ~halted
    /\ debug_mode' = ~debug_mode
    /\ UNCHANGED <<dag, loaded, values, tick_count, pubsub_topics, halted,
                   since, mixed, refused, skipped>>

(* GET /api/pubsub writes the topics to a buffer of fixed size by indexing *)
(* (entries are taken to be equally long): too many of them are a panic.   *)
FwGetPubsub ==
    /\ ~halted
    /\ halted' = (Cardinality(DOMAIN pubsub_topics) > Shown)
    /\ UNCHANGED <<dag, loaded, values, tick_count, debug_mode, pubsub_topics,
                   since, mixed, refused, skipped>>

\* A board that has panicked lets every request time out.
FwDead == halted /\ UNCHANGED fwVars
================================================================================
