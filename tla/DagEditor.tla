------------------------------- MODULE DagEditor -------------------------------
(***************************************************************************)
(* The DAG editor of combined-frontend: graph_state.rs (the canvas, wires, *)
(* projects in the browser's storage) and components/dag/editor.rs (what   *)
(* the mouse, the keys and the buttons do, and the simulation of the       *)
(* canvas).  The browser runs one handler at a time; the order is free.    *)
(*                                                                         *)
(* Positions, telemetry frames and status texts are left out.  The effect  *)
(* that auto-saves runs with the handler that bumped the revision.  Block  *)
(* ids are counted as in the code, 0 standing for None.                    *)
(***************************************************************************)
EXTENDS BlockSets

CONSTANTS
    WireTopic(_, _),   \* "wire_{block}_{port}"
    ProjectName(_),    \* "project {n}"
    Palette,           \* block types a user adds
    Texts, Numbers,    \* what a user types into a configuration
    Saves,             \* names a user saves under
    Profiles,          \* deployments a user sets up
    Inputs,            \* what panel widgets may write: functions of topics
    Stored, Kept,      \* what earlier sessions left in the storage: projects,
                       \* and auto-saves
    MaxEdits, MaxTicks, MaxTimers

\* The fields of a type's configuration that hold names.
TextFields(type) ==
    CASE type = "constant" -> {"publish_topic"}
      [] type = "subscribe" -> {"topic"}
      [] type \in {"adc", "pwm"} -> {"channel_name"}
      [] type \in {"gain", "clamp", "negate", "map_scale", "lowpass", "publish"} ->
            {"input_topic", "output_topic"}
      [] type \in {"add", "multiply", "subtract"} ->
            {"input_a_topic", "input_b_topic", "output_topic"}
      [] type = "pid" -> {"setpoint_topic", "feedback_topic", "output_topic"}
      [] type = "pubsub_bridge" -> {"subscribe_topic", "publish_topic"}
      [] type = "i2c_mux" -> {"bus_topic", "select_topic"}

IsBlock(b) ==
    /\ b = [id |-> b.id, type |-> b.type, text |-> b.text, num |-> b.num]
    /\ b.id \in Nat \ {0}
    /\ b.type \in BlockTypes
    /\ b.text = [field \in TextFields(b.type) |-> b.text[field]]
    /\ b.type = "i2c_mux" => b.num \in [{"num_channels"} -> Int]

\* The ids of a snapshot are its own, and below the next to be given.
FreshIn(s) ==
    /\ \A i \in DOMAIN s.blocks : s.blocks[i].id < s.next_id
    /\ \A i, j \in DOMAIN s.blocks : s.blocks[i].id = s.blocks[j].id => i = j

IsSnapshot(s) ==
    /\ s = [blocks |-> s.blocks, next_id |-> s.next_id]
    /\ s.blocks \in Seq(Range(s.blocks)) /\ s.next_id \in Nat \ {0}
    /\ \A i \in DOMAIN s.blocks : IsBlock(s.blocks[i])
    /\ FreshIn(s)

Blank == [blocks |-> << >>, next_id |-> 1]

\* What a canvas of this session can have begun as.
Starts == Kept \union Range(Stored) \union {Blank}

(* Earlier sessions left what StoreSound says of this one, and the name of *)
(* a wire, of any block there can be, is a name.                           *)
ASSUME EditorAssumption ==
    /\ Palette \subseteq {"constant", "add", "subtract", "negate", "gain", "pwm"}
    /\ Numbers \subseteq Int /\ MaxEdits \in Nat
    /\ \A s \in Starts : IsSnapshot(s)
    /\ \A s \in Starts : \A id \in 1..(s.next_id + MaxEdits) : WireTopic(id, 0) # NoTopic

VARIABLES
    blocks, next_id, selected,
    sel_edge,          \* the clicked edge's source <<block, port>>, or << >>
    project,           \* project_name, "" for None
    storage, autosave, \* localStorage: snapshots by project name, and one more
    sim,               \* SIM: "none", "live", "stuck" (a panic kept the borrow)
    sim_len,           \* nodes its buffer has room for
    sim_tick, sim_topics,
    running, timers,   \* sim_running, and intervals started
    external,          \* external_inputs
    edits

canvas == <<blocks, next_id>>
choice == <<selected, sel_edge>>
stores == <<project, storage, autosave>>
clock  == <<sim, sim_len, sim_tick, sim_topics, running, timers>>
vars == <<canvas, choice, stores, clock, external, edits>>

Silence == [topic \in {} |-> 0]

\* The blocks but the one with an id.
Without(bs, id) ==
    LET kept[n \in 0..Len(bs)] ==
            IF n = 0 THEN << >>
            ELSE IF bs[n].id = id THEN kept[n - 1] ELSE Append(kept[n - 1], bs[n])
    IN  kept[Len(bs)]

Ids == { blocks[i].id : i \in DOMAIN blocks }
At(id) == CHOOSE i \in DOMAIN blocks : blocks[i].id = id
Block(id) == blocks[At(id)]

-------------------------------------------------------------------------------
(* Ports and wires.                                                        *)

\* channel_at for every index: the channels of one direction, in order.
Ports(b, dir) == Reconstruct(b).channels[dir]

PortsOf(dir) ==
    UNION { {blocks[i].id} \X (0..Len(Ports(blocks[i], dir)) - 1) : i \in DOMAIN blocks }

PortAt(port, dir) == Ports(Block(port[1]), dir)[port[2] + 1]

\* The edges the canvas draws, from <<block, output>> to <<block, input>>.
Edges ==
    { e \in PortsOf("out") \X PortsOf("in") :
        /\ e[1][1] # e[2][1]
        /\ PortAt(e[1], "out").name = PortAt(e[2], "in").name }

\* serde_json keeps keys in alphabetical order.
Keys == <<"bus_topic", "channel_name", "feedback_topic", "input_a_topic",
          "input_b_topic", "input_topic", "output_topic", "publish_topic",
          "select_topic", "setpoint_topic", "subscribe_topic", "topic">>

\* The places of b's keys whose value is the channel's name; the first is found.
KeysFor(b, name) ==
    { i \in DOMAIN Keys : Keys[i] \in DOMAIN b.text /\ b.text[Keys[i]] = name }

HasKey(b, name) == KeysFor(b, name) # {}
Renamed(b, name, topic) == [b EXCEPT !.text[Keys[Min(KeysFor(b, name))]] = topic]

\* The name of the port only.
FaultyAutoTopic(f, fp) == WireTopic(0, fp)

AutoTopic(f, fp) == WireTopic(f, fp)

-------------------------------------------------------------------------------
(* The canvas.                                                             *)

Edit == edits < MaxEdits /\ edits' = edits + 1

\* bump_revision, and the effect that auto-saves.
Bump == autosave' = [blocks |-> blocks', next_id |-> next_id']

PlaceBlock(type) ==
    /\ Edit
    /\ blocks' = Append(blocks, [id |-> next_id, type |-> type,
                                 text |-> Default(type).text, num |-> Default(type).num])
    /\ next_id' = next_id + 1
    /\ selected' = next_id
    /\ UNCHANGED <<sel_edge, project, storage, clock, external>>
    /\ Bump

\* update_config, from a text field or from a number field.
Configure(b) ==
    /\ Edit
    /\ blocks' = [blocks EXCEPT ![At(selected)] = b]
    /\ UNCHANGED <<next_id, choice, project, storage, clock, external>>
    /\ Bump

UpdateConfig ==
    /\ selected \in Ids
    /\ LET b == Block(selected)
       IN  \/ \E k \in DOMAIN b.text, s \in Texts : Configure([b EXCEPT !.text[k] = s])
           \/ \E k \in DOMAIN b.num, n \in Numbers : Configure([b EXCEPT !.num[k] = n])

\* Nothing can follow from a click once the edits are used up.
ClickBlock(id) ==
    /\ edits < MaxEdits
    /\ selected' = id /\ sel_edge' = << >>
    /\ UNCHANGED <<canvas, stores, clock, external, edits>>

ClickEdge(e) ==
    /\ edits < MaxEdits
    /\ sel_edge' = e[1] /\ selected' = 0
    /\ UNCHANGED <<canvas, stores, clock, external, edits>>

ClickCanvas ==
    /\ edits < MaxEdits
    /\ selected' = 0 /\ sel_edge' = << >>
    /\ UNCHANGED <<canvas, stores, clock, external, edits>>

\* connect_edge: the wire's name goes into both configurations.
Connect(from, to) ==
    LET out == PortAt(from, "out").name
        in  == PortAt(to, "in").name
        topic == AutoTopic(from[1], from[2])
    IN  /\ Edit
        /\ from[1] # to[1]
        /\ HasKey(Block(from[1]), out)
        /\ HasKey(Block(to[1]), in)
        /\ blocks' = [blocks EXCEPT ![At(from[1])] = Renamed(@, out, topic),
                                    ![At(to[1])] = Renamed(@, in, topic)]
        /\ UNCHANGED <<next_id, choice, project, storage, clock, external>>
        /\ Bump

\* What disconnect_edge makes of the blocks: the output's topic is emptied.
Disconnected(from) ==
    IF /\ from \in PortsOf("out")
       /\ HasKey(Block(from[1]), PortAt(from, "out").name)
    THEN [blocks EXCEPT ![At(from[1])] = Renamed(@, PortAt(from, "out").name, NoTopic)]
    ELSE blocks

\* The Delete key, a selected edge first.
DeleteEdge ==
    /\ sel_edge # << >>
    /\ Edit
    /\ blocks' = Disconnected(sel_edge)
    /\ selected' = 0 /\ sel_edge' = << >>
    /\ UNCHANGED <<next_id, project, storage, clock, external>>
    /\ Bump

\* delete_selected, by the key or by the button (which ignores edges).
DeleteSelected ==
    /\ selected # 0
    /\ Edit
    /\ blocks' = Without(blocks, selected)
    /\ selected' = 0
    /\ UNCHANGED <<next_id, sel_edge, project, storage, clock, external>>
    /\ Bump

-------------------------------------------------------------------------------
(* Projects.                                                               *)

Snapshot == [blocks |-> blocks, next_id |-> next_id]
With(store, name, snapshot) ==
    [n \in DOMAIN store \union {name} |-> IF n = name THEN snapshot ELSE store[n]]

Save(name) ==
    /\ Edit
    /\ storage' = With(storage, name, Snapshot)
    /\ project' = name
    /\ UNCHANGED <<canvas, choice, autosave, clock, external>>

\* next_project_name: the lowest number not taken.
Fresh(store) ==
    ProjectName(CHOOSE n \in 1..Cardinality(DOMAIN store) + 1 :
        /\ ProjectName(n) \notin DOMAIN store
        /\ \A m \in 1..n - 1 : ProjectName(m) \in DOMAIN store)

\* on_new: the open project is saved, an empty one listed, the canvas kept.
New ==
    /\ Edit
    /\ LET saved == IF project = "" THEN storage ELSE With(storage, project, Snapshot)
       IN  storage' = With(saved, Fresh(saved), Blank)
    /\ UNCHANGED <<canvas, choice, project, autosave, clock, external>>

\* The counter stays as it was.
FaultyLoad(name) ==
    /\ Edit
    /\ blocks' = storage[name].blocks
    /\ next_id' = next_id
    /\ selected' = 0
    /\ project' = name
    /\ UNCHANGED <<sel_edge, storage, clock, external>>
    /\ Bump

Load(name) ==
    /\ Edit
    /\ blocks' = storage[name].blocks
    /\ next_id' = storage[name].next_id
    /\ selected' = 0
    /\ project' = name
    /\ UNCHANGED <<sel_edge, storage, clock, external>>
    /\ Bump

DeleteProject(name) ==
    /\ Edit
    /\ storage' = [n \in DOMAIN storage \ {name} |-> storage[n]]
    /\ UNCHANGED <<canvas, choice, project, autosave, clock, external>>

\* The page is opened again: restore_autosave, unless it holds no block.
Reload ==
    /\ Edit
    /\ LET kept == IF autosave.blocks = << >> THEN Blank ELSE autosave
       IN  blocks' = kept.blocks /\ next_id' = kept.next_id
    /\ selected' = 0 /\ sel_edge' = << >>
    /\ project' = ""
    /\ sim' = "none" /\ sim_len' = 0 /\ sim_tick' = 0 /\ sim_topics' = Silence
    /\ running' = FALSE /\ timers' = 0
    /\ external' = Silence
    /\ UNCHANGED storage
    /\ Bump

-------------------------------------------------------------------------------
(* The simulation.                                                         *)

\* build_dag; what it refuses leaves everything as it is.
Built == Merge(blocks)
Builds == blocks # << >> /\ Taken(Built)

ExternalInput ==
    /\ \E e \in Inputs : external' = e
    /\ UNCHANGED <<canvas, choice, stores, clock, edits>>

\* SimState::inject for every external input.
Injected == [topic \in DOMAIN sim_topics \union DOMAIN external |->
                IF topic \in DOMAIN external THEN external[topic] ELSE sim_topics[topic]]

(* SimState::tick on a buffer with room for len nodes.  A program longer   *)
(* than that panics half-way, and SIM stays borrowed for good.             *)
TickWith(len) ==
    IF Len(Built) > len
    THEN /\ sim' = "stuck"
         /\ UNCHANGED <<sim_tick, sim_topics>>
    ELSE LET values == Evaluate(Built, Injected, NullChannels, [i \in 1..len |-> 0])
         IN  /\ sim' = "live"
             /\ sim_tick' = sim_tick + 1
             /\ sim_topics' = InsertAll(Injected, Emitted(Built, "Publish", values))

\* on_step: the buffer is made anew at tick 0.
Step ==
    /\ Builds /\ sim # "stuck"
    /\ sim_tick < MaxTicks
    /\ sim_len' = IF sim = "none" \/ sim_tick = 0 THEN Len(Built) ELSE sim_len
    /\ TickWith(sim_len')
    /\ UNCHANGED <<canvas, choice, stores, running, timers, external, edits>>

\* The interval's callback.
TimerFires ==
    /\ timers > 0 /\ running
    /\ Builds /\ sim = "live"
    /\ sim_tick < MaxTicks
    /\ TickWith(sim_len)
    /\ UNCHANGED <<canvas, choice, stores, sim_len, running, timers, external, edits>>

\* SimState::reset keeps the buffer's length.
Reset ==
    /\ sim # "stuck"
    /\ running' = FALSE
    /\ IF sim = "live" THEN sim_tick' = 0 /\ sim_topics' = Silence
       ELSE UNCHANGED <<sim_tick, sim_topics>>
    /\ UNCHANGED <<canvas, choice, stores, sim, sim_len, timers, external, edits>>

\* An interval is started and never cancelled.
Play ==
    /\ ~running
    /\ Builds /\ sim # "stuck"
    /\ timers < MaxTimers
    /\ IF sim = "none" THEN sim' = "live" /\ sim_len' = Len(Built)
       ELSE UNCHANGED <<sim, sim_len>>
    /\ running' = TRUE
    /\ timers' = timers + 1
    /\ UNCHANGED <<canvas, choice, stores, sim_tick, sim_topics, external, edits>>

Pause ==
    /\ running
    /\ running' = FALSE
    /\ UNCHANGED <<canvas, choice, stores, sim, sim_len, sim_tick, sim_topics,
                   timers, external, edits>>

-------------------------------------------------------------------------------

Init ==
    /\ autosave \in Kept
    /\ blocks = autosave.blocks /\ next_id = autosave.next_id
    /\ selected = 0 /\ sel_edge = << >>
    /\ project = "" /\ storage = Stored
    /\ sim = "none" /\ sim_len = 0 /\ sim_tick = 0 /\ sim_topics = Silence
    /\ running = FALSE /\ timers = 0
    /\ external = Silence
    /\ edits = 0

Next ==
    \/ \E type \in Palette : PlaceBlock(type)
    \/ UpdateConfig
    \/ \E id \in Ids : ClickBlock(id)
    \/ \E e \in Edges : ClickEdge(e)
    \/ ClickCanvas
    \/ \E from \in PortsOf("out"), to \in PortsOf("in") : Connect(from, to)
    \/ DeleteEdge \/ DeleteSelected
    \/ \E name \in Saves : Save(name)
    \/ New
    \/ \E name \in DOMAIN storage : Load(name) \/ DeleteProject(name)
    \/ Reload
    \/ ExternalInput
    \/ Step \/ TimerFires \/ Reset \/ Play \/ Pause

Spec == Init /\ [][Next]_vars

-------------------------------------------------------------------------------
(* Properties.                                                             *)

(* No block is ever given an id in use: on the canvas, in every stored     *)
(* project and in the auto-save, across saving, switching and reloading    *)
(* (graph_state.rs next_id, ProjectSnapshot).                              *)
IdsFresh ==
    /\ FreshIn(Snapshot)
    /\ FreshIn(autosave)
    /\ \A name \in DOMAIN storage : FreshIn(storage[name])

(* Between two handlers the browser's storage holds what is on the canvas, *)
(* so that a reload loses nothing (bump_revision on every mutation), and a *)
(* selected block is one of the canvas's.                                  *)
StoreSound ==
    /\ IdsFresh
    /\ autosave = Snapshot
    /\ selected # 0 => selected \in Ids

\* The topics of the edges drawn between two blocks, over pubsub ports.
Drawn(b, c) ==
    LET Over(x, dir) ==
            { ch.name : ch \in { p \in Range(Ports(x, dir)) : p.kind = "pubsub" } }
    IN  Over(b, "out") \intersect Over(c, "in")

\* What goes from b to c when the canvas runs, but for the multiplexer's
\* channels (drawn as hardware) and an output that its own block reads back.
Flows(b, c) ==
    IF b.type = "i2c_mux" THEN {}
    ELSE (Published(b) \intersect Reads(Lower(c))) \ Published(c)

(* A drawn edge carries values and no value goes where no edge is drawn:   *)
(* declared_channels and lower agree, whatever wires and texts a user has  *)
(* made (editor.rs edges; basic.rs, pid.rs, i2c.rs).                       *)
EdgesCarry ==
    \A i, j \in DOMAIN blocks :
        LET b == blocks[i]
            c == blocks[j]
        IN  i # j => Drawn(b, c) \ Published(c) = Flows(b, c)

\* No two texts of b's configuration agree, and none names other channels, as
\* a multiplexer's bus does.
Unambiguous(b) ==
    /\ \A k, l \in DOMAIN b.text : b.text[k] = b.text[l] => k = l
    /\ b.type # "i2c_mux"

\* No other output has the name that a wire from this port is given.
NameIsOwn(from) ==
    \A port \in PortsOf("out") :
        PortAt(port, "out").name = WireTopic(from[1], from[2]) => port = from

(* A wire drawn by the user is there afterwards, alone at its input, and   *)
(* no edge that shares neither end with it comes or goes - provided that   *)
(* both configurations are unambiguous, and that no wire drawn to one that *)
(* was not has left this one's name at another output (graph_state.rs      *)
(* connect_edge).                                                          *)
ConnectsAsAsked ==
    [][ edits' # edits =>
          LET old == Edges
              new == Edges'
              Others(E, from, to) == { e \in E : e[1] # from /\ e[2] # to }
          IN  \A from \in PortsOf("out"), to \in PortsOf("in") :
                /\ Connect(from, to)
                /\ Unambiguous(Block(from[1])) /\ Unambiguous(Block(to[1]))
                /\ NameIsOwn(from)
                => /\ { e \in new : e[2] = to } = {<<from, to>>}
                   /\ Others(new, from, to) = Others(old, from, to) ]_vars

SF == INSTANCE SignalFlow WITH inputs <- external, topics <- sim_topics

(* Ticks of the merged program do to the topics what the blocks say, one   *)
(* by one, do (editor.rs build_dag, offset_op; eval.rs SimState).          *)
SignalFlowSpec == SF!Spec

\* What the blocks bs, one by one, make of the topics in n ticks.
ShownAfter(bs, n) ==
    LET shown[k \in 0..n] ==
            IF k = 0 THEN Silence
            ELSE FoldLeft(LAMBDA t, b : SF!Heard(t, SF!Emits(b, shown[k - 1])),
                          shown[k - 1], bs)
    IN  shown[n]

Renames(map, T) ==
    [topic \in { Remap(map, t) : t \in DOMAIN T } |->
        T[CHOOSE t \in DOMAIN T : Remap(map, t) = topic]]

\* The topics after n ticks of SimState on a program, without inputs.
Ticked(dag, n) ==
    LET after[k \in 0..n] ==
            IF k = 0 THEN Silence
            ELSE LET values == Evaluate(dag, after[k - 1], NullChannels,
                                        [i \in DOMAIN dag |-> 0])
                 IN  InsertAll(after[k - 1], Emitted(dag, "Publish", values))
    IN  after[n]

(* The program that an export embeds for a board can be decoded there, and *)
(* ticked as the editor ticks its own it shows, under the names of the     *)
(* profile, what the blocks on that board, one by one, make of the topics, *)
(* as long as no two of their topics are given one name (export_panel.rs,  *)
(* deploy/panel.rs; lower.rs, codegen.rs).  An export depends on the       *)
(* canvas only, so it is looked at before a simulation starts.             *)
ExportFollowsSim ==
    sim = "none" /\ external = Silence /\ Builds =>
        \A p \in Profiles : \A node \in ManifestNodes(p) :
            LET own     == BlocksOn(blocks, p, node)
                bs      == IF own = << >> THEN blocks ELSE own
                names   == UNION { Published(bs[i]) \union Reads(Lower(bs[i])) :
                                     i \in DOMAIN bs }
                dag     == CrateDag(blocks, p, node)
            IN  /\ Taken(dag)
                /\ Cardinality({ Remap(p.map, t) : t \in names }) = Cardinality(names)
                   => \A n \in 1..MaxTicks + 1 :
                        Ticked(dag, n) = Renames(p.map, ShownAfter(bs, n))
================================================================================
