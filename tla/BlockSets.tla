------------------------------- MODULE BlockSets -------------------------------
(***************************************************************************)
(* The configurable blocks of configurable-blocks and how a set of them    *)
(* becomes one DAG program (lower.rs; the editor merges in the same way)   *)
(* or, exported, a program for each board's firmware (codegen.rs).         *)
(*                                                                         *)
(* A placed block is its type and its configuration, `text' for the fields *)
(* that hold names and `num' for numbers.  XBlock(b) is what the block     *)
(* type makes of it: the channels it declares, for each direction in       *)
(* order, and its own program.  Numbers are integers: map_scale is         *)
(* configured with ranges that divide, lowpass with an alpha of 0 or 1.    *)
(***************************************************************************)
EXTENDS DagEval

CONSTANT MuxTopic(_, _)    \* the name of a multiplexer's channel: bus, number

\* A topic left empty: nothing is published.
NoTopic == ""

Topic(name)    == [name |-> name, kind |-> "pubsub"]
Hardware(name) == [name |-> name, kind |-> "hardware"]
Channels(ins, outs) == [in |-> ins, out |-> outs]

Clip(x, low, high) == IF x < low THEN low ELSE IF x > high THEN high ELSE x

-------------------------------------------------------------------------------
(* basic.rs                                                                *)

ConstantBlock(b) ==
    LET topic  == b.text.publish_topic
        silent == topic = NoTopic
    IN  [channels |-> Channels(<< >>, IF silent THEN << >> ELSE <<Topic(topic)>>),
         dag |-> <<Const(b.num.value)>>
                 \o IF silent THEN << >> ELSE <<Publish(topic, 1)>>]

\* AddBlock, MultiplyBlock and SubtractBlock are this with their op.
TwoInputs(b, op) ==
    [channels |-> Channels(<<Topic(b.text.input_a_topic), Topic(b.text.input_b_topic)>>,
                             <<Topic(b.text.output_topic)>>),
     dag |-> <<Subscribe(b.text.input_a_topic), Subscribe(b.text.input_b_topic),
               Binary(op, 1, 2), Publish(b.text.output_topic, 3)>>]

AddBlock(b)      == TwoInputs(b, "Add")
MultiplyBlock(b) == TwoInputs(b, "Mul")
SubtractBlock(b) == TwoInputs(b, "Sub")

\* The output is not declared.
FaultyThrough(b) == Channels(<<Topic(b.text.input_topic)>>, << >>)

Through(b) == Channels(<<Topic(b.text.input_topic)>>, <<Topic(b.text.output_topic)>>)

\* The limits are in the program, and nothing uses them.
ClampBlock(b) ==
    [channels |-> Through(b),
     dag |-> <<Subscribe(b.text.input_topic), Const(b.num.min), Const(b.num.max),
               Publish(b.text.output_topic, 1)>>]

SubscribeBlock(b) ==
    [channels |-> Channels(<<Topic(b.text.topic)>>, << >>), dag |-> <<Subscribe(b.text.topic)>>]

PublishBlock(b) ==
    [channels |-> Through(b),
     dag |-> <<Subscribe(b.text.input_topic), Publish(b.text.output_topic, 1)>>]

\* Output(name, 0) names a node that is not there, so the fallback is what
\* the block always becomes.
PwmBlock(b) ==
    [channels |-> Channels(<< >>, <<Hardware(b.text.channel_name)>>),
     dag |-> <<Const(0), Output(b.text.channel_name, 1)>>]

NegateBlock(b) ==
    [channels |-> Through(b),
     dag |-> <<Subscribe(b.text.input_topic), Unary("Neg", 1),
               Publish(b.text.output_topic, 2)>>]

\* The factor is computed when the block is lowered.
Scale(b) ==
    LET in_range == b.num.in_max - b.num.in_min
    IN  IF in_range = 0 THEN 0 ELSE (b.num.out_max - b.num.out_min) \div in_range

MapScaleBlock(b) ==
    [channels |-> Through(b),
     dag |-> <<Subscribe(b.text.input_topic), Const(b.num.in_min),
               Binary("Sub", 1, 2), Const(Scale(b)), Binary("Mul", 3, 4),
               Const(b.num.out_min), Binary("Add", 5, 6),
               Publish(b.text.output_topic, 7)>>]

\* The output's former value comes back through its topic.
LowPassBlock(b) ==
    LET alpha == Clip(b.num.alpha, 0, 1)
    IN  [channels |-> Through(b),
         dag |-> <<Subscribe(b.text.input_topic), Subscribe(b.text.output_topic),
                   Const(alpha), Const(1 - alpha),
                   Binary("Mul", 3, 1), Binary("Mul", 4, 2), Binary("Add", 5, 6),
                   Publish(b.text.output_topic, 7)>>]

AdcBlock(b) ==
    [channels |-> Channels(<<Hardware(b.text.channel_name)>>, << >>),
     dag |-> <<Input(b.text.channel_name)>>]

-------------------------------------------------------------------------------
(* pid.rs, i2c.rs                                                          *)

\* clamp(x) = m - relu(m - max), where m = relu(x - min) + min.
PidBlock(b) ==
    [channels |-> Channels(<<Topic(b.text.setpoint_topic), Topic(b.text.feedback_topic)>>,
                             <<Topic(b.text.output_topic)>>),
     dag |-> <<Subscribe(b.text.setpoint_topic), Subscribe(b.text.feedback_topic),
               Binary("Sub", 1, 2),
               Const(b.num.kp), Binary("Mul", 3, 4),
               Const(b.num.ki), Binary("Mul", 3, 6),
               Const(b.num.kd), Unary("Neg", 3), Binary("Mul", 9, 8),
               Binary("Add", 5, 7), Binary("Add", 11, 10),
               Const(b.num.out_min), Const(b.num.out_max),
               Binary("Sub", 12, 13), Unary("Relu", 15), Binary("Add", 16, 13),
               Binary("Sub", 17, 14), Unary("Relu", 18), Binary("Sub", 17, 19),
               Publish(b.text.output_topic, 20)>>]

SimpleGainBlock(b) ==
    [channels |-> Through(b),
     dag |-> <<Subscribe(b.text.input_topic), Const(b.num.factor),
               Binary("Mul", 1, 2), Publish(b.text.output_topic, 3)>>]

\* A gain of one is left out.
PubSubBridgeBlock(b) ==
    [channels |-> Channels(<<Topic(b.text.subscribe_topic)>>,
                             <<Topic(b.text.publish_topic)>>),
     dag |-> IF b.num.gain = 1
             THEN <<Subscribe(b.text.subscribe_topic),
                    Publish(b.text.publish_topic, 1)>>
             ELSE <<Subscribe(b.text.subscribe_topic), Const(b.num.gain),
                    Binary("Mul", 1, 2), Publish(b.text.publish_topic, 3)>>]

\* Each downstream channel, declared as hardware, publishes the selection.
I2cMuxBlock(b) ==
    LET n == b.num.num_channels
        Channel(i) == MuxTopic(b.text.bus_topic, i - 1)
    IN  [channels |-> Channels(<<Hardware(b.text.bus_topic), Topic(b.text.select_topic)>>,
                                 [i \in 1..n |-> Hardware(Channel(i))]),
         dag |-> <<Subscribe(b.text.select_topic), Input(b.text.bus_topic)>>
                 \o [i \in 1..2 * n |-> IF i % 2 = 1 THEN Const((i - 1) \div 2)
                                        ELSE Publish(Channel(i \div 2), 1)]]

\* XBlock::default, for the types whose numbers are whole by default.
Default(type) ==
    CASE type = "constant" ->
            [text |-> [publish_topic |-> "const_out"], num |-> [value |-> 1]]
      [] type = "add" ->
            [text |-> [input_a_topic |-> "add/a", input_b_topic |-> "add/b",
                       output_topic |-> "add/out"], num |-> << >>]
      [] type = "subtract" ->
            [text |-> [input_a_topic |-> "sub/a", input_b_topic |-> "sub/b",
                       output_topic |-> "sub/out"], num |-> << >>]
      [] type = "negate" ->
            [text |-> [input_topic |-> "neg/in", output_topic |-> "neg/out"],
             num |-> << >>]
      [] type = "gain" ->
            [text |-> [input_topic |-> "signal/in", output_topic |-> "signal/out"],
             num |-> [factor |-> 1]]
      [] type = "pwm" -> [text |-> [channel_name |-> "pwm0"], num |-> << >>]

-------------------------------------------------------------------------------
(* Sets of blocks.                                                         *)

BlockTypes ==
    {"constant", "gain", "add", "multiply", "clamp", "pid", "subtract", "negate",
     "map_scale", "lowpass", "adc", "pwm", "subscribe", "publish", "pubsub_bridge",
     "i2c_mux"}

\* create_block and apply_config.
Reconstruct(b) ==
    CASE b.type = "constant"      -> ConstantBlock(b)
      [] b.type = "gain"          -> SimpleGainBlock(b)
      [] b.type = "add"           -> AddBlock(b)
      [] b.type = "multiply"      -> MultiplyBlock(b)
      [] b.type = "clamp"         -> ClampBlock(b)
      [] b.type = "pid"           -> PidBlock(b)
      [] b.type = "subtract"      -> SubtractBlock(b)
      [] b.type = "negate"        -> NegateBlock(b)
      [] b.type = "map_scale"     -> MapScaleBlock(b)
      [] b.type = "lowpass"       -> LowPassBlock(b)
      [] b.type = "adc"           -> AdcBlock(b)
      [] b.type = "pwm"           -> PwmBlock(b)
      [] b.type = "subscribe"     -> SubscribeBlock(b)
      [] b.type = "publish"       -> PublishBlock(b)
      [] b.type = "pubsub_bridge" -> PubSubBridgeBlock(b)
      [] b.type = "i2c_mux"       -> I2cMuxBlock(b)

Lower(b) == Reconstruct(b).dag

\* Only the first operand is moved.
FaultyOffsetOp(o, offset) ==
    [o EXCEPT !.args = [k \in DOMAIN @ |-> IF k = 1 THEN @[k] + offset ELSE @[k]]]

OffsetOp(o, offset) == [o EXCEPT !.args = [k \in DOMAIN @ |-> @[k] + offset]]

\* Programs one after the other, each with its references moved.
Combine(dags) ==
    LET combined[n \in 0..Len(dags)] ==
            IF n = 0 THEN << >>
            ELSE LET ops == combined[n - 1]
                     dag == dags[n]
                 IN  ops \o [i \in DOMAIN dag |-> OffsetOp(dag[i], Len(ops))]
    IN  combined[Len(dags)]

Merge(blocks) == Combine([i \in DOMAIN blocks |-> Lower(blocks[i])])

\* add_op takes the whole of a merge.
Taken(dag) == \A i \in DOMAIN dag : Accepts(i - 1, dag[i])

Published(b) ==
    LET dag == Lower(b)
    IN  { dag[i].name : i \in { j \in DOMAIN dag : dag[j].op = "Publish" } }

-------------------------------------------------------------------------------
(* The export: lower.rs renames channels and merges programs, all into one *)
(* or one for each board, and codegen.rs embeds a board's program in its   *)
(* crate.                                                                  *)
(*                                                                         *)
(* A profile is its boards, the board each block is assigned to by its     *)
(* place in the set, and the channel map.  No panel binds a peripheral, so *)
(* that hardware channels read 0; the text of the crate around the program *)
(* is left out.                                                            *)

Remap(map, topic) == IF topic \in DOMAIN map THEN map[topic] ELSE topic

\* Subscriptions keep their names.
FaultyRemapDagChannels(dag, map) ==
    [i \in DOMAIN dag |->
        IF dag[i].op = "Publish" THEN [dag[i] EXCEPT !.name = Remap(map, @)] ELSE dag[i]]

RemapDagChannels(dag, map) ==
    [i \in DOMAIN dag |->
        IF dag[i].op \in {"Subscribe", "Publish"}
        THEN [dag[i] EXCEPT !.name = Remap(map, @)]
        ELSE dag[i]]

LowerWithProfile(b, profile) == RemapDagChannels(Lower(b), profile.map)

LowerBlockSet(blocks, profile) ==
    Combine([i \in DOMAIN blocks |-> LowerWithProfile(blocks[i], profile)])

NodeOf(profile, i) ==
    IF i \in DOMAIN profile.assign THEN profile.assign[i] ELSE "_default"

\* The blocks of one node, in the order of the set.
BlocksOn(blocks, profile, node) ==
    LET places == SelectSeq([i \in DOMAIN blocks |-> i],
                            LAMBDA i : NodeOf(profile, i) = node)
    IN  [k \in DOMAIN places |-> blocks[places[k]]]

LowerBlockSetPerNode(blocks, profile) ==
    [node \in { NodeOf(profile, i) : i \in DOMAIN blocks } |->
        LowerBlockSet(BlocksOn(blocks, profile, node), profile)]

\* to_manifest: without boards of their own, the nodes that blocks name.
ManifestNodes(profile) ==
    IF profile.boards = {} THEN Range(profile.assign) ELSE profile.boards

\* generate_all_crates_partitioned, the program that a node's crate embeds:
\* one without a program of its own is given the whole.
CrateDag(blocks, profile, node) ==
    LET per_node == LowerBlockSetPerNode(blocks, profile)
    IN  IF node \in DOMAIN per_node THEN per_node[node]
        ELSE LowerBlockSet(blocks, profile)
================================================================================
