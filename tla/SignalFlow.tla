------------------------------ MODULE SignalFlow -------------------------------
(***************************************************************************)
(* What a simulated set of blocks should do to the topics: with every tick *)
(* each block reads the topics as the tick found them and publishes what   *)
(* its palette entry (configurable-blocks/src/blocks/mod.rs) says, a later *)
(* block's publication winning.  Blocks and inputs change between ticks,   *)
(* and the topics may be cleared.                                          *)
(***************************************************************************)
EXTENDS Integers, Sequences

CONSTANT MuxTopic(_, _)

VARIABLES blocks, inputs, topics

vars == <<blocks, inputs, topics>>

Value(T, topic) == IF topic \in DOMAIN T THEN T[topic] ELSE 0

\* Of a range turned around, the upper end.
Within(x, low, high) ==
    LET m == IF x < low THEN low ELSE x IN IF m > high THEN high ELSE m

Says(topic, v) == <<[name |-> topic, v |-> v]>>

\* What block b publishes when the topics are T.  A clamp passes its input.
Emits(b, T) ==
    LET R(key) == Value(T, b.text[key])
        num    == b.num
        To(v)  == Says(b.text.output_topic, v)
        error  == R("setpoint_topic") - R("feedback_topic")
    IN  CASE b.type = "constant" ->
                IF b.text.publish_topic = "" THEN << >>
                ELSE Says(b.text.publish_topic, num.value)
          [] b.type = "gain"     -> To(num.factor * R("input_topic"))
          [] b.type = "add"      -> To(R("input_a_topic") + R("input_b_topic"))
          [] b.type = "subtract" -> To(R("input_a_topic") - R("input_b_topic"))
          [] b.type = "multiply" -> To(R("input_a_topic") * R("input_b_topic"))
          [] b.type = "negate"   -> To(-R("input_topic"))
          [] b.type \in {"clamp", "publish"} -> To(R("input_topic"))
          [] b.type = "map_scale" ->
                To(IF num.in_max = num.in_min THEN num.out_min
                   ELSE num.out_min + (R("input_topic") - num.in_min)
                        * ((num.out_max - num.out_min) \div (num.in_max - num.in_min)))
          [] b.type = "lowpass" ->
                LET alpha == Within(num.alpha, 0, 1)
                IN  To(alpha * R("input_topic") + (1 - alpha) * R("output_topic"))
          [] b.type = "pid" ->
                To(Within((num.kp + num.ki - num.kd) * error, num.out_min, num.out_max))
          [] b.type = "pubsub_bridge" ->
                Says(b.text.publish_topic, num.gain * R("subscribe_topic"))
          [] b.type = "i2c_mux" ->
                [i \in 1..num.num_channels |->
                    [name |-> MuxTopic(b.text.bus_topic, i - 1), v |-> R("select_topic")]]
          [] b.type \in {"subscribe", "adc", "pwm"} -> << >>

\* The topics T once a sequence of publications is in.
Heard(T, said) ==
    [topic \in DOMAIN T \union { said[k].name : k \in DOMAIN said } |->
        LET K == { k \in DOMAIN said : said[k].name = topic }
        IN  IF K = {} THEN T[topic]
            ELSE said[CHOOSE k \in K : \A j \in K : j <= k].v]

\* Panel inputs go over the topics before a tick.
Driven == [topic \in DOMAIN topics \union DOMAIN inputs |->
              IF topic \in DOMAIN inputs THEN inputs[topic] ELSE topics[topic]]

Init == topics = [topic \in {} |-> 0]

Tick ==
    LET after[n \in 0..Len(blocks)] ==
            IF n = 0 THEN Driven
            ELSE LET T == after[n - 1] IN Heard(T, Emits(blocks[n], Driven))
    IN  topics' = after[Len(blocks)] /\ UNCHANGED <<blocks, inputs>>

Edit  == topics' = topics
Clear == topics' = [topic \in {} |-> 0]

Next == Tick \/ Edit \/ Clear
Spec == Init /\ [][Next]_vars
================================================================================
