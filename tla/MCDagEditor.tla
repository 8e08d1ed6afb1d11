------------------------------ MODULE MCDagEditor ------------------------------
(***************************************************************************)
(* An empty canvas, and a storage with projects that between them hold a   *)
(* block of every type.                                                    *)
(***************************************************************************)
EXTENDS DagEditor, TLC

EditorWire(b, p) == "wire_" \o ToString(b) \o "_" \o ToString(p)
EditorMux(bus, i) == bus \o "/" \o ToString(i)
EditorProject(n) == "project " \o ToString(n)

P(id, type, text, num) == [id |-> id, type |-> type, text |-> text, num |-> num]
InOut(a, b) == [input_topic |-> a, output_topic |-> b]
Two(a, b, o) == [input_a_topic |-> a, input_b_topic |-> b, output_topic |-> o]

Loop ==
    << P(1, "gain", InOut("t", "sp"), [factor |-> 3]),
       P(3, "pid", [setpoint_topic |-> "sp", feedback_topic |-> "fb",
                    output_topic |-> "u"],
         [kp |-> 2, ki |-> 1, kd |-> 1, out_min |-> -4, out_max |-> 4]),
       P(2, "lowpass", InOut("u", "fb"), [alpha |-> 1]) >>

Scaling ==
    << P(1, "adc", [channel_name |-> "adc0"], << >>),
       P(2, "map_scale", InOut("t", "m"),
         [in_min |-> 0, in_max |-> 2, out_min |-> 1, out_max |-> 5]),
       P(3, "clamp", InOut("m", "c"), [min |-> 0, max |-> 1]),
       P(4, "pubsub_bridge", [subscribe_topic |-> "c", publish_topic |-> "s"],
         [gain |-> 2]),
       P(5, "constant", [publish_topic |-> ""], [value |-> 7]),
       P(6, "pwm", [channel_name |-> "pwm0"], << >>) >>

Muxed ==
    << P(1, "multiply", Two("t", "t", "sel"), << >>),
       P(2, "i2c_mux", [bus_topic |-> "bus", select_topic |-> "sel"],
         [num_channels |-> 2]),
       P(3, "publish", InOut("bus/1", "seen"), << >>),
       P(4, "subscribe", [topic |-> "seen"], << >>),
       P(5, "negate", InOut("seen", "minus"), << >>),
       P(6, "add", Two("minus", "sel", "minus"), << >>) >>

EditorStored ==
    [name \in {"loop", "scaling", "muxed"} |->
        CASE name = "loop"    -> [blocks |-> Loop, next_id |-> 4]
          [] name = "scaling" -> [blocks |-> Scaling, next_id |-> 7]
          [] name = "muxed"   -> [blocks |-> Muxed, next_id |-> 7]]

\* A constant that was wired to a gain and a subtraction, and then given a
\* topic of its own.
Pair ==
    << P(1, "constant", [publish_topic |-> "const_out"], [value |-> 1]),
       P(2, "pubsub_bridge", [publish_topic |-> "wire_1_0", subscribe_topic |-> "wire_1_0"],
         [gain |-> 1]),
       P(4, "subtract", Two("wire_1_0", "t", "sub/out"), << >>) >>

EditorKept == {Blank, [blocks |-> Pair, next_id |-> 5]}

EditorPalette == {"constant", "subtract"}
EditorTexts == {"t"}
EditorNumbers == {2}
EditorSaves == {"mine"}
EditorInputs == {"t" :> 2}

\* One board, and two names exchanged; two boards, blocks turn by turn, and a
\* name that another block may have; boards taken from the assignments.
EditorProfiles ==
    { [boards |-> {"controller"}, assign |-> << >>,
       map |-> "t" :> "sub/out" @@ "sub/out" :> "t"],
      [boards |-> {"even", "odd", "spare"},
       assign |-> [i \in 1..8 |-> IF i % 2 = 0 THEN "even" ELSE "odd"],
       map |-> "sel" :> "seen"],
      [boards |-> {}, assign |-> [i \in 2..4 |-> "inner"], map |-> << >>] }
================================================================================
