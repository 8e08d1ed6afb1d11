------------------------------- MODULE MCDataflow -------------------------------
(***************************************************************************)
(* Graphs of three blocks and three channels, each from one of six kits,   *)
(* and manifests for two nodes.                                            *)
(***************************************************************************)
EXTENDS Lowering

Blinker == StateMachine(2, << [from |-> 0, to |-> 1, guard |-> 0],
                              [from |-> 1, to |-> 0, guard |-> Always] >>)

\* Blocks that a user puts together in one graph.
Kits == {
    <<Constant(2), Register(1), Register(1), Block("add")>>,
    <<Constant(1), Blinker, Register(0)>>,
    <<Peripheral("adc_source", 0), Clamp(0, 1), Peripheral("pwm_sink", 0)>>,
    <<Constant(1), Peripheral("gpio_out", 0), Peripheral("gpio_in", 0)>>,
    <<Constant(2), Constant(1), Gain(3), Block("multiply")>>,
    <<Constant(0), Block("select"), Block("subtract")>> }
AllBlocks == UNION { { K[i] : i \in DOMAIN K } : K \in Kits }

OneKit ==
    /\ \E K \in Kits : \A b \in AllBlocks :
          Cardinality({ id \in DOMAIN blocks : blocks[id] = b })
              <= Cardinality({ i \in DOMAIN K : K[i] = b })
    /\ attached => \E id \in DOMAIN blocks : blocks[id].kind \in Peripherals
================================================================================
