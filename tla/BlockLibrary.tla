------------------------------ MODULE BlockLibrary ------------------------------
(***************************************************************************)
(* The blocks of the dataflow editor (block-registry): the ports each kind *)
(* has, and what its tick makes of its inputs.  Floats are small integers, *)
(* so that a guard's ``> 0.5'' is > 0.  Text, series and message values,   *)
(* and the sockets, are left out.                                          *)
(***************************************************************************)
EXTENDS Integers, Sequences, FiniteSets, FiniteSetsExt

CONSTANT Absent    \* None: a port without a value

Constant(v)     == [kind |-> "constant", value |-> v]
Gain(k)         == [kind |-> "gain", gain |-> k]
Clamp(lo, hi)   == [kind |-> "clamp", min |-> lo, max |-> hi]
Block(kind)     == [kind |-> kind]    \* add, subtract, multiply, select
Register(v)     == [kind |-> "register", initial_value |-> v]
Peripheral(kind, channel) == [kind |-> kind, channel |-> channel]
StateMachine(n, transitions) ==
    [kind |-> "state_machine", states |-> n, transitions |-> transitions]

Always == -1    \* TransitionGuard::Unconditional; others name a guard port

Sources == {"adc_source", "gpio_in"}
Sinks   == {"pwm_sink", "gpio_out"}
Peripherals == Sources \union Sinks    \* the kinds with a SimModel

(* The blocks whose tick does not panic, as it does when a clamp's bounds  *)
(* are out of order or a machine has no state.  Transitions from or to     *)
(* states that do not exist never fire and are left out.                   *)
StatesNamed(b) ==
    UNION { {b.transitions[i].from, b.transitions[i].to} : i \in DOMAIN b.transitions }
BlockRecords(chans) ==
    [kind : {"constant"}, value : Int]
      \union [kind : {"gain"}, gain : Int]
      \union { b \in [kind : {"clamp"}, min : Int, max : Int] : b.min <= b.max }
      \union [kind : {"add", "subtract", "multiply", "select"}]
      \union [kind : {"register"}, initial_value : Int]
      \union [kind : Peripherals, channel : chans]
      \union { b \in [kind : {"state_machine"}, states : Nat \ {0},
                       transitions : Seq([from : Nat, to : Nat, guard : Nat \union {Always}])] :
                  StatesNamed(b) \subseteq 0..(b.states - 1) }

GuardPorts(b) ==
    Max({0} \union { b.transitions[i].guard + 1 : i \in DOMAIN b.transitions })

InputPorts(b) ==
    CASE b.kind \in {"constant"} \union Sources -> 0..(-1)
      [] b.kind \in {"gain", "clamp", "register"} \union Sinks -> {0}
      [] b.kind \in {"add", "subtract", "multiply"} -> 0..1
      [] b.kind = "select" -> 0..2
      [] b.kind = "state_machine" -> 0..GuardPorts(b)

OutputPorts(b) ==
    CASE b.kind \in Sinks -> {}
      [] b.kind = "state_machine" -> 0..b.states
      [] OTHER -> {0}

IsDelay(b) == b.kind = "register"

-------------------------------------------------------------------------------
(* Tick: the value of each output port, Absent for None.                   *)

One(v) == [p \in {0} |-> v]

\* An operation that wants all its inputs.
AllPresent(in) == \A p \in DOMAIN in : in[p] # Absent

AddResult(a, b) ==
    IF a = Absent THEN b ELSE IF b = Absent THEN a ELSE a + b

OrZero(v) == IF v = Absent THEN 0 ELSE v

\* The state a machine goes to: the first transition out of the current
\* state whose guard holds.
NextState(b, in) ==
    LET current == Max({0, Min({OrZero(in[0]), b.states - 1})})
        Holds(t) == /\ t.from = current
                    /\ t.guard # Always => OrZero(in[t.guard + 1]) > 0
        fires == { i \in DOMAIN b.transitions : Holds(b.transitions[i]) }
    IN  IF fires = {} THEN current ELSE b.transitions[Min(fires)].to

Flags(n, state) == [p \in 0..n |-> IF p = 0 THEN state
                                   ELSE IF p - 1 = state THEN 1 ELSE 0]

Results(b, in, stored) ==
    CASE b.kind = "constant" -> One(b.value)
      [] b.kind = "register" -> One(stored)
      [] b.kind = "add" -> One(AddResult(in[0], in[1]))
      [] b.kind = "state_machine" -> Flags(b.states, NextState(b, in))
      [] b.kind \in Sources -> One(0)    \* no hardware in the browser
      [] b.kind \in Sinks -> << >>
      [] b.kind \in {"gain", "clamp", "multiply", "subtract", "select"} ->
            One(IF ~AllPresent(in) THEN Absent
                ELSE CASE b.kind = "gain" -> in[0] * b.gain
                       [] b.kind = "clamp" -> Max({b.min, Min({b.max, in[0]})})
                       [] b.kind = "multiply" -> in[0] * in[1]
                       [] b.kind = "subtract" -> in[0] - in[1]
                       [] b.kind = "select" -> IF in[0] > 0 THEN in[1] ELSE in[2])

-------------------------------------------------------------------------------
(* Simulated peripherals: ADC voltages, PWM duties and pins, 0 unless set. *)
NoPeripherals(Channels) ==
    [adc |-> [c \in Channels |-> 0], pwm |-> [c \in Channels |-> 0],
     gpio |-> [c \in Channels |-> 0]]

SimResults(b, hw) ==
    CASE b.kind = "adc_source" -> One(hw.adc[b.channel])
      [] b.kind = "gpio_in" -> One(hw.gpio[b.channel])
      [] OTHER -> << >>

SimWrites(b, in, hw) ==
    IF b.kind \in Sources \/ in[0] = Absent THEN hw
    ELSE IF b.kind = "pwm_sink" THEN [hw EXCEPT !.pwm[b.channel] = in[0]]
    ELSE [hw EXCEPT !.gpio[b.channel] = IF in[0] > 0 THEN 1 ELSE 0]
================================================================================
