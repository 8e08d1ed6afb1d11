------------------------------- MODULE MCReactive -------------------------------
EXTENDS Reactive

\* A result used by blocks of different depth, so that one runs twice.
Diamond == << Read("adc"), ConstantOp(2), Arith("mul", <<1, 1>>, <<2, 1>>),
              Arith("sub", <<1, 1>>, <<3, 1>>), Write("pwm", <<4, 1>>) >>

\* Two results, the clock as an operand, and a limit.
Encoder == << ReadTwo("enc"), Arith("add", <<1, 1>>, <<0, 0>>), ClampOp(-1, 2, <<2, 1>>),
              Arith("mul", <<3, 1>>, <<1, 2>>), Write("pub", <<3, 1>>) >>

\* A select, which has no opcode; and a slot with all the subscribers it can have.
Select == << Read("uart"), Nop(<< <<1, 1>>, <<1, 1>>, <<1, 1>> >>),
             Arith("sub", <<2, 1>>, <<1, 1>>), Arith("mul", <<3, 1>>, <<3, 1>>),
             Write("tx", <<4, 1>>) >>

\* Not regular: a clamp that does not keep 0, and two writers of a port.
Raised == << Read("adc"), ClampOp(1, 2, <<1, 1>>), Write("pwm", <<2, 1>>),
             Write("pwm", <<1, 1>>) >>

Small == {Diamond, Encoder, Select, Raised}
================================================================================
