----------------------------------- MODULE Ops -----------------------------------
(***************************************************************************)
(* Programs of the event-driven runtime (mlir-codegen/src/runtime.rs): a   *)
(* sequence of operations, each on results of earlier ones.  An operand is *)
(* a pair <<operation, result>>, <<0, 0>> for a value that nobody defines. *)
(* Compiled, every result has a slot of its own; slot 0 is the clock.      *)
(* Hardware ports are named by kind and channel.                           *)
(***************************************************************************)
EXTENDS Integers, Sequences, FiniteSetsExt, SequencesExt

ConstantOp(v)      == [op |-> "constant", value |-> v, args |-> << >>]
Arith(op, a, b)    == [op |-> op, args |-> <<a, b>>]    \* add, mul, sub
ClampOp(lo, hi, a) == [op |-> "clamp", lo |-> lo, hi |-> hi, args |-> <<a>>]
Read(port)         == [op |-> "read", port |-> port, args |-> << >>]
ReadTwo(port)      == [op |-> "encoder_read", port |-> port, args |-> << >>]
Write(port, a)     == [op |-> "write", port |-> port, args |-> <<a>>]
Nop(args)          == [op |-> "nop", args |-> args]     \* select has no opcode

\* Operands of an operation; a select has as many as it happens to have.
Arity(o) == CASE o.op \in {"add", "mul", "sub"} -> 2
              [] o.op \in {"clamp", "write"} -> 1
              [] o.op = "nop" -> Len(o.args)
              [] OTHER -> 0

ResultCount(o) == CASE o.op = "write" -> 0 [] o.op = "encoder_read" -> 2 [] OTHER -> 1

\* slot_count as compile comes to each operation, and at the end.
SlotCounts(p) ==
    LET count[i \in 1..(Len(p) + 1)] ==
            IF i = 1 THEN 1 ELSE count[i - 1] + ResultCount(p[i - 1])
    IN  count
SlotCount(p) == SlotCounts(p)[Len(p) + 1]

(* compile: slots are given out in the order of the results; an operand    *)
(* that is not defined yet reads the clock.                                *)
Compiled(p) ==
    LET count == SlotCounts(p)
        Slot(i, k) == count[i] + k - 1
    IN  [i \in DOMAIN p |->
            [code |-> p[i],
             input_slots |-> [a \in DOMAIN p[i].args |->
                 IF p[i].args[a][1] \in 1..(i - 1)
                 THEN Slot(p[i].args[a][1], p[i].args[a][2]) ELSE 0],
             output_slots |-> [k \in 1..ResultCount(p[i]) |-> Slot(i, k)]]]

\* Constants and blocks without inputs: what fires on the clock.
IsSource(b) ==
    \/ b.code.op = "constant"
    \/ b.input_slots = << >> /\ b.output_slots # << >> /\ b.code.op # "nop"

\* execute_op on the inputs, when the input ports return r.
Execute(o, in, r) ==
    CASE o.op = "constant" -> <<o.value>>
      [] o.op = "add" -> <<in[1] + in[2]>>
      [] o.op = "mul" -> <<in[1] * in[2]>>
      [] o.op = "sub" -> <<in[1] - in[2]>>
      [] o.op = "clamp" -> <<Min({Max({in[1], o.lo}), o.hi})>>
      [] o.op = "read" -> <<r[o.port]>>
      [] o.op = "encoder_read" -> <<r[o.port], 0>>
      [] o.op = "nop" -> <<0>>
      [] o.op = "write" -> << >>

(* What lower.rs emits: known operations with their operands, and operands *)
(* that are results.                                                       *)
IsProgram(p) ==
    /\ Len(p) \in Nat /\ DOMAIN p = 1..Len(p)
    /\ \A i \in DOMAIN p :
          /\ p[i].op \in {"constant", "add", "mul", "sub", "clamp", "read",
                          "encoder_read", "nop", "write"}
          /\ p[i].args \in Seq(Nat \X Nat) /\ Len(p[i].args) = Arity(p[i])
          /\ \A a \in DOMAIN p[i].args : LET from == p[i].args[a][1] IN
                from \in 1..(i - 1) => p[i].args[a][2] \in 1..ResultCount(p[from])
          /\ p[i].op = "constant" => p[i].value \in Int
          /\ p[i].op = "clamp" => {p[i].lo, p[i].hi} \subseteq Int

Inputs(b, values) == [i \in DOMAIN b.input_slots |-> values[b.input_slots[i]]]
Outputs(b, values, r) == Execute(b.code, Inputs(b, values), r)

\* The values of the slots, a block's outputs replaced.
Assigned(values, b, out) ==
    [s \in DOMAIN values |->
        IF \E i \in DOMAIN b.output_slots : b.output_slots[i] = s
        THEN out[CHOOSE i \in DOMAIN b.output_slots : b.output_slots[i] = s]
        ELSE values[s]]

Writers(blocks) == { b \in Range(blocks) : b.code.op = "write" }
Ports(blocks) == { b.code.port : b \in Writers(blocks) }
SourceSlots(blocks) == UNION { Range(b.output_slots) : b \in { c \in Range(blocks) : IsSource(c) } }
================================================================================
