------------------------------- MODULE RegisterMap -------------------------------
(***************************************************************************)
(* A simulated I2C device with a register pointer (RuntimeDevice,          *)
(* hil/i2c-hil-sim/src/runtime.rs).  A device is a record with fields      *)
(* registers and pointer; it has Registers registers, 256 in the code.     *)
(***************************************************************************)
EXTENDS Naturals, Sequences

CONSTANT Registers

ASSUME RegistersAssumption == Registers \in Nat \ {0}

\* init: what is given, then zeros.
Contents(data) == [r \in 0..(Registers - 1) |-> IF r < Len(data) THEN data[r + 1] ELSE 0]

\* Write: the register pointer, and bytes for it and its successors, with wrap.
Written(d, data) ==
    IF data = << >> THEN d
    ELSE [d EXCEPT
            !.registers = [r \in DOMAIN d.registers |->
                LET here == { i \in 2..Len(data) : (data[1] + i - 2) % Registers = r }
                IN  IF here = {} THEN d.registers[r]
                    ELSE data[CHOOSE i \in here : \A j \in here : j <= i]],
            !.pointer = (data[1] + Len(data) - 1) % Registers]

\* Read: n bytes from the pointer on, with wrap.
Bytes(d, n) == [i \in 1..n |-> d.registers[(d.pointer + i - 1) % Registers]]
Advanced(d, n) == [d EXCEPT !.pointer = (@ + n) % Registers]

\* set_registers: no wrap, and the pointer stays.
Patched(d, offset, data) ==
    [d EXCEPT !.registers = [r \in DOMAIN d.registers |->
        IF r \in offset..(offset + Len(data) - 1) THEN data[r - offset + 1]
        ELSE d.registers[r]]]
================================================================================
