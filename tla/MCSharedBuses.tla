------------------------------ MODULE MCSharedBuses ------------------------------
EXTENDS SharedBuses, TLC

\* Bus 1 has interface 9, which is also the address of a device.
TwoInterfaces == 0 :> 0 @@ 1 :> 9
OneImage == {<<1>>}
OnePayload == {<<1, 2>>}

\* Address 73 only fills the main bus, the other has only the coincidence, and
\* one slot at a time, not while the other bus is in use, has been used in
\* earnest.  The pi-zero's bus 0 is a real one.
Main == IF board = "pi-zero" THEN 1 ELSE 0
Other == 1 - Main
Used(d) == d.pointer # 0 \/ d.registers \notin { Contents(p) : p \in {<<>>, <<1>>} }
OneUsed ==
    LET used == { p \in (0..1) \X Slots : Used(slots[p[1]][p[2]]) }
    IN  /\ Cardinality(used) <= 1
        /\ used # {} => slots[Other][1].address = 0
        /\ \A p \in used : slots[p[1]][p[2]].address # 73
        /\ \A s \in Slots : slots[Other][s].active => slots[Other][s].address = 9
        /\ Matching(Main, 73) # {} => Active(Other) = {} /\ host = NoTransfer
================================================================================
