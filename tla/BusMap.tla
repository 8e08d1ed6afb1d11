--------------------------------- MODULE BusMap ---------------------------------
(***************************************************************************)
(* What configurable I2C buses are to their users: at each bus and address *)
(* at most one device with its registers and its pointer, which only       *)
(* requests that name it change, and an answer to every request.           *)
(***************************************************************************)
EXTENDS RegisterMap, FiniteSets

CONSTANTS MaxBuses, MaxDevices, Addresses, Images, Payloads, Lengths

VARIABLES
    devices,      \* by <<bus, address>>
    bus_count,    \* buses that the client sees; the others keep their devices
    real,         \* the first buses are hardware: used, never configured
    refusal,      \* the answer for a bus that is not there: error, or none
    lists,        \* does a list of devices name them, or only say how many?
    answer        \* to the last request

vars == <<devices, bus_count, real, refusal, lists, answer>>

Answered(result, data) == answer' = [result |-> result, data |-> data]

Init ==
    /\ devices = << >>
    /\ real \in 0..MaxBuses
    /\ bus_count \in real..MaxBuses
    /\ refusal \in {"error", "none"} /\ lists \in BOOLEAN
    /\ answer = [result |-> "none", data |-> << >>]

\* What is asked of one device.  A client names a bus it sees; the USB host
\* reaches any, and is told only whether a device acknowledged.
Transfer(bus, addr, new, data, yes, no) ==
    \/ /\ <<bus, addr>> \in DOMAIN devices
       /\ devices' = [devices EXCEPT ![<<bus, addr>>] = new]
       /\ Answered(yes, data)
    \/ /\ <<bus, addr>> \notin DOMAIN devices
       /\ Answered(no, << >>)
       /\ UNCHANGED devices

\* Reading selects the register first and gives what follows it.
Read(bus, addr, reg, n) ==
    LET at == Written(devices[<<bus, addr>>], <<reg>>)
    IN  Transfer(bus, addr, Advanced(at, n), Bytes(at, n), "ok", "error")
Write(bus, addr, data) ==
    Transfer(bus, addr, Written(devices[<<bus, addr>>], data), << >>, "ok", "error")
SetRegisters(bus, addr, offset, data) ==
    Transfer(bus, addr, Patched(devices[<<bus, addr>>], offset, data), << >>,
             "ok", "error")

UsbWrite(bus, addr, data) ==
    Transfer(bus, addr, Written(devices[<<bus, addr>>], data), << >>, "ack", "nak")
UsbRead(bus, addr, n) ==
    LET d == devices[<<bus, addr>>]
    IN  Transfer(bus, addr, Advanced(d, n), Bytes(d, n), "ack", "nak")

Occupied(bus) == { a \in Addresses : <<bus, a>> \in DOMAIN devices }

\* A device comes with its own registers and nothing of a former one.
Add(bus, addr, data) ==
    LET full == Cardinality(Occupied(bus)) = MaxDevices
        new == [registers |-> Contents(data), pointer |-> 0]
    IN  IF full \/ <<bus, addr>> \in DOMAIN devices
        THEN Answered("error", << >>) /\ UNCHANGED devices
        ELSE /\ devices' = [k \in DOMAIN devices \union {<<bus, addr>>} |->
                              IF k = <<bus, addr>> THEN new ELSE devices[k]]
             /\ Answered("ok", << >>)
Remove(bus, addr) ==
    LET gone == {<<bus, addr>>} \intersect DOMAIN devices
    IN  /\ devices' = [k \in DOMAIN devices \ gone |-> devices[k]]
        /\ Answered(IF gone = {} THEN "error" ELSE "ok", << >>)

ClientRequest ==
    \/ \E bus \in real..(bus_count - 1), addr \in Addresses :
          \/ \E reg \in 0..(Registers - 1), n \in Lengths : Read(bus, addr, reg, n)
          \/ \E data \in Images : Add(bus, addr, data)
          \/ \E data \in Payloads :
                \/ Write(bus, addr, data)
                \/ \E offset \in 0..(Registers - 1) : SetRegisters(bus, addr, offset, data)
          \/ Remove(bus, addr)
    \/ real > 0 /\ (Answered("ok", << >>) \/ Answered("error", << >>)) /\ UNCHANGED devices
    \/ bus_count < MaxBuses /\ Answered(refusal, << >>) /\ UNCHANGED devices
UsbRequest ==
    \E bus \in 0..(MaxBuses - 1), addr \in Addresses :
        \/ \E data \in Payloads : UsbWrite(bus, addr, data)
        \/ \E n \in Lengths : UsbRead(bus, addr, n)

\* Also requests that a server does not know.
Config ==
    \/ Answered("error", << >>) /\ UNCHANGED <<devices, bus_count>>
    \/ bus_count' \in real..MaxBuses /\ Answered("ok", << >>) /\ UNCHANGED devices
    \/ bus_count' = real /\ devices' = << >> /\ Answered("ok", << >>)

\* Asking for a status or for the list of devices changes nothing.  The list
\* announces of each bus a number, gives as many entries, and names with
\* them exactly the devices that requests will find.
Query ==
    /\ \/ Answered("status", << >>)
       \/ Answered("list", [bus \in 0..(bus_count - 1) |->
             LET n == Cardinality(Occupied(bus))
             IN  IF lists THEN <<n, n, Occupied(bus)>> ELSE <<n, 0, {}>>])
    /\ UNCHANGED <<devices, bus_count>>

Next ==
    /\ \/ (ClientRequest \/ UsbRequest) /\ UNCHANGED bus_count
       \/ Config
       \/ Query
    /\ UNCHANGED <<real, refusal, lists>>

Spec == Init /\ [][Next]_vars
================================================================================
