------------------------------- MODULE SharedBuses -------------------------------
(***************************************************************************)
(* I2C buses whose devices a WebSocket client configures (RuntimeBus,      *)
(* hil/i2c-hil-sim/src/runtime.rs), on four boards: the pico               *)
(* (hil-firmware-support/src/runtime_buses.rs); the pico2                  *)
(* (board-support-pico2/src/shared_buses.rs), where a USB host reaches the *)
(* same buses as i2c-tiny-usb; the pi-zero                                 *)
(* (board-support-pi-zero/src/combined_buses.rs), whose first buses are    *)
(* real ones; and the native server (native-server/src/lib.rs:217).  A     *)
(* request is handled under a lock.                                        *)
(***************************************************************************)
EXTENDS RegisterMap, FiniteSets, FiniteSetsExt, SequencesExt

CONSTANTS
    MaxBuses, MaxDevices,    \* 10 and 8 in the code
    RealBuses,               \* of the pi-zero: Linux buses, which come first
    Addresses,               \* 7-bit addresses
    Interfaces,              \* by bus: its USB interface number
    Images,                  \* register contents that devices are added with
    Payloads, Lengths        \* of the data in other requests

ASSUME BusesAssumption ==
    /\ MaxBuses \in Nat \ {0} /\ MaxDevices \in Nat
    /\ RealBuses \in 0..MaxBuses
    /\ DOMAIN Interfaces = 0..(MaxBuses - 1) /\ Interfaces[0] = 0

VARIABLES
    board,
    slots,        \* by bus and slot: the RuntimeDevices, active or not
    bus_count,
    status,       \* InterfaceState.status by bus
    answer,       \* to the last request
    host          \* history: the last USB transfer since a reset, if any

vars == <<board, slots, bus_count, status, answer, host>>

Slots == 1..MaxDevices
NoTransfer == [addr |-> 0, result |-> "idle"]

Init ==
    /\ board \in {"pico", "pico2", "pi-zero", "native"}
    /\ slots = [bus \in 0..(MaxBuses - 1) |-> [s \in Slots |->
                   [active |-> FALSE, address |-> 0, registers |-> Contents(<< >>), pointer |-> 0]]]
    /\ bus_count = IF board = "pico" THEN 0 ELSE MaxBuses
    /\ status = [bus \in 0..(MaxBuses - 1) |-> "idle"]
    /\ answer = [result |-> "none", data |-> << >>]
    /\ host = NoTransfer

-------------------------------------------------------------------------------
(* RuntimeBus.                                                             *)

Active(bus) == { s \in Slots : slots[bus][s].active }
Matching(bus, addr) == { s \in Active(bus) : slots[bus][s].address = addr }

\* init in a slot.
FaultyPlaced(d, addr, data) ==    \* what the last device wrote stays
    [active |-> TRUE, address |-> addr, registers |-> Patched(d, 0, data).registers,
     pointer |-> 0]
Placed(d, addr, data) ==
    [active |-> TRUE, address |-> addr, registers |-> Contents(data), pointer |-> 0]

Answered(result, data) == answer' = [result |-> result, data |-> data]
Answers(result) == Answered(result, << >>)

\* A request to the first active device at an address.
Device(bus, addr) == slots[bus][Min(Matching(bus, addr))]
OnDevice(bus, addr, new, data, yes, no) ==
    \/ /\ Matching(bus, addr) # {}
       /\ slots' = [slots EXCEPT ![bus][Min(Matching(bus, addr))] = new]
       /\ Answered(yes, data)
    \/ /\ Matching(bus, addr) = {}
       /\ Answers(no)
       /\ UNCHANGED slots

-------------------------------------------------------------------------------
(* The WebSocket client.                                                   *)

Client == UNCHANGED <<board, bus_count, status, host>>

\* Linux buses come first, then the simulated ones (sim_index).
FirstSimulated == IF board = "pi-zero" THEN RealBuses ELSE 0

(* A request that names a Linux bus: reads and writes go to the chips on   *)
(* it, which answer or do not; nothing can be configured there, and its    *)
(* devices are not listed.                                                 *)
RealTransfer(bus) ==
    /\ bus < FirstSimulated
    /\ \E result \in {"ok", "error"} : Answers(result)
    /\ UNCHANGED slots /\ Client
RealConfigure(bus) ==
    /\ bus < FirstSimulated
    /\ Answers("error")
    /\ UNCHANGED slots /\ Client

\* The bus index is checked first; the native server then says nothing.
OutOfRange(bus) ==
    /\ bus >= bus_count
    /\ Answers(IF board = "native" THEN "none" ELSE "error")
    /\ UNCHANGED slots /\ Client
InRange(bus) == bus \in FirstSimulated..(bus_count - 1) /\ Client

I2cRead(bus, addr, reg, n) ==
    LET at == Written(Device(bus, addr), <<reg>>)
    IN  /\ InRange(bus)
        /\ OnDevice(bus, addr, Advanced(at, n), Bytes(at, n), "ok", "error")

I2cWrite(bus, addr, data) ==
    /\ InRange(bus)
    /\ OnDevice(bus, addr, Written(Device(bus, addr), data), << >>, "ok", "error")

\* The first inactive slot, if no active one has the address.
AddDevice(bus, addr, data) ==
    /\ InRange(bus)
    /\ LET free == Slots \ Active(bus)
       IN  IF Matching(bus, addr) # {} \/ free = {}
           THEN Answers("error") /\ UNCHANGED slots
           ELSE /\ slots' = [slots EXCEPT ![bus][Min(free)] = Placed(@, addr, data)]
                /\ Answers("ok")

RemoveDevice(bus, addr) ==
    /\ InRange(bus)
    /\ OnDevice(bus, addr, [Device(bus, addr) EXCEPT !.active = FALSE], << >>,
                "ok", "error")

SetRegisters(bus, addr, offset, data) ==
    /\ board # "native" /\ InRange(bus)
    /\ OnDevice(bus, addr, Patched(Device(bus, addr), offset, data), << >>,
                "ok", "error")

\* The count includes the Linux buses, which stay.
Accepted(count) == count \in FirstSimulated..MaxBuses
SetBusCount(count) ==
    /\ board # "native"
    /\ IF Accepted(count) THEN bus_count' = count /\ Answers("ok")
       ELSE Answers("error") /\ UNCHANGED bus_count
    /\ UNCHANGED <<board, slots, status, host>>

ClearAll ==
    /\ board # "native"
    /\ slots' = [bus \in DOMAIN slots |-> [s \in Slots |-> [slots[bus][s] EXCEPT !.active = FALSE]]]
    /\ bus_count' = FirstSimulated /\ Answers("ok")
    /\ UNCHANGED <<board, status, host>>

\* The native server knows neither of the three, nor does any the rest.
UnknownTag == Answers("error") /\ UNCHANGED slots /\ Client

(* ListBuses and GetConfig: for each bus the number of devices announced,  *)
(* and what active_device_info finds for 0..number - 1: the device with    *)
(* that many active ones in the slots before it.                           *)
NthActive(bus, index) ==
    CHOOSE s \in Active(bus) : Cardinality({ t \in Active(bus) : t < s }) = index
Entries(bus) ==
    [i \in 1..Cardinality(Active(bus)) |-> slots[bus][NthActive(bus, i - 1)].address]
ListBuses ==
    /\ Answered("list", [bus \in 0..(bus_count - 1) |->
            [announced |-> Cardinality(Active(bus)),
             entries |-> IF board = "pico2" THEN << >> ELSE Entries(bus)]])
    /\ UNCHANGED slots /\ Client

-------------------------------------------------------------------------------
(* The USB host: control transfers, on the pico2.                          *)

\* resolve_interface: a transfer's wIndex is the device's address.
Resolve(index) ==
    LET hits == { bus \in 0..(bus_count - 1) : Interfaces[bus] = index }
    IN  IF hits = {} THEN 0 ELSE Min(hits)

\* The status of the bus after a transfer.
FaultyStatus(bus, result) ==    \* a failed transfer leaves it
    [status EXCEPT ![bus] = IF result = "ack" THEN result ELSE @]
Status(bus, result) == [status EXCEPT ![bus] = result]

UsbTransfer(addr, new, data) ==
    LET bus == Resolve(addr)
        result == IF Matching(bus, addr) = {} THEN "nak" ELSE "ack"
    IN  /\ board = "pico2"
        /\ OnDevice(bus, addr, new, data, "ack", "nak")
        /\ status' = Status(bus, result)
        /\ host' = [addr |-> addr, result |-> result]
        /\ UNCHANGED <<board, bus_count>>

UsbWrite(addr, data) ==
    UsbTransfer(addr, Written(Device(Resolve(addr), addr), data), << >>)
UsbRead(addr, n) ==
    LET d == Device(Resolve(addr), addr)
    IN  UsbTransfer(addr, Advanced(d, n), Bytes(d, n))

\* The host asks with wIndex 0.
GetStatus ==
    /\ board = "pico2"
    /\ Answered("status", status[Resolve(0)])
    /\ UNCHANGED slots /\ Client

UsbReset ==
    /\ board = "pico2"
    /\ status' = [bus \in DOMAIN status |-> IF bus < bus_count THEN "idle" ELSE status[bus]]
    /\ host' = NoTransfer
    /\ UNCHANGED <<board, slots, bus_count, answer>>

-------------------------------------------------------------------------------
ClientNext ==
    \/ \E bus \in 0..(MaxBuses - 1) :
          \/ OutOfRange(bus)
          \/ RealTransfer(bus)
          \/ RealConfigure(bus)
          \/ \E addr \in Addresses :
                \/ \E reg \in 0..(Registers - 1), n \in Lengths : I2cRead(bus, addr, reg, n)
                \/ \E data \in Payloads : I2cWrite(bus, addr, data)
                \/ \E data \in Images : AddDevice(bus, addr, data)
                \/ RemoveDevice(bus, addr)
                \/ \E offset \in 0..(Registers - 1), data \in Payloads :
                      SetRegisters(bus, addr, offset, data)
    \/ \E count \in 0..(MaxBuses + 1) : SetBusCount(count)
    \/ ClearAll
    \/ UnknownTag
    \/ ListBuses

HostNext ==
    \/ \E addr \in Addresses :
          \/ \E data \in Payloads : UsbWrite(addr, data)
          \/ \E n \in Lengths : UsbRead(addr, n)
    \/ GetStatus
    \/ UsbReset

Next == ClientNext \/ HostNext

Spec == Init /\ [][Next]_vars

-------------------------------------------------------------------------------
(* Two users and slots that are given up and taken again make a map: at    *)
(* an address there is one device, a request reaches it and no other, its  *)
(* pointer moves only when it is named, a new device has nothing of the    *)
(* one before it in the slot, an add fails only for a reason, the real     *)
(* buses are never configured away, and a list shows exactly the devices   *)
(* that requests will find, each once, and announces as many as it shows,  *)
(* except on the pico2, which announces devices and shows none (runtime.rs *)
(* :208 and 276, shared_buses.rs:212, combined_buses.rs:192).              *)
Shown == UNION { { <<bus, slots[bus][s].address>> : s \in Active(bus) } : bus \in DOMAIN slots }
Devices == [k \in Shown |-> LET d == slots[k[1]][Min(Matching(k[1], k[2]))]
                            IN  [registers |-> d.registers, pointer |-> d.pointer]]
Seen(data) == [bus \in DOMAIN data |->
    <<data[bus].announced, Len(data[bus].entries), Range(data[bus].entries)>>]
AnswerSeen ==
    CASE answer.result = "status" -> [answer EXCEPT !.data = << >>]
      [] answer.result = "list" -> [answer EXCEPT !.data = Seen(@)]
      [] OTHER -> answer
Refusal == IF board = "native" THEN "none" ELSE "error"
Named == board # "pico2"
Map == INSTANCE BusMap WITH
    devices <- Devices, real <- FirstSimulated, refusal <- Refusal, lists <- Named,
    answer <- AnswerSeen
BusMapSpec == Map!Spec

(* GetStatus tells the host of its last transfer, whatever the client did  *)
(* since, if the address is not another interface's number (shared_buses   *)
(* .rs:55).                                                                *)
HostLearnsOutcome ==
    /\ host # NoTransfer
    /\ \A bus \in 1..(MaxBuses - 1) : Interfaces[bus] # host.addr
    => status[Resolve(0)] = host.result
================================================================================
