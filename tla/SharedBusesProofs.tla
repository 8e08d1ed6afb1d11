--------------------------- MODULE SharedBusesProofs ---------------------------
(***************************************************************************)
(* Proofs about SharedBuses, for any number of buses and slots, any        *)
(* register contents and any interleaving of the client and the USB host.  *)
(***************************************************************************)
EXTENDS SharedBuses, FiniteSetTheorems, WellFoundedInduction, TLAPS

Buses == 0..(MaxBuses - 1)

(* Shapes only: what registers and pointers hold does not matter here.  A  *)
(* device is identified by its address, which no two active devices of one *)
(* bus share.                                                              *)
IsDevice(d) ==
    /\ d = [active |-> d.active, address |-> d.address,
            registers |-> d.registers, pointer |-> d.pointer]
    /\ d.active \in BOOLEAN

Shapes ==
    /\ board \in {"pico", "pico2", "pi-zero", "native"}
    /\ slots = [bus \in Buses |-> [s \in Slots |-> slots[bus][s]]]
    /\ \A bus \in Buses, s \in Slots : IsDevice(slots[bus][s])
    /\ bus_count \in FirstSimulated..MaxBuses
    /\ status = [bus \in Buses |-> status[bus]]

Distinct ==
    \A bus \in Buses, s, t \in Slots :
        /\ slots[bus][s].active => slots[bus][s].address \in Addresses
        /\ slots[bus][s].active /\ slots[bus][t].active
              /\ slots[bus][s].address = slots[bus][t].address => s = t

BusInv == Shapes /\ Distinct

-------------------------------------------------------------------------------
(* Least elements.                                                         *)

LEMMA LeastNumber ==
    ASSUME NEW T \in SUBSET Nat, T # {}
    PROVE  Min(T) \in T /\ \A y \in T : Min(T) <= y
<1> DEFINE R == OpToRel(<, Nat)
<1>1. IsWellFoundedOn(R, Nat)
    BY NatLessThanWellFounded
<1>2. \A x, y \in Nat : <<y, x>> \in R <=> y < x
    BY DEF OpToRel
<1> HIDE DEF R
<1>3. PICK x \in T : \A y \in T : ~ (<<y, x>> \in R)
    BY <1>1, WFMin
<1>4. ASSUME NEW y \in T PROVE x <= y
    <2>1. ~ (<<y, x>> \in R) /\ x \in Nat /\ y \in Nat
        BY <1>3
    <2>2. ~ (y < x)
        BY <1>2, <2>1
    <2> QED BY <2>1, <2>2
<1> QED BY <1>4, Zenon DEF Min

LEMMA ResolveInRange ==
    ASSUME BusInv, NEW index
    PROVE  Resolve(index) \in Buses
<1> DEFINE hits == { bus \in 0..(bus_count - 1) : Interfaces[bus] = index }
<1>1. bus_count \in Nat /\ bus_count <= MaxBuses /\ 0 \in Buses
    BY BusesAssumption DEF BusInv, Shapes, FirstSimulated, Buses
<1>2. hits \in SUBSET Nat /\ hits \subseteq Buses
    BY <1>1, BusesAssumption DEF Buses
<1> HIDE DEF hits
<1>3. hits # {} => Min(hits) \in hits
    BY <1>2, LeastNumber
<1>4. Resolve(index) = IF hits = {} THEN 0 ELSE Min(hits)
    BY DEF Resolve, hits
<1> QED BY <1>1, <1>2, <1>3, <1>4

\* Where no other interface has the number, the first bus is meant.
LEMMA ResolvesToFirst ==
    ASSUME BusInv, NEW index,
           \A bus \in 1..(MaxBuses - 1) : Interfaces[bus] # index
    PROVE  Resolve(index) = 0
<1> DEFINE hits == { bus \in 0..(bus_count - 1) : Interfaces[bus] = index }
<1>1. bus_count \in Nat /\ bus_count <= MaxBuses /\ MaxBuses \in Nat
    BY BusesAssumption DEF BusInv, Shapes, FirstSimulated
<1>2. \A bus \in hits : bus = 0
    BY <1>1
<1> HIDE DEF hits
<1>3. hits # {} => Min(hits) = 0
    BY <1>2, LeastNumber
<1>4. Resolve(index) = IF hits = {} THEN 0 ELSE Min(hits)
    BY DEF Resolve, hits
<1> QED BY <1>3, <1>4

-------------------------------------------------------------------------------
(* The devices on a bus.                                                   *)

\* Where there is a device at an address, there is one, and it is found.
LEMMA FoundDevice ==
    ASSUME BusInv, NEW bus \in Buses, NEW s \in Slots, slots[bus][s].active
    PROVE  /\ Matching(bus, slots[bus][s].address) = {s}
           /\ Min(Matching(bus, slots[bus][s].address)) = s
<1>1. Matching(bus, slots[bus][s].address) = {s}
    BY DEF BusInv, Distinct, Matching, Active
<1>2. s \in Nat /\ Min({s}) = s
    BY DEF Slots, Min
<1> QED BY <1>1, <1>2

LEMMA MatchingDevice ==
    ASSUME BusInv, NEW bus \in Buses, NEW addr, Matching(bus, addr) # {}
    PROVE  /\ Min(Matching(bus, addr)) \in Slots
           /\ slots[bus][Min(Matching(bus, addr))].active
           /\ slots[bus][Min(Matching(bus, addr))].address = addr
           /\ Matching(bus, addr) = {Min(Matching(bus, addr))}
<1>1. PICK s \in Matching(bus, addr) : TRUE
    OBVIOUS
<1>2. s \in Slots /\ slots[bus][s].active /\ slots[bus][s].address = addr
    BY <1>1 DEF Matching, Active
<1> QED BY <1>2, FoundDevice

\* One slot gets a new content.
Put(bus, s, new) == [slots EXCEPT ![bus][s] = new]
IsTable(table) == table = [b \in Buses |-> [t \in Slots |-> table[b][t]]]

LEMMA SlotUpdate ==
    ASSUME BusInv, NEW bus \in Buses, NEW s \in Slots, NEW new,
           slots' = Put(bus, s, new)
    PROVE  /\ IsTable(slots')
           /\ \A b \in Buses, t \in Slots :
                slots'[b][t] = IF b = bus /\ t = s THEN new ELSE slots[b][t]
<1>1. /\ DOMAIN slots = Buses
      /\ \A b \in Buses : DOMAIN slots[b] = Slots
      /\ \A b \in Buses : slots[b] = [t \in Slots |-> slots[b][t]]
    BY DEF BusInv, Shapes
<1>2. slots' = [b \in Buses |->
                  IF b = bus THEN [slots[bus] EXCEPT ![s] = new] ELSE slots[b]]
    BY <1>1 DEF Put
<1>3. \A b \in Buses, t \in Slots :
            slots'[b][t] = IF b = bus /\ t = s THEN new ELSE slots[b][t]
    BY <1>1, <1>2
<1>4. \A b \in Buses : slots'[b] = [t \in Slots |-> slots'[b][t]]
    <2>1. ASSUME NEW b \in Buses PROVE slots'[b] = [t \in Slots |-> slots'[b][t]]
        <3>1. CASE b = bus
            <4>1. slots'[b] = [slots[bus] EXCEPT ![s] = new]
                BY <1>2, <3>1
            <4> QED BY <1>1, <4>1
        <3>2. CASE b # bus
            <4>1. slots'[b] = slots[b]
                BY <1>2, <3>2
            <4> QED BY <1>1, <4>1
        <3> QED BY <3>1, <3>2
    <2> QED BY <2>1
<1>5. slots' = [b \in Buses |-> slots'[b]]
    BY <1>2
<1>6. slots' = [b \in Buses |-> [t \in Slots |-> slots'[b][t]]]
    BY <1>4, <1>5
<1> QED BY <1>3, <1>6 DEF IsTable

-------------------------------------------------------------------------------
(* Reading, writing and patching a device leave its identity, and do to    *)
(* its registers and pointer what they do to these two alone.              *)

Content(d) == [registers |-> d.registers, pointer |-> d.pointer]

LEMMA WrittenKeeps ==
    ASSUME NEW d, IsDevice(d), NEW data
    PROVE  /\ IsDevice(Written(d, data))
           /\ Written(d, data).active = d.active /\ Written(d, data).address = d.address
           /\ Content(Written(d, data)) = Written(Content(d), data)
<1> DEFINE regs(r) == LET here == { i \in 2..Len(data) : (data[1] + i - 2) % Registers = r }
                      IN  IF here = {} THEN d.registers[r]
                          ELSE data[CHOOSE i \in here : \A j \in here : j <= i]
           registers == [r \in DOMAIN d.registers |-> regs(r)]
           pointer == (data[1] + Len(data) - 1) % Registers
<1>1. Written(d, data) = IF data = << >> THEN d
                         ELSE [d EXCEPT !.registers = registers, !.pointer = pointer]
    BY DEF Written
<1>2. Content(d).registers = d.registers /\ Content(d).pointer = d.pointer
    BY DEF Content
<1>3. Written(Content(d), data) =
            IF data = << >> THEN Content(d)
            ELSE [Content(d) EXCEPT !.registers = registers, !.pointer = pointer]
    BY <1>2 DEF Written
<1> HIDE DEF registers, pointer
<1>4. CASE data = << >>
    BY <1>1, <1>3, <1>4
<1>5. CASE data # << >>
    <2>1. /\ Written(d, data) = [d EXCEPT !.registers = registers, !.pointer = pointer]
          /\ Written(Content(d), data) =
                [Content(d) EXCEPT !.registers = registers, !.pointer = pointer]
        BY <1>1, <1>3, <1>5
    <2>2. Written(d, data) = [active |-> d.active, address |-> d.address,
                              registers |-> registers, pointer |-> pointer]
        BY <2>1 DEF IsDevice
    <2>3. Written(Content(d), data) = [registers |-> registers, pointer |-> pointer]
        BY <2>1 DEF Content
    <2> QED BY <2>2, <2>3 DEF Content, IsDevice
<1> QED BY <1>4, <1>5

LEMMA AdvancedKeeps ==
    ASSUME NEW d, IsDevice(d), NEW n
    PROVE  /\ IsDevice(Advanced(d, n))
           /\ Advanced(d, n).active = d.active /\ Advanced(d, n).address = d.address
           /\ Content(Advanced(d, n)) = Advanced(Content(d), n)
           /\ Bytes(d, n) = Bytes(Content(d), n)
<1> DEFINE pointer == (d.pointer + n) % Registers
<1>1. Advanced(d, n) = [d EXCEPT !.pointer = pointer]
    BY DEF Advanced
<1>2. Content(d).registers = d.registers /\ Content(d).pointer = d.pointer
    BY DEF Content
<1>3. Advanced(Content(d), n) = [Content(d) EXCEPT !.pointer = pointer]
    BY <1>2 DEF Advanced
<1>4. Bytes(d, n) = Bytes(Content(d), n)
    BY <1>2 DEF Bytes
<1> HIDE DEF pointer
<1> QED BY <1>1, <1>3, <1>4 DEF Content, IsDevice

LEMMA PatchedKeeps ==
    ASSUME NEW d, IsDevice(d), NEW offset, NEW data
    PROVE  /\ IsDevice(Patched(d, offset, data))
           /\ Patched(d, offset, data).active = d.active
           /\ Patched(d, offset, data).address = d.address
           /\ Content(Patched(d, offset, data)) = Patched(Content(d), offset, data)
<1> DEFINE registers == [r \in DOMAIN d.registers |->
                IF r \in offset..(offset + Len(data) - 1) THEN data[r - offset + 1]
                ELSE d.registers[r]]
<1>1. Patched(d, offset, data) = [d EXCEPT !.registers = registers]
    BY DEF Patched
<1>2. Content(d).registers = d.registers
    BY DEF Content
<1>3. Patched(Content(d), offset, data) = [Content(d) EXCEPT !.registers = registers]
    BY <1>2 DEF Patched
<1> HIDE DEF registers
<1> QED BY <1>1, <1>3 DEF Content, IsDevice

LEMMA SetActive ==
    ASSUME NEW d, IsDevice(d), NEW x
    PROVE  [d EXCEPT !.active = x] = [active |-> x, address |-> d.address,
                                      registers |-> d.registers, pointer |-> d.pointer]
BY DEF IsDevice

LEMMA GivenUp ==
    ASSUME NEW d, IsDevice(d)
    PROVE  /\ IsDevice([d EXCEPT !.active = FALSE])
           /\ ~ [d EXCEPT !.active = FALSE].active
           /\ [d EXCEPT !.active = FALSE].address = d.address
<1>1. [d EXCEPT !.active = FALSE] = [active |-> FALSE, address |-> d.address,
                                    registers |-> d.registers, pointer |-> d.pointer]
    BY SetActive
<1> QED BY <1>1 DEF IsDevice

-------------------------------------------------------------------------------
(* Every step keeps the shapes, and devices of one bus apart.              *)

\* A device is changed in place, or its slot is given up.
LEMMA InPlaceKeepsInv ==
    ASSUME BusInv, NEW bus \in Buses, NEW s \in Slots, NEW new, IsDevice(new),
           new.active => slots[bus][s].active /\ new.address = slots[bus][s].address,
           slots' = Put(bus, s, new),
           UNCHANGED <<board, bus_count>>, status' = [b \in Buses |-> status'[b]]
    PROVE  BusInv'
<1>1. /\ IsTable(slots')
      /\ \A b \in Buses, t \in Slots :
            slots'[b][t] = IF b = bus /\ t = s THEN new ELSE slots[b][t]
    BY SlotUpdate
<1>2. Shapes'
    BY <1>1 DEF BusInv, Shapes, FirstSimulated, IsTable
<1>3. Distinct'
    BY <1>1 DEF BusInv, Distinct
<1> QED BY <1>2, <1>3 DEF BusInv

LEMMA OnDeviceKeepsInv ==
    ASSUME BusInv, NEW bus \in Buses, NEW addr, NEW new, NEW data, NEW yes, NEW no,
           OnDevice(bus, addr, new, data, yes, no),
           Matching(bus, addr) # {} =>
              /\ IsDevice(new)
              /\ new.active => new.address = Device(bus, addr).address,
           UNCHANGED <<board, bus_count>>, status' = [b \in Buses |-> status'[b]]
    PROVE  BusInv'
<1>1. CASE Matching(bus, addr) # {}
    <2> DEFINE s == Min(Matching(bus, addr))
    <2>1. s \in Slots /\ slots[bus][s].active
        BY <1>1, MatchingDevice
    <2>2. slots' = Put(bus, s, new)
        BY <1>1 DEF OnDevice, Put
    <2>3. IsDevice(new) /\ (new.active => new.address = slots[bus][s].address)
        BY <1>1 DEF Device
    <2> HIDE DEF s
    <2> QED BY <2>1, <2>2, <2>3, InPlaceKeepsInv
<1>2. CASE Matching(bus, addr) = {}
    <2>1. slots' = slots
        BY <1>2 DEF OnDevice
    <2> QED BY <2>1 DEF BusInv, Shapes, Distinct, FirstSimulated
<1> QED BY <1>1, <1>2

LEMMA SameSlotsKeepsInv ==
    ASSUME BusInv, UNCHANGED <<slots, board>>,
           bus_count' \in FirstSimulated..MaxBuses, status' = [b \in Buses |-> status'[b]]
    PROVE  BusInv'
BY DEF BusInv, Shapes, Distinct, FirstSimulated

LEMMA DeviceThere ==
    ASSUME BusInv, NEW bus \in Buses, NEW addr, Matching(bus, addr) # {}
    PROVE  /\ IsDevice(Device(bus, addr)) /\ Device(bus, addr).active
           /\ Device(bus, addr).address = addr
BY MatchingDevice DEF BusInv, Shapes, Device

LEMMA BusInit == Init => BusInv
<1> SUFFICES ASSUME Init PROVE BusInv
    OBVIOUS
<1>1. bus_count \in FirstSimulated..MaxBuses
    BY BusesAssumption DEF Init, FirstSimulated
<1>2. \A bus \in Buses, s \in Slots :
            slots[bus][s] = [active |-> FALSE, address |-> 0, registers |-> Contents(<< >>),
                             pointer |-> 0]
    BY DEF Init, Buses
<1>3. IsTable(slots)
    BY DEF Init, Buses, IsTable
<1>4. Shapes
    BY <1>1, <1>2, <1>3 DEF Init, Shapes, IsTable, Buses, IsDevice
<1>5. Distinct
    BY <1>2 DEF Distinct
<1> QED BY <1>4, <1>5 DEF BusInv

LEMMA InRangeIsBus ==
    ASSUME BusInv, NEW bus, InRange(bus)
    PROVE  bus \in Buses
BY BusesAssumption DEF BusInv, Shapes, InRange, FirstSimulated, Buses

LEMMA FreeSlot ==
    ASSUME NEW bus, Slots \ Active(bus) # {}
    PROVE  Min(Slots \ Active(bus)) \in Slots \ Active(bus)
<1>1. Slots \ Active(bus) \in SUBSET Nat
    BY DEF Slots
<1> QED BY <1>1, LeastNumber

LEMMA AddKeepsInv ==
    ASSUME BusInv, NEW bus, NEW addr \in Addresses, NEW data, AddDevice(bus, addr, data)
    PROVE  BusInv'
<1> DEFINE free == Slots \ Active(bus)
           s == Min(free)
           new == Placed(slots[bus][s], addr, data)
<1>1. bus \in Buses /\ UNCHANGED <<board, bus_count, status, host>>
    BY InRangeIsBus DEF AddDevice, InRange, Client
<1>2. status' = [b \in Buses |-> status'[b]]
    BY <1>1 DEF BusInv, Shapes
<1>3. CASE Matching(bus, addr) # {} \/ free = {}
    <2>1. UNCHANGED slots
        BY <1>3 DEF AddDevice
    <2> QED BY <1>1, <1>2, <2>1, SameSlotsKeepsInv DEF BusInv, Shapes
<1>4. CASE Matching(bus, addr) = {} /\ free # {}
    <2>1. s \in Slots /\ ~ slots[bus][s].active
        BY <1>4, FreeSlot DEF Active
    <2>2. slots' = [slots EXCEPT ![bus][s] = Placed(@, addr, data)]
        BY <1>4 DEF AddDevice
    <2>3. slots' = Put(bus, s, new)
        BY <2>2 DEF Put, Placed
    <2>4. /\ new = [active |-> TRUE, address |-> addr, registers |-> Contents(data),
                    pointer |-> 0]
          /\ IsDevice(new)
        BY DEF Placed, IsDevice
    <2>5. \A t \in Slots : slots[bus][t].active => slots[bus][t].address # addr
        BY <1>4 DEF Matching, Active
    <2> HIDE DEF s, new
    <2>6. /\ IsTable(slots')
          /\ \A b \in Buses, t \in Slots :
                slots'[b][t] = IF b = bus /\ t = s THEN new ELSE slots[b][t]
        BY <1>1, <2>1, <2>3, SlotUpdate
    <2>7. Shapes'
        BY <1>1, <1>2, <2>4, <2>6 DEF BusInv, Shapes, FirstSimulated, IsTable
    <2>8. Distinct'
        BY <1>1, <2>1, <2>4, <2>5, <2>6 DEF BusInv, Distinct
    <2> QED BY <2>7, <2>8 DEF BusInv
<1> QED BY <1>3, <1>4

LEMMA ClearKeepsInv ==
    ASSUME BusInv, ClearAll
    PROVE  BusInv'
<1>1. slots' = [bus \in Buses |-> [s \in Slots |-> [slots[bus][s] EXCEPT !.active = FALSE]]]
    BY DEF ClearAll, BusInv, Shapes
<1>2. \A bus \in Buses, s \in Slots :
            slots'[bus][s] = [slots[bus][s] EXCEPT !.active = FALSE]
    BY <1>1
<1>3. \A bus \in Buses, s \in Slots : IsDevice(slots'[bus][s]) /\ ~ slots'[bus][s].active
    <2>1. ASSUME NEW bus \in Buses, NEW s \in Slots
          PROVE  IsDevice(slots'[bus][s]) /\ ~ slots'[bus][s].active
        <3>1. IsDevice(slots[bus][s])
            BY DEF BusInv, Shapes
        <3>2. slots'[bus][s] = [slots[bus][s] EXCEPT !.active = FALSE]
            BY <1>2
        <3> QED BY <3>1, <3>2, GivenUp
    <2> QED BY <2>1
<1>4. IsTable(slots')
    BY <1>1, <1>2 DEF IsTable
<1>5. bus_count' \in FirstSimulated..MaxBuses /\ UNCHANGED <<board, status>>
    BY BusesAssumption DEF ClearAll, FirstSimulated
<1>6. Shapes'
    BY <1>3, <1>4, <1>5 DEF BusInv, Shapes, IsTable, FirstSimulated
<1>7. Distinct'
    BY <1>3 DEF Distinct
<1> QED BY <1>6, <1>7 DEF BusInv

\* A transfer from the USB host.
LEMMA UsbKeepsInv ==
    ASSUME BusInv, NEW addr, NEW new, NEW data, UsbTransfer(addr, new, data),
           Matching(Resolve(addr), addr) # {} =>
              /\ IsDevice(new)
              /\ new.active => new.address = Device(Resolve(addr), addr).address
    PROVE  BusInv'
<1> DEFINE bus == Resolve(addr)
<1>1. bus \in Buses
    BY ResolveInRange
<1>2. status' = [b \in Buses |-> status'[b]]
    BY DEF UsbTransfer, Status, BusInv, Shapes
<1>3. OnDevice(bus, addr, new, data, "ack", "nak") /\ UNCHANGED <<board, bus_count>>
    BY DEF UsbTransfer
<1> HIDE DEF bus
<1>4. Matching(bus, addr) # {} =>
        IsDevice(new) /\ (new.active => new.address = Device(bus, addr).address)
    BY DEF bus
<1> QED BY <1>1, <1>2, <1>3, <1>4, OnDeviceKeepsInv

LEMMA BusStep == BusInv /\ [Next]_vars => BusInv'
<1> SUFFICES ASSUME BusInv, [Next]_vars PROVE BusInv'
    OBVIOUS
<1>0. /\ status = [b \in Buses |-> status[b]]
      /\ bus_count \in FirstSimulated..MaxBuses
    BY DEF BusInv, Shapes
<1>1. CASE UNCHANGED vars
    BY <1>0, <1>1, SameSlotsKeepsInv DEF vars
<1>2. ASSUME NEW bus, OutOfRange(bus) \/ RealTransfer(bus) \/ RealConfigure(bus)
      PROVE  BusInv'
    BY <1>0, <1>2, SameSlotsKeepsInv DEF OutOfRange, RealTransfer, RealConfigure, Client
<1>3. ASSUME NEW bus, NEW addr, NEW reg, NEW n, I2cRead(bus, addr, reg, n)
      PROVE  BusInv'
    <2> DEFINE at == Written(Device(bus, addr), <<reg>>)
    <2>1. bus \in Buses /\ UNCHANGED <<board, bus_count, status>>
        BY <1>3, InRangeIsBus DEF I2cRead, InRange, Client
    <2>2. OnDevice(bus, addr, Advanced(at, n), Bytes(at, n), "ok", "error")
        BY <1>3 DEF I2cRead
    <2>3. Matching(bus, addr) # {} =>
            IsDevice(Advanced(at, n)) /\ Advanced(at, n).address = Device(bus, addr).address
        BY <2>1, DeviceThere, WrittenKeeps, AdvancedKeeps
    <2> HIDE DEF at
    <2> QED BY <1>0, <2>1, <2>2, <2>3, OnDeviceKeepsInv
<1>4. ASSUME NEW bus, NEW addr, NEW data, I2cWrite(bus, addr, data)
      PROVE  BusInv'
    <2> DEFINE new == Written(Device(bus, addr), data)
    <2>1. bus \in Buses /\ UNCHANGED <<board, bus_count, status>>
        BY <1>4, InRangeIsBus DEF I2cWrite, InRange, Client
    <2>2. OnDevice(bus, addr, new, << >>, "ok", "error")
        BY <1>4 DEF I2cWrite
    <2>3. Matching(bus, addr) # {} =>
            IsDevice(new) /\ new.address = Device(bus, addr).address
        BY <2>1, DeviceThere, WrittenKeeps
    <2> HIDE DEF new
    <2> QED BY <1>0, <2>1, <2>2, <2>3, OnDeviceKeepsInv
<1>5. ASSUME NEW bus, NEW addr, RemoveDevice(bus, addr)
      PROVE  BusInv'
    <2> DEFINE new == [Device(bus, addr) EXCEPT !.active = FALSE]
    <2>1. bus \in Buses /\ UNCHANGED <<board, bus_count, status>>
        BY <1>5, InRangeIsBus DEF RemoveDevice, InRange, Client
    <2>2. OnDevice(bus, addr, new, << >>, "ok", "error")
        BY <1>5 DEF RemoveDevice
    <2>3. Matching(bus, addr) # {} =>
            IsDevice(new) /\ new.address = Device(bus, addr).address
        BY <2>1, DeviceThere, GivenUp
    <2> HIDE DEF new
    <2> QED BY <1>0, <2>1, <2>2, <2>3, OnDeviceKeepsInv
<1>6. ASSUME NEW bus, NEW addr, NEW offset, NEW data, SetRegisters(bus, addr, offset, data)
      PROVE  BusInv'
    <2> DEFINE new == Patched(Device(bus, addr), offset, data)
    <2>1. bus \in Buses /\ UNCHANGED <<board, bus_count, status>>
        BY <1>6, InRangeIsBus DEF SetRegisters, InRange, Client
    <2>2. OnDevice(bus, addr, new, << >>, "ok", "error")
        BY <1>6 DEF SetRegisters
    <2>3. Matching(bus, addr) # {} =>
            IsDevice(new) /\ new.address = Device(bus, addr).address
        BY <2>1, DeviceThere, PatchedKeeps
    <2> HIDE DEF new
    <2> QED BY <1>0, <2>1, <2>2, <2>3, OnDeviceKeepsInv
<1>7. ASSUME NEW count, SetBusCount(count)
      PROVE  BusInv'
    BY <1>0, <1>7, SameSlotsKeepsInv DEF SetBusCount, Accepted
<1>8. CASE UnknownTag \/ ListBuses \/ GetStatus
    BY <1>0, <1>8, SameSlotsKeepsInv DEF UnknownTag, ListBuses, GetStatus, Client
<1>9. ASSUME NEW addr, NEW data, UsbWrite(addr, data)
      PROVE  BusInv'
    <2> DEFINE new == Written(Device(Resolve(addr), addr), data)
    <2>1. Resolve(addr) \in Buses
        BY ResolveInRange
    <2>2. UsbTransfer(addr, new, << >>)
        BY <1>9 DEF UsbWrite
    <2>3. Matching(Resolve(addr), addr) # {} =>
            IsDevice(new) /\ new.address = Device(Resolve(addr), addr).address
        BY <2>1, DeviceThere, WrittenKeeps
    <2> HIDE DEF new
    <2> QED BY <2>2, <2>3, UsbKeepsInv
<1>10. ASSUME NEW addr, NEW n, UsbRead(addr, n)
       PROVE  BusInv'
    <2> DEFINE d == Device(Resolve(addr), addr)
               new == Advanced(d, n)
    <2>1. Resolve(addr) \in Buses
        BY ResolveInRange
    <2>2. UsbTransfer(addr, new, Bytes(d, n))
        BY <1>10 DEF UsbRead
    <2>3. Matching(Resolve(addr), addr) # {} =>
            IsDevice(new) /\ new.address = Device(Resolve(addr), addr).address
        BY <2>1, DeviceThere, AdvancedKeeps
    <2> HIDE DEF new
    <2> QED BY <2>2, <2>3, UsbKeepsInv
<1>11. CASE UsbReset
    BY <1>0, <1>11, SameSlotsKeepsInv DEF UsbReset
<1> QED
    BY <1>1, <1>2, <1>3, <1>4, <1>5, <1>6, <1>7, <1>8, <1>9, <1>10, <1>11,
       AddKeepsInv, ClearKeepsInv
    DEF Next, ClientNext, HostNext

(* Whatever is added, removed and cleared, on whichever board: a slot is a *)
(* whole device, the buses there are stay in range, and no address is      *)
(* taken twice on one bus (i2c-hil-sim/src/runtime.rs add_device).         *)
THEOREM BusShapesHold == Spec => []BusInv
BY BusInit, BusStep, PTL DEF Spec

-------------------------------------------------------------------------------
(* What the USB host learns.                                               *)

\* GetStatus asks the first bus, however many buses there are.
FirstOf(n) == LET hits == { bus \in 0..(n - 1) : Interfaces[bus] = 0 }
              IN  IF hits = {} THEN 0 ELSE Min(hits)

LEMMA StatusOfFirst ==
    ASSUME NEW n \in Nat
    PROVE  FirstOf(n) = 0
<1> DEFINE hits == { bus \in 0..(n - 1) : Interfaces[bus] = 0 }
<1>1. hits \in SUBSET Nat /\ (hits # {} => 0 \in hits)
    BY BusesAssumption
<1>2. FirstOf(n) = IF hits = {} THEN 0 ELSE Min(hits)
    BY DEF FirstOf
<1> HIDE DEF hits
<1>3. CASE hits # {}
    <2>1. 0 \in hits /\ Min(hits) \in hits /\ \A y \in hits : Min(hits) <= y
        BY <1>1, <1>3, LeastNumber
    <2>2. Min(hits) \in Nat /\ Min(hits) <= 0
        BY <1>1, <2>1
    <2> QED BY <1>2, <1>3, <2>2
<1> QED BY <1>2, <1>3

LEMMA AskedStatus ==
    ASSUME BusInv, BusInv'
    PROVE  Resolve(0) = 0 /\ Resolve(0)' = 0
<1>1. bus_count \in Nat /\ bus_count' \in Nat
    BY BusesAssumption DEF BusInv, Shapes, FirstSimulated
<1>2. Resolve(0) = FirstOf(bus_count) /\ Resolve(0)' = FirstOf(bus_count')
    BY DEF Resolve, FirstOf
<1> QED BY <1>1, <1>2, StatusOfFirst

LEMMA OutcomeInit == Init => HostLearnsOutcome
BY DEF Init, HostLearnsOutcome

LEMMA OutcomeSame ==
    ASSUME BusInv, BusInv', HostLearnsOutcome, UNCHANGED <<status, host>>
    PROVE  HostLearnsOutcome'
BY AskedStatus DEF HostLearnsOutcome

LEMMA OutcomeStep ==
    BusInv /\ BusInv' /\ HostLearnsOutcome /\ [Next]_vars => HostLearnsOutcome'
<1> SUFFICES ASSUME BusInv, BusInv', HostLearnsOutcome, [Next]_vars
             PROVE  HostLearnsOutcome'
    OBVIOUS
<1>1. ASSUME NEW addr, NEW new, NEW data, UsbTransfer(addr, new, data)
      PROVE  HostLearnsOutcome'
    <2> DEFINE result == IF Matching(Resolve(addr), addr) = {} THEN "nak" ELSE "ack"
    <2>1. /\ status' = [status EXCEPT ![Resolve(addr)] = result]
          /\ host' = [addr |-> addr, result |-> result]
        BY <1>1 DEF UsbTransfer, Status
    <2>2. Resolve(addr) \in DOMAIN status
        BY ResolveInRange DEF BusInv, Shapes
    <2> HIDE DEF result
    <2>3. ASSUME \A bus \in 1..(MaxBuses - 1) : Interfaces[bus] # addr
          PROVE  status'[Resolve(0)'] = result
        <3>1. Resolve(addr) = 0 /\ Resolve(0)' = 0
            BY <2>3, ResolvesToFirst, AskedStatus
        <3> QED BY <2>1, <2>2, <3>1
    <2> QED BY <2>1, <2>3 DEF HostLearnsOutcome
<1>2. CASE UsbReset
    BY <1>2 DEF UsbReset, HostLearnsOutcome
<1>3. CASE ClientNext \/ GetStatus \/ UNCHANGED vars
    <2>1. UNCHANGED <<status, host>>
        BY <1>3 DEF ClientNext, GetStatus, vars, Client, InRange, OutOfRange, RealTransfer,
                    RealConfigure, I2cRead, I2cWrite, AddDevice, RemoveDevice, SetRegisters,
                    SetBusCount, ClearAll, UnknownTag, ListBuses
    <2> QED BY <2>1, OutcomeSame
<1> QED BY <1>1, <1>2, <1>3 DEF Next, HostNext, UsbWrite, UsbRead

(* The status that the USB host reads is that of its own last transfer,    *)
(* whatever the client did to the devices and the number of buses since.   *)
THEOREM HostLearnsTheOutcome == Spec => []HostLearnsOutcome
BY BusInit, BusStep, OutcomeInit, OutcomeStep, PTL DEF Spec

-------------------------------------------------------------------------------
(* The map of devices that a table of slots stands for.                    *)

Busy(table, bus) == { s \in Slots : table[bus][s].active }
At(table, bus, addr) == { s \in Busy(table, bus) : table[bus][s].address = addr }
Places(table) ==
    UNION { { <<bus, table[bus][s].address>> : s \in Busy(table, bus) } : bus \in DOMAIN table }
DevicesOf(table) ==
    [k \in Places(table) |-> Content(table[k[1]][Min(At(table, k[1], k[2]))])]

\* What BusInv says of the slots, of any table.
Tabled(table) ==
    /\ DOMAIN table = Buses
    /\ \A bus \in Buses, s, t \in Slots :
        /\ table[bus][s].active => table[bus][s].address \in Addresses
        /\ table[bus][s].active /\ table[bus][t].active
              /\ table[bus][s].address = table[bus][t].address => s = t

LEMMA InvTabled ==
    ASSUME BusInv PROVE Tabled(slots)
BY DEF BusInv, Shapes, Distinct, Tabled

LEMMA InvTabledNext ==
    ASSUME BusInv' PROVE Tabled(slots')
BY DEF BusInv, Shapes, Distinct, Tabled

LEMMA PlacesOf ==
    ASSUME NEW table, Tabled(table), NEW k
    PROVE  k \in Places(table) <=>
              \E bus \in Buses, s \in Slots :
                 table[bus][s].active /\ k = <<bus, table[bus][s].address>>
BY DEF Places, Busy, Tabled

LEMMA DeviceOf ==
    ASSUME NEW table, Tabled(table), NEW bus \in Buses, NEW s \in Slots, table[bus][s].active
    PROVE  /\ <<bus, table[bus][s].address>> \in Places(table)
           /\ DevicesOf(table)[<<bus, table[bus][s].address>>] = Content(table[bus][s])
<1> DEFINE addr == table[bus][s].address
           k == <<bus, addr>>
<1>1. k \in Places(table)
    BY PlacesOf
<1>2. At(table, bus, addr) = {s}
    BY DEF At, Busy, Tabled
<1>3. Min({s}) = s
    BY DEF Min, Slots
<1>4. k[1] = bus /\ k[2] = addr
    OBVIOUS
<1> HIDE DEF k
<1>5. DevicesOf(table)[k] = Content(table[k[1]][Min(At(table, k[1], k[2]))])
    BY <1>1 DEF DevicesOf
<1>6. DevicesOf(table)[k] = Content(table[bus][s])
    BY <1>2, <1>3, <1>4, <1>5
<1> QED BY <1>1, <1>6 DEF k

\* A map is known by its places and by the device in each slot.
LEMMA DevicesAre ==
    ASSUME NEW table, Tabled(table), NEW map, map = [k \in DOMAIN map |-> map[k]],
           \A k : k \in DOMAIN map <=> k \in Places(table),
           \A bus \in Buses, s \in Slots : table[bus][s].active =>
              map[<<bus, table[bus][s].address>>] = Content(table[bus][s])
    PROVE  DevicesOf(table) = map
<1>1. DOMAIN map = Places(table)
    OBVIOUS
<1>2. ASSUME NEW k \in Places(table) PROVE DevicesOf(table)[k] = map[k]
    <2>1. PICK bus \in Buses, s \in Slots :
            table[bus][s].active /\ k = <<bus, table[bus][s].address>>
        BY PlacesOf
    <2> QED BY <2>1, DeviceOf
<1>3. DevicesOf(table) = [k \in Places(table) |-> DevicesOf(table)[k]]
    BY DEF DevicesOf
<1> QED BY <1>1, <1>2, <1>3

LEMMA PlaceTaken ==
    ASSUME NEW table, Tabled(table), NEW bus \in Buses, NEW addr
    PROVE  <<bus, addr>> \in Places(table) <=> At(table, bus, addr) # {}
BY PlacesOf DEF At, Busy

\* A device is changed in place.
LEMMA MapChanged ==
    ASSUME NEW table, Tabled(table), NEW next, Tabled(next),
           NEW bus \in Buses, NEW s \in Slots, NEW new,
           table[bus][s].active, new.active, new.address = table[bus][s].address,
           \A b \in Buses, t \in Slots :
              next[b][t] = IF b = bus /\ t = s THEN new ELSE table[b][t]
    PROVE  DevicesOf(next) =
              [DevicesOf(table) EXCEPT ![<<bus, table[bus][s].address>>] = Content(new)]
<1> DEFINE k == <<bus, table[bus][s].address>>
           old == DevicesOf(table)
           map == [old EXCEPT ![k] = Content(new)]
<1>1. \A b \in Buses, t \in Slots :
        next[b][t].active = table[b][t].active /\ next[b][t].address = table[b][t].address
    <2>1. ASSUME NEW b \in Buses, NEW t \in Slots
          PROVE  next[b][t].active = table[b][t].active
                 /\ next[b][t].address = table[b][t].address
        <3>1. CASE b = bus /\ t = s
            <4>1. next[b][t] = new
                BY <3>1
            <4> QED BY <3>1, <4>1
        <3>2. CASE ~ (b = bus /\ t = s)
            <4>1. next[b][t] = table[b][t]
                BY <3>2
            <4> QED BY <4>1
        <3> QED BY <3>1, <3>2
    <2> QED BY <2>1
<1>2. \A p : p \in Places(next) <=> p \in Places(table)
    BY <1>1, PlacesOf
<1>3. DOMAIN old = Places(table) /\ k \in Places(table)
    BY DeviceOf DEF DevicesOf
<1>4. DOMAIN map = Places(table) /\ map = [p \in DOMAIN map |-> map[p]]
    BY <1>3
<1>5. ASSUME NEW b \in Buses, NEW t \in Slots, next[b][t].active
      PROVE  map[<<b, next[b][t].address>>] = Content(next[b][t])
    <2>1. table[b][t].active /\ next[b][t].address = table[b][t].address
        BY <1>1, <1>5
    <2>2. <<b, table[b][t].address>> \in Places(table)
          /\ old[<<b, table[b][t].address>>] = Content(table[b][t])
        BY <2>1, DeviceOf
    <2>3. CASE b = bus /\ t = s
        BY <1>3, <2>1, <2>3
    <2>4. CASE ~ (b = bus /\ t = s)
        <3>1. <<b, table[b][t].address>> # k
            BY <2>1, <2>4 DEF Tabled
        <3>2. next[b][t] = table[b][t]
            BY <2>4
        <3> QED BY <1>3, <2>1, <2>2, <3>1, <3>2
    <2> QED BY <2>3, <2>4
<1> HIDE DEF map
<1>6. DevicesOf(next) = map
    BY <1>2, <1>4, <1>5, DevicesAre
<1> QED BY <1>6 DEF map

\* A device comes.
LEMMA MapExtended ==
    ASSUME NEW table, Tabled(table), NEW next, Tabled(next),
           NEW bus \in Buses, NEW s \in Slots, NEW new,
           ~ table[bus][s].active, new.active,
           \A b \in Buses, t \in Slots :
              next[b][t] = IF b = bus /\ t = s THEN new ELSE table[b][t]
    PROVE  DevicesOf(next) =
              [k \in DOMAIN DevicesOf(table) \union {<<bus, new.address>>} |->
                 IF k = <<bus, new.address>> THEN Content(new) ELSE DevicesOf(table)[k]]
<1> DEFINE here == <<bus, new.address>>
           old == DevicesOf(table)
           map == [k \in DOMAIN old \union {here} |-> IF k = here THEN Content(new) ELSE old[k]]
<1>1. DOMAIN old = Places(table)
    BY DEF DevicesOf
<1>2. next[bus][s] = new
      /\ \A b \in Buses, t \in Slots : ~ (b = bus /\ t = s) => next[b][t] = table[b][t]
    OBVIOUS
<1>3. \A p : p \in Places(next) <=> p \in Places(table) \/ p = here
    <2>1. ASSUME NEW p \in Places(next) PROVE p \in Places(table) \/ p = here
        <3>1. PICK b \in Buses, t \in Slots :
                next[b][t].active /\ p = <<b, next[b][t].address>>
            BY PlacesOf
        <3>2. CASE b = bus /\ t = s
            BY <1>2, <3>1, <3>2
        <3>3. CASE ~ (b = bus /\ t = s)
            BY <1>2, <3>1, <3>3, PlacesOf
        <3> QED BY <3>2, <3>3
    <2>2. here \in Places(next)
        BY <1>2, PlacesOf
    <2>3. ASSUME NEW p \in Places(table) PROVE p \in Places(next)
        <3>1. PICK b \in Buses, t \in Slots :
                table[b][t].active /\ p = <<b, table[b][t].address>>
            BY PlacesOf
        <3>2. ~ (b = bus /\ t = s)
            BY <3>1
        <3> QED BY <1>2, <3>1, <3>2, PlacesOf
    <2> QED BY <2>1, <2>2, <2>3
<1>4. map = [p \in DOMAIN map |-> map[p]] /\ \A p : p \in DOMAIN map <=> p \in Places(next)
    BY <1>1, <1>3
<1>5. ASSUME NEW b \in Buses, NEW t \in Slots, next[b][t].active
      PROVE  map[<<b, next[b][t].address>>] = Content(next[b][t])
    <2>1. CASE b = bus /\ t = s
        BY <1>2, <2>1
    <2>2. CASE ~ (b = bus /\ t = s)
        <3>1. next[b][t] = table[b][t]
            BY <1>2, <2>2
        <3>2. <<b, table[b][t].address>> \in Places(table)
              /\ old[<<b, table[b][t].address>>] = Content(table[b][t])
            BY <1>5, <3>1, DeviceOf
        <3>3. <<b, next[b][t].address>> # here
            BY <1>2, <1>5, <2>2 DEF Tabled
        <3> QED BY <1>1, <3>1, <3>2, <3>3
    <2> QED BY <2>1, <2>2
<1> HIDE DEF map
<1>6. DevicesOf(next) = map
    BY <1>4, <1>5, DevicesAre
<1> QED BY <1>6 DEF map

\* A device is removed.
LEMMA MapReduced ==
    ASSUME NEW table, Tabled(table), NEW next, Tabled(next),
           NEW bus \in Buses, NEW s \in Slots, NEW new,
           table[bus][s].active, ~ new.active,
           \A b \in Buses, t \in Slots :
              next[b][t] = IF b = bus /\ t = s THEN new ELSE table[b][t]
    PROVE  DevicesOf(next) =
              [k \in DOMAIN DevicesOf(table) \ {<<bus, table[bus][s].address>>} |->
                 DevicesOf(table)[k]]
<1> DEFINE here == <<bus, table[bus][s].address>>
           old == DevicesOf(table)
           map == [k \in DOMAIN old \ {here} |-> old[k]]
<1>1. DOMAIN old = Places(table)
    BY DEF DevicesOf
<1>2. next[bus][s] = new
      /\ \A b \in Buses, t \in Slots : ~ (b = bus /\ t = s) => next[b][t] = table[b][t]
    OBVIOUS
<1>3. ASSUME NEW b \in Buses, NEW t \in Slots, next[b][t].active
      PROVE  /\ next[b][t] = table[b][t]
             /\ <<b, next[b][t].address>> \in Places(table) \ {here}
    <2>1. ~ (b = bus /\ t = s)
        BY <1>2, <1>3
    <2>2. next[b][t] = table[b][t]
        BY <1>2, <2>1
    <2>3. <<b, next[b][t].address>> # here
        BY <1>3, <2>1, <2>2 DEF Tabled
    <2> QED BY <1>3, <2>2, <2>3, PlacesOf
<1>4. \A p : p \in Places(next) <=> p \in Places(table) \ {here}
    <2>1. ASSUME NEW p \in Places(next) PROVE p \in Places(table) \ {here}
        BY <1>3, PlacesOf
    <2>2. ASSUME NEW p \in Places(table) \ {here} PROVE p \in Places(next)
        <3>1. PICK b \in Buses, t \in Slots :
                table[b][t].active /\ p = <<b, table[b][t].address>>
            BY PlacesOf
        <3>2. ~ (b = bus /\ t = s)
            BY <3>1
        <3> QED BY <1>2, <3>1, <3>2, PlacesOf
    <2> QED BY <2>1, <2>2
<1>5. map = [p \in DOMAIN map |-> map[p]] /\ \A p : p \in DOMAIN map <=> p \in Places(next)
    BY <1>1, <1>4
<1>6. ASSUME NEW b \in Buses, NEW t \in Slots, next[b][t].active
      PROVE  map[<<b, next[b][t].address>>] = Content(next[b][t])
    <2>1. /\ next[b][t] = table[b][t]
          /\ <<b, next[b][t].address>> \in DOMAIN old \ {here}
        BY <1>1, <1>3, <1>6
    <2>2. old[<<b, table[b][t].address>>] = Content(table[b][t])
        BY <1>6, <2>1, DeviceOf
    <2> QED BY <2>1, <2>2
<1> HIDE DEF map
<1>7. DevicesOf(next) = map
    BY <1>5, <1>6, DevicesAre
<1> QED BY <1>7 DEF map

LEMMA MapEmptied ==
    ASSUME NEW table, Tabled(table), \A bus \in Buses, s \in Slots : ~ table[bus][s].active
    PROVE  DevicesOf(table) = << >>
<1>1. Places(table) = {}
    BY PlacesOf
<1> QED BY <1>1 DEF DevicesOf

-------------------------------------------------------------------------------
(* Counting the devices on a bus, and listing them.                        *)

LEMMA SlotsCount ==
    IsFiniteSet(Slots) /\ Cardinality(Slots) = MaxDevices
BY BusesAssumption, FS_Interval DEF Slots

LEMMA ActiveCount ==
    ASSUME NEW bus
    PROVE  /\ IsFiniteSet(Active(bus)) /\ Cardinality(Active(bus)) \in Nat
           /\ Cardinality(Active(bus)) = MaxDevices <=> Slots \ Active(bus) = {}
<1>1. Active(bus) \in SUBSET Slots
    BY DEF Active
<1>2. IsFiniteSet(Active(bus)) /\ (Cardinality(Active(bus)) = MaxDevices => Active(bus) = Slots)
    BY <1>1, SlotsCount, FS_Subset
<1>3. Cardinality(Active(bus)) \in Nat
    BY <1>2, FS_CardinalityType
<1> QED BY <1>1, <1>2, <1>3, SlotsCount

\* As many addresses are taken as there are devices.
AddressesOf(bus) == { a \in Addresses : <<bus, a>> \in DOMAIN DevicesOf(slots) }

LEMMA AddressesAre ==
    ASSUME BusInv, NEW bus \in Buses
    PROVE  /\ AddressesOf(bus) = { slots[bus][s].address : s \in Active(bus) }
           /\ Cardinality(AddressesOf(bus)) = Cardinality(Active(bus))
<1> DEFINE f == [s \in Active(bus) |-> slots[bus][s].address]
           T == { slots[bus][s].address : s \in Active(bus) }
<1>1. \A a : <<bus, a>> \in DOMAIN DevicesOf(slots) <=>
                \E s \in Slots : slots[bus][s].active /\ a = slots[bus][s].address
    BY InvTabled, PlacesOf DEF DevicesOf
<1>2. AddressesOf(bus) = T
    BY <1>1 DEF AddressesOf, Active, BusInv, Distinct
<1>3. f \in [Active(bus) -> T] /\ \A a \in T : \E s \in Active(bus) : f[s] = a
    OBVIOUS
<1>4. \A s, t \in Active(bus) : f[s] = f[t] => s = t
    BY DEF Active, BusInv, Distinct
<1> HIDE DEF f, T
<1>5. f \in Bijection(Active(bus), T)
    BY <1>3, <1>4 DEF Bijection, Injection, Surjection, IsInjective
<1>6. ExistsBijection(Active(bus), T)
    BY <1>5 DEF ExistsBijection
<1>7. Cardinality(T) = Cardinality(Active(bus))
    BY <1>6, ActiveCount, FS_Bijection
<1> QED BY <1>2, <1>7 DEF T

\* The devices of a bus are numbered by the active slots before them.
Before(bus, s) == { t \in Active(bus) : t < s }

LEMMA SlotNumbers ==
    ASSUME NEW bus
    PROVE  /\ \A s \in Active(bus) : Cardinality(Before(bus, s)) \in
                                        0..(Cardinality(Active(bus)) - 1)
           /\ \A s, t \in Active(bus) :
                 Cardinality(Before(bus, s)) = Cardinality(Before(bus, t)) => s = t
<1>0. \A s \in Active(bus) : s \in Nat
    BY DEF Active, Slots
<1>1. ASSUME NEW s \in Active(bus)
      PROVE  /\ IsFiniteSet(Before(bus, s)) /\ Cardinality(Before(bus, s)) \in Nat
             /\ Cardinality(Before(bus, s)) < Cardinality(Active(bus))
    <2>1. Before(bus, s) \in SUBSET Active(bus) /\ s \notin Before(bus, s)
        BY <1>0 DEF Before
    <2>2. IsFiniteSet(Active(bus)) /\ Cardinality(Active(bus)) \in Nat
        BY ActiveCount
    <2>3. /\ IsFiniteSet(Before(bus, s))
          /\ Cardinality(Before(bus, s)) <= Cardinality(Active(bus))
          /\ Cardinality(Active(bus)) = Cardinality(Before(bus, s)) =>
                Active(bus) = Before(bus, s)
        BY <2>1, <2>2, FS_Subset
    <2>4. Cardinality(Before(bus, s)) \in Nat
        BY <2>3, FS_CardinalityType
    <2>5. Active(bus) # Before(bus, s)
        BY <2>1
    <2> QED BY <2>2, <2>3, <2>4, <2>5
<1>2. ASSUME NEW s \in Active(bus), NEW t \in Active(bus), s < t
      PROVE  Cardinality(Before(bus, s)) # Cardinality(Before(bus, t))
    <2>1. Before(bus, s) \in SUBSET Before(bus, t)
        BY <1>0, <1>2 DEF Before
    <2>2. s \in Before(bus, t) /\ s \notin Before(bus, s)
        BY <1>0, <1>2 DEF Before
    <2>3. IsFiniteSet(Before(bus, t))
        BY <1>1
    <2>4. Cardinality(Before(bus, t)) = Cardinality(Before(bus, s)) =>
                Before(bus, t) = Before(bus, s)
        BY <2>1, <2>3, FS_Subset
    <2> QED BY <2>2, <2>4
<1>3. Cardinality(Active(bus)) \in Nat
    BY ActiveCount
<1>4. \A s \in Active(bus) : Cardinality(Before(bus, s)) \in
                                        0..(Cardinality(Active(bus)) - 1)
    BY <1>1, <1>3
<1>5. \A s, t \in Active(bus) :
                 Cardinality(Before(bus, s)) = Cardinality(Before(bus, t)) => s = t
    <2>1. ASSUME NEW s \in Active(bus), NEW t \in Active(bus),
                 Cardinality(Before(bus, s)) = Cardinality(Before(bus, t))
          PROVE  s = t
        <3>1. s \in Nat /\ t \in Nat
            BY <1>0
        <3>2. ~ (s < t)
            BY <2>1, <1>2
        <3>3. ~ (t < s)
            BY <2>1, <1>2
        <3> QED BY <3>1, <3>2, <3>3
    <2> QED BY <2>1
<1> QED BY <1>4, <1>5

\* Every number up to their number is that of one of them, which it finds.
LEMMA NumbersFind ==
    ASSUME NEW bus
    PROVE  /\ \A i \in 0..(Cardinality(Active(bus)) - 1) : NthActive(bus, i) \in Active(bus)
           /\ \A s \in Active(bus) :
                 NthActive(bus, Cardinality(Before(bus, s))) = s
<1> DEFINE n == Cardinality(Active(bus))
           rank == [s \in Active(bus) |-> Cardinality(Before(bus, s))]
<1>1. IsFiniteSet(Active(bus)) /\ n \in Nat
    BY ActiveCount
<1>2. rank \in [Active(bus) -> 0..(n - 1)]
      /\ \A s, t \in Active(bus) : rank[s] = rank[t] => s = t
    BY SlotNumbers
<1>3. IsFiniteSet(0..(n - 1)) /\ Cardinality(0..(n - 1)) = n
    BY <1>1, FS_Interval
<1>4. \A i, s : s \in Active(bus) => (rank[s] = i <=> Cardinality(Before(bus, s)) = i)
    OBVIOUS
<1>5. \A i : NthActive(bus, i) = CHOOSE s \in Active(bus) : Cardinality(Before(bus, s)) = i
    BY DEF NthActive, Before
<1> HIDE DEF rank
<1>6. rank \in Injection(Active(bus), 0..(n - 1))
    BY <1>2 DEF Injection, IsInjective
<1>7. rank \in Surjection(Active(bus), 0..(n - 1))
    BY <1>3, <1>6, FS_Injection
<1>8. \A i \in 0..(n - 1) : \E s \in Active(bus) : rank[s] = i
    BY <1>7 DEF Surjection
<1>9. ASSUME NEW i \in 0..(n - 1) PROVE NthActive(bus, i) \in Active(bus)
    <2>1. PICK s \in Active(bus) : Cardinality(Before(bus, s)) = i
        BY <1>4, <1>8
    <2> QED BY <1>5, <2>1
<1>10. ASSUME NEW s \in Active(bus)
       PROVE  NthActive(bus, Cardinality(Before(bus, s))) = s
    <2>1. \A t \in Active(bus) : Cardinality(Before(bus, t)) = Cardinality(Before(bus, s)) => t = s
        BY <1>2, <1>4
    <2> QED BY <1>5, <2>1
<1> QED BY <1>9, <1>10

\* A list shows each device once and nothing else.
LEMMA ListShows ==
    ASSUME BusInv, NEW bus \in Buses
    PROVE  /\ Len(Entries(bus)) = Cardinality(Active(bus))
           /\ Range(Entries(bus)) = AddressesOf(bus)
<1> DEFINE n == Cardinality(Active(bus))
           listed == [i \in 1..n |-> slots[bus][NthActive(bus, i - 1)].address]
<1>1. n \in Nat
    BY ActiveCount
<1>2. \A i \in 1..n : i - 1 \in 0..(n - 1)
    BY <1>1
<1>3. \A i \in 1..n : NthActive(bus, i - 1) \in Active(bus)
    BY <1>2, NumbersFind
<1>4. \A s \in Active(bus) : \E i \in 1..n : NthActive(bus, i - 1) = s
    <2>1. ASSUME NEW s \in Active(bus) PROVE \E i \in 1..n : NthActive(bus, i - 1) = s
        <3> DEFINE r == Cardinality(Before(bus, s))
        <3>1. r \in 0..(n - 1)
            BY SlotNumbers
        <3>2. r + 1 \in 1..n /\ (r + 1) - 1 = r
            BY <1>1, <3>1
        <3>3. NthActive(bus, r) = s
            BY NumbersFind
        <3> HIDE DEF r
        <3>4. NthActive(bus, (r + 1) - 1) = s
            BY <3>2, <3>3
        <3> QED BY <3>2, <3>4
    <2> QED BY <2>1
<1>5. \A s \in Active(bus) : slots[bus][s].address \in Addresses
    BY DEF Active, BusInv, Distinct
<1>6. listed \in [1..n -> Addresses]
    BY <1>3, <1>5
<1>7. { listed[i] : i \in 1..n } = { slots[bus][s].address : s \in Active(bus) }
    BY <1>3, <1>4
<1>8. Entries(bus) = listed
    BY DEF Entries
<1> HIDE DEF n, listed
<1>9. listed \in Seq(Addresses) /\ DOMAIN listed = 1..n
    BY <1>1, <1>6
<1>10. Len(listed) = n
    BY <1>1, <1>9
<1>11. Range(listed) = { listed[i] : i \in 1..n }
    BY <1>9 DEF Range
<1> QED BY <1>7, <1>8, <1>10, <1>11, AddressesAre DEF n

-------------------------------------------------------------------------------
(* Every step is a step of the map of devices, or shows nothing.           *)

LEMMA DevicesMapped ==
    /\ BusInv => Devices = DevicesOf(slots)
    /\ BusInv' => Devices' = DevicesOf(slots')
<1>1. ASSUME BusInv PROVE Devices = DevicesOf(slots)
    <2>1. Shown = Places(slots)
        BY DEF Shown, Places, Active, Busy
    <2>2. \A k : Matching(k[1], k[2]) = At(slots, k[1], k[2])
        BY DEF Matching, Active, At, Busy
    <2> QED BY <2>1, <2>2 DEF Devices, DevicesOf, Content
<1>2. ASSUME BusInv' PROVE Devices' = DevicesOf(slots')
    <2>1. Shown' = Places(slots')
        BY DEF Shown, Places, Active, Busy
    <2>2. \A k : Matching(k[1], k[2])' = At(slots', k[1], k[2])
        BY DEF Matching, Active, At, Busy
    <2> QED BY <2>1, <2>2 DEF Devices, DevicesOf, Content
<1> QED BY <1>1, <1>2

LEMMA SameOperators ==
    ASSUME NEW d, NEW data, NEW n, NEW offset
    PROVE  /\ Map!Written(d, data) = Written(d, data)
           /\ Map!Advanced(d, n) = Advanced(d, n)
           /\ Map!Bytes(d, n) = Bytes(d, n)
           /\ Map!Patched(d, offset, data) = Patched(d, offset, data)
           /\ Map!Contents(data) = Contents(data)
<1>1. Map!Written(d, data) = Written(d, data)
    BY DEF Map!Written, Written
<1>2. Map!Advanced(d, n) = Advanced(d, n)
    BY DEF Map!Advanced, Advanced
<1>3. Map!Bytes(d, n) = Bytes(d, n)
    BY DEF Map!Bytes, Bytes
<1>4. Map!Patched(d, offset, data) = Patched(d, offset, data)
    BY DEF Map!Patched, Patched
<1>5. Map!Contents(data) = Contents(data)
    BY DEF Map!Contents, Contents
<1> QED BY <1>1, <1>2, <1>3, <1>4, <1>5

LEMMA SameCount ==
    \A S : Map!Cardinality(S) = Cardinality(S)
BY Zenon DEF Map!Cardinality, Cardinality

\* Answers look the same, but for the bytes of a status and for lists.
LEMMA PlainAnswer ==
    ASSUME NEW result, NEW data, Answered(result, data), result \notin {"status", "list"}
    PROVE  AnswerSeen' = [result |-> result, data |-> data]
BY DEF Answered, AnswerSeen

LEMMA SameAnswer ==
    ASSUME UNCHANGED answer PROVE UNCHANGED AnswerSeen
BY DEF AnswerSeen

LEMMA SameDevices ==
    ASSUME BusInv, BusInv', UNCHANGED slots PROVE UNCHANGED Devices
BY DevicesMapped

LEMMA SameBoard ==
    ASSUME UNCHANGED board PROVE UNCHANGED <<FirstSimulated, Refusal, Named>>
BY DEF FirstSimulated, Refusal, Named

LEMMA HasDevice ==
    ASSUME BusInv, NEW bus \in Buses, NEW addr
    PROVE  /\ <<bus, addr>> \in DOMAIN Devices <=> Matching(bus, addr) # {}
           /\ Matching(bus, addr) # {} =>
                 Devices[<<bus, addr>>] = Content(Device(bus, addr))
<1>1. DOMAIN Devices = Places(slots)
    BY DevicesMapped DEF DevicesOf
<1>2. At(slots, bus, addr) = Matching(bus, addr)
    BY DEF At, Busy, Matching, Active
<1>3. <<bus, addr>> \in DOMAIN Devices <=> Matching(bus, addr) # {}
    BY <1>1, <1>2, InvTabled, PlaceTaken
<1>4. ASSUME Matching(bus, addr) # {}
      PROVE  Devices[<<bus, addr>>] = Content(Device(bus, addr))
    <2> DEFINE s == Min(Matching(bus, addr))
    <2>1. s \in Slots /\ slots[bus][s].active /\ slots[bus][s].address = addr
        BY <1>4, MatchingDevice
    <2>2. Device(bus, addr) = slots[bus][s]
        BY DEF Device
    <2> HIDE DEF s
    <2> QED BY <2>1, <2>2, InvTabled, DeviceOf, DevicesMapped
<1> QED BY <1>3, <1>4

\* A request to one device is a transfer of the map.
LEMMA TransferMapped ==
    ASSUME BusInv, BusInv', NEW bus \in Buses, NEW addr, NEW new, NEW data, NEW yes, NEW no,
           OnDevice(bus, addr, new, data, yes, no),
           Matching(bus, addr) # {} =>
              new.active /\ new.address = addr,
           {yes, no} \intersect {"status", "list"} = {}
    PROVE  Map!Transfer(bus, addr, Content(new), data, yes, no)
<1>1. CASE Matching(bus, addr) # {}
    <2> DEFINE s == Min(Matching(bus, addr))
    <2>1. s \in Slots /\ slots[bus][s].active /\ slots[bus][s].address = addr
        BY <1>1, MatchingDevice
    <2>2. slots' = Put(bus, s, new) /\ Answered(yes, data)
        BY <1>1 DEF OnDevice, Put
    <2> HIDE DEF s
    <2>3. \A b \in Buses, t \in Slots :
            slots'[b][t] = IF b = bus /\ t = s THEN new ELSE slots[b][t]
        BY <2>1, <2>2, SlotUpdate
    <2>4. new.active /\ new.address = slots[bus][s].address
        BY <1>1, <2>1
    <2>5. Tabled(slots) /\ Tabled(slots')
        BY InvTabled, InvTabledNext
    <2>6. DevicesOf(slots') =
              [DevicesOf(slots) EXCEPT ![<<bus, slots[bus][s].address>>] = Content(new)]
        BY <2>1, <2>3, <2>4, <2>5, MapChanged
    <2>7. Devices' = [Devices EXCEPT ![<<bus, addr>>] = Content(new)]
        BY <2>1, <2>6, DevicesMapped
    <2>8. <<bus, addr>> \in DOMAIN Devices
        BY <1>1, HasDevice
    <2>9. AnswerSeen' = [result |-> yes, data |-> data]
        BY <2>2, PlainAnswer
    <2> QED BY <2>7, <2>8, <2>9 DEF Map!Transfer, Map!Answered
<1>2. CASE Matching(bus, addr) = {}
    <2>1. UNCHANGED slots /\ Answered(no, << >>)
        BY <1>2 DEF OnDevice, Answers
    <2>2. UNCHANGED Devices
        BY <2>1, SameDevices
    <2>3. <<bus, addr>> \notin DOMAIN Devices
        BY <1>2, HasDevice
    <2>4. AnswerSeen' = [result |-> no, data |-> << >>]
        BY <2>1, PlainAnswer
    <2> QED BY <2>2, <2>3, <2>4 DEF Map!Transfer, Map!Answered
<1> QED BY <1>1, <1>2

\* A request of the client, of a bus and a device that it may name.
LEMMA ClientMapped ==
    ASSUME UNCHANGED <<board, bus_count>>, Map!ClientRequest
    PROVE  Map!Next
BY SameBoard DEF Map!Next

LEMMA NamedBus ==
    ASSUME BusInv, NEW bus, InRange(bus)
    PROVE  bus \in FirstSimulated..(bus_count - 1) /\ bus \in Buses
           /\ UNCHANGED <<board, bus_count>>
BY InRangeIsBus DEF InRange, Client

LEMMA ReadMapped ==
    ASSUME BusInv, BusInv', NEW bus, NEW addr \in Addresses, NEW reg \in 0..(Registers - 1),
           NEW n \in Lengths, I2cRead(bus, addr, reg, n)
    PROVE  Map!Next
<1> DEFINE at == Written(Device(bus, addr), <<reg>>)
           from == Written(Devices[<<bus, addr>>], <<reg>>)
<1>1. bus \in FirstSimulated..(bus_count - 1) /\ bus \in Buses /\ UNCHANGED <<board, bus_count>>
    BY NamedBus DEF I2cRead
<1>2. OnDevice(bus, addr, Advanced(at, n), Bytes(at, n), "ok", "error")
    BY DEF I2cRead
<1>3. ASSUME Matching(bus, addr) # {}
      PROVE  /\ Advanced(at, n).active /\ Advanced(at, n).address = addr
             /\ Content(Advanced(at, n)) = Advanced(from, n) /\ Bytes(at, n) = Bytes(from, n)
    <2>1. IsDevice(Device(bus, addr)) /\ Device(bus, addr).active
          /\ Device(bus, addr).address = addr
        BY <1>1, <1>3, DeviceThere
    <2>2. IsDevice(at) /\ at.active /\ at.address = addr
          /\ Content(at) = Written(Content(Device(bus, addr)), <<reg>>)
        BY <2>1, WrittenKeeps
    <2>3. Content(at) = from
        BY <1>1, <1>3, <2>2, HasDevice
    <2> HIDE DEF at, from
    <2> QED BY <2>2, <2>3, AdvancedKeeps
<1> HIDE DEF at
<1>4. Map!Transfer(bus, addr, Content(Advanced(at, n)), Bytes(at, n), "ok", "error")
    BY <1>1, <1>2, <1>3, TransferMapped
<1>5. Matching(bus, addr) = {} => <<bus, addr>> \notin DOMAIN Devices
    BY <1>1, HasDevice
<1>6. Map!Transfer(bus, addr, Advanced(from, n), Bytes(from, n), "ok", "error")
    BY <1>1, <1>3, <1>4, <1>5, HasDevice DEF Map!Transfer
<1>7. Map!Read(bus, addr, reg, n)
    BY <1>6, SameOperators DEF Map!Read
<1>8. Map!ClientRequest
    BY <1>1, <1>7 DEF Map!ClientRequest
<1> QED BY <1>1, <1>8, ClientMapped

LEMMA WriteMapped ==
    ASSUME BusInv, BusInv', NEW bus, NEW addr \in Addresses, NEW data \in Payloads,
           I2cWrite(bus, addr, data)
    PROVE  Map!Next
<1> DEFINE new == Written(Device(bus, addr), data)
           to == Written(Devices[<<bus, addr>>], data)
<1>1. bus \in FirstSimulated..(bus_count - 1) /\ bus \in Buses /\ UNCHANGED <<board, bus_count>>
    BY NamedBus DEF I2cWrite
<1>2. OnDevice(bus, addr, new, << >>, "ok", "error")
    BY DEF I2cWrite
<1>3. ASSUME Matching(bus, addr) # {}
      PROVE  new.active /\ new.address = addr /\ Content(new) = to
    BY <1>1, <1>3, DeviceThere, WrittenKeeps, HasDevice
<1> HIDE DEF new, to
<1>4. Map!Transfer(bus, addr, Content(new), << >>, "ok", "error")
    BY <1>1, <1>2, <1>3, TransferMapped
<1>5. Map!Transfer(bus, addr, to, << >>, "ok", "error")
    BY <1>1, <1>3, <1>4, HasDevice DEF Map!Transfer
<1>6. Map!Write(bus, addr, data)
    BY <1>5, SameOperators DEF Map!Write, to
<1>7. Map!ClientRequest
    BY <1>1, <1>6 DEF Map!ClientRequest
<1> QED BY <1>1, <1>7, ClientMapped

LEMMA PatchMapped ==
    ASSUME BusInv, BusInv', NEW bus, NEW addr \in Addresses,
           NEW offset \in 0..(Registers - 1), NEW data \in Payloads,
           SetRegisters(bus, addr, offset, data)
    PROVE  Map!Next
<1> DEFINE new == Patched(Device(bus, addr), offset, data)
           to == Patched(Devices[<<bus, addr>>], offset, data)
<1>1. bus \in FirstSimulated..(bus_count - 1) /\ bus \in Buses /\ UNCHANGED <<board, bus_count>>
    BY NamedBus DEF SetRegisters
<1>2. OnDevice(bus, addr, new, << >>, "ok", "error")
    BY DEF SetRegisters
<1>3. ASSUME Matching(bus, addr) # {}
      PROVE  new.active /\ new.address = addr /\ Content(new) = to
    BY <1>1, <1>3, DeviceThere, PatchedKeeps, HasDevice
<1> HIDE DEF new, to
<1>4. Map!Transfer(bus, addr, Content(new), << >>, "ok", "error")
    BY <1>1, <1>2, <1>3, TransferMapped
<1>5. Map!Transfer(bus, addr, to, << >>, "ok", "error")
    BY <1>1, <1>3, <1>4, HasDevice DEF Map!Transfer
<1>6. Map!SetRegisters(bus, addr, offset, data)
    BY <1>5, SameOperators DEF Map!SetRegisters, to
<1>7. Map!ClientRequest
    BY <1>1, <1>6 DEF Map!ClientRequest
<1> QED BY <1>1, <1>7, ClientMapped

LEMMA AddMapped ==
    ASSUME BusInv, BusInv', NEW bus, NEW addr \in Addresses, NEW data \in Images,
           AddDevice(bus, addr, data)
    PROVE  Map!Next
<1> DEFINE free == Slots \ Active(bus)
           s == Min(free)
           new == Placed(slots[bus][s], addr, data)
           full == Map!Cardinality(Map!Occupied(bus)) = MaxDevices
<1>1. bus \in FirstSimulated..(bus_count - 1) /\ bus \in Buses /\ UNCHANGED <<board, bus_count>>
    BY NamedBus DEF AddDevice
<1>2. full <=> free = {}
    <2>1. Map!Occupied(bus) = AddressesOf(bus)
        BY DevicesMapped DEF Map!Occupied, AddressesOf
    <2>2. Cardinality(AddressesOf(bus)) = Cardinality(Active(bus))
        BY <1>1, AddressesAre
    <2> QED BY <2>1, <2>2, SameCount, ActiveCount
<1>3. <<bus, addr>> \in DOMAIN Devices <=> Matching(bus, addr) # {}
    BY <1>1, HasDevice
<1>4. CASE Matching(bus, addr) # {} \/ free = {}
    <2>1. Answered("error", << >>) /\ UNCHANGED slots
        BY <1>4 DEF AddDevice, Answers
    <2>2. UNCHANGED Devices /\ AnswerSeen' = [result |-> "error", data |-> << >>]
        BY <2>1, SameDevices, PlainAnswer
    <2>3. full \/ <<bus, addr>> \in DOMAIN Devices
        BY <1>2, <1>3, <1>4
    <2>4. Map!Add(bus, addr, data)
        BY <2>2, <2>3 DEF Map!Add, Map!Answered
    <2> QED BY <1>1, <2>4, ClientMapped DEF Map!ClientRequest
<1>5. CASE Matching(bus, addr) = {} /\ free # {}
    <2>1. s \in Slots /\ ~ slots[bus][s].active
        BY <1>5, FreeSlot DEF Active
    <2>2. slots' = [slots EXCEPT ![bus][s] = Placed(@, addr, data)] /\ Answered("ok", << >>)
        BY <1>5 DEF AddDevice, Answers
    <2>3. slots' = Put(bus, s, new)
        BY <2>2 DEF Put, Placed
    <2>4. new.active /\ new.address = addr
          /\ Content(new) = [registers |-> Contents(data), pointer |-> 0]
        BY DEF Placed, Content
    <2> HIDE DEF s, new
    <2>5. \A b \in Buses, t \in Slots :
            slots'[b][t] = IF b = bus /\ t = s THEN new ELSE slots[b][t]
        BY <1>1, <2>1, <2>3, SlotUpdate
    <2>6. Tabled(slots) /\ Tabled(slots')
        BY InvTabled, InvTabledNext
    <2>7. DevicesOf(slots') =
              [k \in DOMAIN DevicesOf(slots) \union {<<bus, new.address>>} |->
                 IF k = <<bus, new.address>> THEN Content(new) ELSE DevicesOf(slots)[k]]
        BY <1>1, <2>1, <2>4, <2>5, <2>6, MapExtended
    <2>8. Devices' =
              [k \in DOMAIN Devices \union {<<bus, addr>>} |->
                 IF k = <<bus, addr>> THEN [registers |-> Contents(data), pointer |-> 0]
                 ELSE Devices[k]]
        BY <2>4, <2>7, DevicesMapped
    <2>9. AnswerSeen' = [result |-> "ok", data |-> << >>]
        BY <2>2, PlainAnswer
    <2>10. ~ full /\ <<bus, addr>> \notin DOMAIN Devices
        BY <1>2, <1>3, <1>5
    <2>11. Map!Add(bus, addr, data)
        BY <2>8, <2>9, <2>10, SameOperators DEF Map!Add, Map!Answered
    <2> QED BY <1>1, <2>11, ClientMapped DEF Map!ClientRequest
<1> QED BY <1>4, <1>5

LEMMA RemoveMapped ==
    ASSUME BusInv, BusInv', NEW bus, NEW addr \in Addresses, RemoveDevice(bus, addr)
    PROVE  Map!Next
<1> DEFINE new == [Device(bus, addr) EXCEPT !.active = FALSE]
           s == Min(Matching(bus, addr))
           gone == {<<bus, addr>>} \intersect DOMAIN Devices
<1>1. bus \in FirstSimulated..(bus_count - 1) /\ bus \in Buses /\ UNCHANGED <<board, bus_count>>
    BY NamedBus DEF RemoveDevice
<1>2. OnDevice(bus, addr, new, << >>, "ok", "error")
    BY DEF RemoveDevice
<1>3. <<bus, addr>> \in DOMAIN Devices <=> Matching(bus, addr) # {}
    BY <1>1, HasDevice
<1>4. Map!Remove(bus, addr)
    <2>1. CASE Matching(bus, addr) # {}
        <3>1. s \in Slots /\ slots[bus][s].active /\ slots[bus][s].address = addr
            BY <1>1, <2>1, MatchingDevice
        <3>2. slots' = Put(bus, s, new) /\ Answered("ok", << >>)
            BY <1>2, <2>1 DEF OnDevice, Put
        <3>3. ~ new.active
            BY <1>1, <2>1, DeviceThere, GivenUp
        <3> HIDE DEF s, new
        <3>4. \A b \in Buses, t \in Slots :
                slots'[b][t] = IF b = bus /\ t = s THEN new ELSE slots[b][t]
            BY <1>1, <3>1, <3>2, SlotUpdate
        <3>5. Tabled(slots) /\ Tabled(slots')
            BY InvTabled, InvTabledNext
        <3>6. DevicesOf(slots') =
                  [k \in DOMAIN DevicesOf(slots) \ {<<bus, slots[bus][s].address>>} |->
                     DevicesOf(slots)[k]]
            BY <1>1, <3>1, <3>3, <3>4, <3>5, MapReduced
        <3>7. Devices' = [k \in DOMAIN Devices \ {<<bus, addr>>} |-> Devices[k]]
            BY <3>1, <3>6, DevicesMapped
        <3>8. AnswerSeen' = [result |-> "ok", data |-> << >>]
            BY <3>2, PlainAnswer
        <3>9. gone = {<<bus, addr>>}
            BY <1>3, <2>1
        <3> QED BY <3>7, <3>8, <3>9 DEF Map!Remove, Map!Answered
    <2>2. CASE Matching(bus, addr) = {}
        <3>1. UNCHANGED slots /\ Answered("error", << >>)
            BY <1>2, <2>2 DEF OnDevice, Answers
        <3>2. UNCHANGED Devices /\ AnswerSeen' = [result |-> "error", data |-> << >>]
            BY <3>1, SameDevices, PlainAnswer
        <3>3. gone = {}
            BY <1>3, <2>2
        <3>4. Devices = [k \in DOMAIN Devices \ {} |-> Devices[k]]
            BY DEF Devices
        <3> HIDE DEF gone
        <3>5. Devices' = [k \in DOMAIN Devices \ gone |-> Devices[k]]
            BY <3>2, <3>3, <3>4
        <3> QED BY <3>2, <3>3, <3>5 DEF Map!Remove, Map!Answered, gone
    <2> QED BY <2>1, <2>2
<1> QED BY <1>1, <1>4, ClientMapped DEF Map!ClientRequest

LEMMA UsbMapped ==
    ASSUME BusInv, BusInv', NEW addr \in Addresses,
           \/ \E data \in Payloads : UsbWrite(addr, data)
           \/ \E n \in Lengths : UsbRead(addr, n)
    PROVE  Map!Next
<1> DEFINE bus == Resolve(addr)
           d == Device(bus, addr)
           of == Devices[<<bus, addr>>]
<1>1. bus \in 0..(MaxBuses - 1) /\ bus \in Buses
    BY ResolveInRange DEF Buses
<1> HIDE DEF bus
<1>2. Matching(bus, addr) # {} =>
        /\ IsDevice(d) /\ d.active /\ d.address = addr
        /\ <<bus, addr>> \in DOMAIN Devices /\ of = Content(d)
    BY <1>1, DeviceThere, HasDevice
<1>3. Matching(bus, addr) = {} => <<bus, addr>> \notin DOMAIN Devices
    BY <1>1, HasDevice
<1> HIDE DEF d, of
<1>4. ASSUME NEW data \in Payloads, UsbWrite(addr, data)
      PROVE  UNCHANGED <<board, bus_count>> /\ Map!UsbWrite(bus, addr, data)
    <2> DEFINE new == Written(d, data)
    <2>1. OnDevice(bus, addr, new, << >>, "ack", "nak") /\ UNCHANGED <<board, bus_count>>
        BY <1>4 DEF UsbWrite, UsbTransfer, bus, d
    <2>2. Matching(bus, addr) # {} =>
            new.active /\ new.address = addr /\ Content(new) = Written(of, data)
        BY <1>2, WrittenKeeps
    <2> HIDE DEF new
    <2>3. Map!Transfer(bus, addr, Content(new), << >>, "ack", "nak")
        BY <1>1, <2>1, <2>2, TransferMapped
    <2>4. Map!Transfer(bus, addr, Written(of, data), << >>, "ack", "nak")
        BY <1>2, <1>3, <2>2, <2>3 DEF Map!Transfer
    <2> QED BY <2>1, <2>4, SameOperators DEF Map!UsbWrite, of
<1>5. ASSUME NEW n \in Lengths, UsbRead(addr, n)
      PROVE  UNCHANGED <<board, bus_count>> /\ Map!UsbRead(bus, addr, n)
    <2> DEFINE new == Advanced(d, n)
    <2>1. OnDevice(bus, addr, new, Bytes(d, n), "ack", "nak") /\ UNCHANGED <<board, bus_count>>
        BY <1>5 DEF UsbRead, UsbTransfer, bus, d
    <2>2. Matching(bus, addr) # {} =>
            /\ new.active /\ new.address = addr /\ Content(new) = Advanced(of, n)
            /\ Bytes(d, n) = Bytes(of, n)
        BY <1>2, AdvancedKeeps
    <2> HIDE DEF new
    <2>3. Map!Transfer(bus, addr, Content(new), Bytes(d, n), "ack", "nak")
        BY <1>1, <2>1, <2>2, TransferMapped
    <2>4. Map!Transfer(bus, addr, Advanced(of, n), Bytes(of, n), "ack", "nak")
        BY <1>2, <1>3, <2>2, <2>3 DEF Map!Transfer
    <2> QED BY <2>1, <2>4, SameOperators DEF Map!UsbRead, of
<1>6. UNCHANGED <<board, bus_count>> /\ Map!UsbRequest
    BY <1>1, <1>4, <1>5 DEF Map!UsbRequest
<1> QED BY <1>6, SameBoard DEF Map!Next

LEMMA ListMapped ==
    ASSUME BusInv, BusInv', ListBuses
    PROVE  Map!Next
<1> DEFINE shown == [bus \in 0..(bus_count - 1) |->
                        [announced |-> Cardinality(Active(bus)),
                         entries |-> IF board = "pico2" THEN << >> ELSE Entries(bus)]]
           all(bus) == Cardinality(Map!Occupied(bus))
           seen(bus) == IF Named THEN <<all(bus), all(bus), Map!Occupied(bus)>>
                        ELSE <<all(bus), 0, {}>>
<1>1. Answered("list", shown) /\ UNCHANGED slots /\ UNCHANGED <<board, bus_count>>
    BY DEF ListBuses, Client
<1>2. ASSUME NEW bus \in DOMAIN shown
      PROVE  <<shown[bus].announced, Len(shown[bus].entries), Range(shown[bus].entries)>>
                = seen(bus)
    <2>1. bus \in Buses
        BY BusesAssumption DEF BusInv, Shapes, FirstSimulated, Buses
    <2>2. Map!Occupied(bus) = AddressesOf(bus)
        BY DevicesMapped DEF Map!Occupied, AddressesOf
    <2>3. all(bus) = Cardinality(Active(bus))
        BY <2>1, <2>2, AddressesAre
    <2>4. shown[bus].announced = Cardinality(Active(bus))
          /\ shown[bus].entries = IF board = "pico2" THEN << >> ELSE Entries(bus)
        OBVIOUS
    <2>5. CASE board = "pico2"
        <3>1. Len(<< >>) = 0 /\ Range(<< >>) = {}
            BY DEF Range
        <3> QED BY <2>3, <2>4, <2>5, <3>1 DEF Named
    <2>6. CASE board # "pico2"
        <3>1. Len(Entries(bus)) = Cardinality(Active(bus))
              /\ Range(Entries(bus)) = Map!Occupied(bus)
            BY <2>1, <2>2, ListShows
        <3> QED BY <2>3, <2>4, <2>6, <3>1 DEF Named
    <2> QED BY <2>5, <2>6
<1>3. Seen(shown) = [bus \in 0..(bus_count - 1) |-> seen(bus)]
    BY <1>2 DEF Seen
<1>4. AnswerSeen' = [result |-> "list", data |-> Seen(shown)]
    <2> HIDE DEF shown
    <2>1. answer' = [result |-> "list", data |-> shown]
        BY <1>1 DEF Answered
    <2> QED BY <2>1 DEF AnswerSeen
<1>5. Map!Answered("list", [bus \in 0..(bus_count - 1) |->
             LET n == Map!Cardinality(Map!Occupied(bus))
             IN  IF Named THEN <<n, n, Map!Occupied(bus)>> ELSE <<n, 0, {}>>])
    BY <1>3, <1>4, SameCount DEF Map!Answered
<1>6. Map!Query
    BY <1>1, <1>5, SameDevices DEF Map!Query
<1> QED BY <1>1, <1>6, SameBoard DEF Map!Next

LEMMA StatusMapped ==
    ASSUME BusInv, BusInv', GetStatus
    PROVE  Map!Next
<1>1. /\ answer' = [result |-> "status", data |-> status[Resolve(0)]]
      /\ UNCHANGED slots /\ UNCHANGED <<board, bus_count>>
    BY DEF GetStatus, Client, Answered
<1>2. AnswerSeen' = [result |-> "status", data |-> << >>]
    BY <1>1 DEF AnswerSeen
<1>3. Map!Query
    BY <1>1, <1>2, SameDevices DEF Map!Query, Map!Answered
<1> QED BY <1>1, <1>3, SameBoard DEF Map!Next

LEMMA ClearMapped ==
    ASSUME BusInv, BusInv', ClearAll
    PROVE  Map!Next
<1>1. slots' = [bus \in Buses |-> [s \in Slots |-> [slots[bus][s] EXCEPT !.active = FALSE]]]
    BY DEF ClearAll, BusInv, Shapes
<1>2. ASSUME NEW bus \in Buses, NEW s \in Slots PROVE ~ slots'[bus][s].active
    <2>1. IsDevice(slots[bus][s])
        BY DEF BusInv, Shapes
    <2>2. slots'[bus][s] = [slots[bus][s] EXCEPT !.active = FALSE]
        BY <1>1
    <2> QED BY <2>1, <2>2, GivenUp
<1>3. Devices' = << >>
    BY <1>2, InvTabledNext, MapEmptied, DevicesMapped
<1>4. bus_count' = FirstSimulated /\ UNCHANGED board /\ Answered("ok", << >>)
    BY DEF ClearAll, Answers
<1>5. AnswerSeen' = [result |-> "ok", data |-> << >>]
    BY <1>4, PlainAnswer
<1>6. Map!Config
    BY <1>3, <1>4, <1>5 DEF Map!Config, Map!Answered
<1> QED BY <1>4, <1>6, SameBoard DEF Map!Next

\* Requests that change no device and no count.
LEMMA RefusalMapped ==
    ASSUME BusInv, BusInv', NEW bus \in Buses,
           OutOfRange(bus) \/ RealTransfer(bus) \/ RealConfigure(bus)
    PROVE  Map!Next
<1>1. UNCHANGED slots /\ UNCHANGED <<board, bus_count>>
    BY DEF OutOfRange, RealTransfer, RealConfigure, Client
<1>2. bus \in Nat /\ bus < MaxBuses /\ bus_count \in Nat /\ FirstSimulated \in Nat
      /\ MaxBuses \in Nat
    BY BusesAssumption DEF Buses, BusInv, Shapes, FirstSimulated
<1>3. CASE OutOfRange(bus)
    <2>1. Answered(Refusal, << >>) /\ bus_count < MaxBuses
        BY <1>2, <1>3 DEF OutOfRange, Answers, Refusal
    <2>2. Refusal \notin {"status", "list"}
        BY DEF Refusal
    <2>3. AnswerSeen' = [result |-> Refusal, data |-> << >>]
        BY <2>1, <2>2, PlainAnswer
    <2>4. Map!ClientRequest
        BY <1>1, <2>1, <2>3, SameDevices DEF Map!ClientRequest, Map!Answered
    <2> QED BY <1>1, <2>4, ClientMapped
<1>4. CASE RealTransfer(bus) \/ RealConfigure(bus)
    <2>1. FirstSimulated > 0 /\ (Answered("ok", << >>) \/ Answered("error", << >>))
        BY <1>2, <1>4 DEF RealTransfer, RealConfigure, Answers
    <2>2. AnswerSeen' = [result |-> "ok", data |-> << >>]
          \/ AnswerSeen' = [result |-> "error", data |-> << >>]
        BY <2>1, PlainAnswer
    <2>3. Map!ClientRequest
        BY <1>1, <2>1, <2>2, SameDevices DEF Map!ClientRequest, Map!Answered
    <2> QED BY <1>1, <2>3, ClientMapped
<1> QED BY <1>3, <1>4

LEMMA CountMapped ==
    ASSUME BusInv, BusInv', NEW count, SetBusCount(count) \/ UnknownTag
    PROVE  Map!Next
<1>1. UNCHANGED <<slots, board>>
    BY DEF SetBusCount, UnknownTag, Client
<1>2. \/ Answered("error", << >>) /\ UNCHANGED bus_count
      \/ Answered("ok", << >>) /\ bus_count' \in FirstSimulated..MaxBuses
    BY DEF SetBusCount, UnknownTag, Client, Accepted, Answers
<1>3. \/ AnswerSeen' = [result |-> "error", data |-> << >>] /\ UNCHANGED bus_count
      \/ AnswerSeen' = [result |-> "ok", data |-> << >>]
         /\ bus_count' \in FirstSimulated..MaxBuses
    BY <1>2, PlainAnswer
<1>4. Map!Config
    BY <1>1, <1>3, SameDevices DEF Map!Config, Map!Answered
<1> QED BY <1>1, <1>4, SameBoard DEF Map!Next

LEMMA Stutters ==
    ASSUME BusInv, BusInv', UNCHANGED <<board, slots, bus_count, answer>>
    PROVE  UNCHANGED Map!vars
BY SameDevices, SameBoard, SameAnswer DEF Map!vars

LEMMA MapInit == Init => Map!Init
<1> SUFFICES ASSUME Init PROVE Map!Init
    OBVIOUS
<1>1. BusInv
    BY BusInit
<1>2. \A bus \in Buses, s \in Slots : ~ slots[bus][s].active
    BY DEF Init, Buses
<1>3. Devices = << >>
    BY <1>1, <1>2, InvTabled, MapEmptied, DevicesMapped
<1>4. FirstSimulated \in 0..MaxBuses /\ bus_count \in FirstSimulated..MaxBuses
    BY <1>1, BusesAssumption DEF BusInv, Shapes, FirstSimulated
<1>5. AnswerSeen = [result |-> "none", data |-> << >>]
    BY DEF Init, AnswerSeen
<1>6. Refusal \in {"error", "none"} /\ Named \in BOOLEAN
    BY DEF Refusal, Named
<1> QED BY <1>3, <1>4, <1>5, <1>6 DEF Map!Init

LEMMA MapStep == BusInv /\ BusInv' /\ [Next]_vars => [Map!Next]_(Map!vars)
<1> SUFFICES ASSUME BusInv, BusInv', [Next]_vars
             PROVE  Map!Next \/ UNCHANGED Map!vars
    OBVIOUS
<1>1. CASE UNCHANGED vars
    BY <1>1, Stutters DEF vars
<1>2. CASE ClientNext
    <2>1. ASSUME NEW bus \in 0..(MaxBuses - 1),
                 OutOfRange(bus) \/ RealTransfer(bus) \/ RealConfigure(bus)
          PROVE  Map!Next
        BY <2>1, RefusalMapped DEF Buses
    <2>2. ASSUME NEW bus, NEW addr \in Addresses,
                 \/ \E reg \in 0..(Registers - 1), n \in Lengths : I2cRead(bus, addr, reg, n)
                 \/ \E data \in Payloads : I2cWrite(bus, addr, data)
                 \/ \E data \in Images : AddDevice(bus, addr, data)
                 \/ RemoveDevice(bus, addr)
                 \/ \E offset \in 0..(Registers - 1), data \in Payloads :
                       SetRegisters(bus, addr, offset, data)
          PROVE  Map!Next
        BY <2>2, ReadMapped, WriteMapped, AddMapped, RemoveMapped, PatchMapped
    <2> QED BY <1>2, <2>1, <2>2, CountMapped, ClearMapped, ListMapped DEF ClientNext
<1>3. CASE HostNext
    <2>1. CASE UsbReset
        BY <2>1, Stutters DEF UsbReset
    <2> QED BY <1>3, <2>1, UsbMapped, StatusMapped DEF HostNext
<1> QED BY <1>1, <1>2, <1>3 DEF Next

(* The buses are a map: at an address there is one device, which only      *)
(* requests that name it change; it comes with its own registers, an add   *)
(* fails only where the address or every slot is taken, and a list names   *)
(* each device that requests will find, once.                              *)
THEOREM BusesImplementMap == Spec => BusMapSpec
BY BusInit, BusStep, MapInit, MapStep, PTL DEF Spec, BusMapSpec, Map!Spec
================================================================================
