---------------------------- MODULE FwUpdateProofs ----------------------------
(***************************************************************************)
(* Proofs about FwUpdate, for any images, partition, sectors and bounds,   *)
(* whatever is lost, fails or is cut off: what the server counts is what   *)
(* the flash keeps of it, what the panel calls complete is marked for the  *)
(* bootloader, and the device is one that confirms only whole images.      *)
(***************************************************************************)
EXTENDS FwUpdate, SequenceTheorems, TLAPS

\* Whenever the panel is at work it has a file.
FileChosen == panel # "Idle" => file \in Images

(* The inductive invariant: the panel's requests are well-formed because   *)
(* it has a file, the chunks they ask for are in range because the server  *)
(* acknowledges only what it wrote.                                        *)
IInv == TypeOK /\ FileChosen /\ FlashKeepsLast

-------------------------------------------------------------------------------
(* What the messages carry.                                                *)

LEMMA BeginFields ==
    ASSUME NEW r \in Requests, r.tag = "FwBegin"
    PROVE  r.crc \in Images /\ r.total = ImageSize[r.crc]
BY DEF Requests, FwBegin, FwChunk, FwFinish, FwMarkBooted, OtherRequest

LEMMA ChunkFields ==
    ASSUME NEW r \in Requests, r.tag = "FwChunk"
    PROVE  /\ r.offset \in 0..Partition
           /\ r.data = << >> \/ \E i \in Images : r.data = << i >>
<1>1. PICK at \in 0..Partition, i \in Images : r = FwChunk(at, i)
    BY DEF Requests, FwBegin, FwChunk, FwFinish, FwMarkBooted, OtherRequest
<1> QED BY <1>1 DEF FwChunk

LEMMA DataLength ==
    ASSUME NEW data, data = << >> \/ \E i \in Images : data = << i >>
    PROVE  /\ data \in Seq(Images)
           /\ data = << >> => Len(data) = 0
           /\ data # << >> => Len(data) = 1 /\ data[1] \in Images
<1>1. CASE data = << >>
    BY <1>1
<1>2. ASSUME NEW i \in Images, data = << i >>
      PROVE  data \in Seq(Images) /\ Len(data) = 1 /\ data[1] \in Images
    BY <1>2
<1> QED BY <1>1, <1>2

LEMMA SendTypes ==
    ASSUME requests \in Seq(Requests), NEW r \in Requests, Send(r)
    PROVE  requests' \in Seq(Requests)
BY DEF Send

LEMMA ReplyTypes ==
    ASSUME requests \in Seq(Requests), requests # << >>,
           responses \in Seq(Responses), NEW r \in Responses, Reply(r)
    PROVE  requests' \in Seq(Requests) /\ responses' \in Seq(Responses)
BY DEF Reply

LEMMA ErrorTypes == Error \in Responses /\ FwReady \in Responses
    /\ FwFinishAck \in Responses /\ FwMarkBootedAck \in Responses
    /\ \A next \in 0..Partition : FwChunkAck(next) \in Responses
BY DEF Responses

LEMMA RequestTypes ==
    ASSUME NEW i \in Images, NEW at \in 0..Partition
    PROVE  /\ FwBegin(i) \in Requests /\ FwFinish(i) \in Requests
           /\ FwChunk(at, i) \in Requests
BY DEF Requests

LEMMA CellTypes ==
    /\ Erased \in Cells
    /\ \A i \in Images : Pure(i) \in Cells /\ Torn(i) \in Cells
BY DEF Erased, Pure, Torn, Cells

-------------------------------------------------------------------------------
(* Sectors.                                                                *)

LEMMA SectorsInOrder ==
    ASSUME NEW j \in Nat \ {0}, NEW k \in Nat \ {0}, j <= k
    PROVE  SectorOf(j) \in Nat /\ SectorOf(k) \in Nat /\ SectorOf(j) <= SectorOf(k)
<1>1. /\ SectorSize \in Nat \ {0} /\ j - 1 \in Nat /\ k - 1 \in Nat
      /\ j - 1 <= k - 1
    BY SectorAssumption
<1>2. \A n \in Nat \ {0} : \A a, b \in Nat :
            a <= b => a \div n \in Nat /\ b \div n \in Nat /\ a \div n <= b \div n
    OBVIOUS
<1> QED BY <1>1, <1>2 DEF SectorOf

\* What comes later is in no sector that ended before.
LEMMA SectorLeft ==
    ASSUME NEW at \in Nat, NEW k \in 1..at, SectorOf(k + 1) # SectorOf(k)
    PROVE  SectorOf(k) # SectorOf(at + 1)
<1>1. k \in Nat \ {0} /\ k + 1 \in Nat \ {0} /\ at + 1 \in Nat \ {0}
      /\ k <= k + 1 /\ k + 1 <= at + 1
    OBVIOUS
<1>2. /\ SectorOf(k) \in Nat /\ SectorOf(k + 1) \in Nat /\ SectorOf(at + 1) \in Nat
      /\ SectorOf(k) <= SectorOf(k + 1) /\ SectorOf(k + 1) <= SectorOf(at + 1)
    BY <1>1, SectorsInOrder
<1> QED BY <1>2

\* If the first chunk ends its sector, then so does every other.
LEMMA FirstOfMany ==
    ASSUME SectorOf(2) # SectorOf(1), NEW k \in Nat \ {0}
    PROVE  SectorOf(k + 1) # SectorOf(k)
<1>1. SectorSize \in Nat \ {0} /\ 1 \div SectorSize # 0 \div SectorSize
    BY SectorAssumption DEF SectorOf
<1>2. \A n \in Nat \ {0} : 0 \div n = 0 /\ (1 \div n # 0 => n = 1)
    OBVIOUS
<1>3. SectorSize = 1
    BY <1>1, <1>2
<1>4. \A a \in Nat : a \div 1 = a
    OBVIOUS
<1> QED BY <1>3, <1>4 DEF SectorOf

-------------------------------------------------------------------------------
(* A write leaves the other sectors alone and its own sector erased.       *)

LEMMA WipedCells ==
    ASSUME dfu \in Partitions, NEW cells
    PROVE  /\ Wiped(cells) \in Partitions
           /\ \A k \in 1..Partition :
                /\ k \in cells => Wiped(cells)[k] = Erased
                /\ k \notin cells => Wiped(cells)[k] = dfu[k]
BY CellTypes DEF Wiped, Partitions

LEMMA SectorCells ==
    ASSUME NEW at \in Nat
    PROVE  \A k \in 1..Partition :
                k \in Sector(at) <=> SectorOf(k) = SectorOf(at + 1)
BY DEF Sector

LEMMA WriteCells ==
    ASSUME dfu \in Partitions, NEW at \in Nat, NEW data,
           data = << >> \/ \E i \in Images : data = << i >>,
           WriteDfu(at, data)
    PROVE  /\ dfu' \in Partitions
           /\ at + Len(data) <= Partition
           /\ data = << >> => UNCHANGED dfu
           /\ data # << >> =>
                /\ dfu'[at + 1] = Pure(data[1])
                /\ \A k \in 1..at :
                     dfu'[k] = IF SectorOf(k) = SectorOf(at + 1)
                               THEN Erased ELSE dfu[k]
<1> USE PartitionAssumption
<1>1. at + Len(data) <= Partition
    BY DEF WriteDfu, InRange
<1>2. CASE data = << >>
    BY <1>1, <1>2 DEF WriteDfu
<1>3. CASE data # << >>
    <2>1. data[1] \in Images /\ at + 1 <= Partition
        BY <1>1, <1>3, DataLength
    <2> DEFINE p == Wiped(Sector(at))
    <2>2. p \in Partitions /\ Pure(data[1]) \in Cells
        BY <2>1, WipedCells, CellTypes
    <2>3. dfu' = [p EXCEPT ![at + 1] = Pure(data[1])]
        BY <1>3 DEF WriteDfu
    <2>4. \A k \in 1..at : p[k] = IF SectorOf(k) = SectorOf(at + 1)
                                  THEN Erased ELSE dfu[k]
        <3> SUFFICES ASSUME NEW k \in 1..at
                     PROVE  p[k] = IF SectorOf(k) = SectorOf(at + 1)
                                   THEN Erased ELSE dfu[k]
            OBVIOUS
        <3>1. k \in 1..Partition
            BY <2>1
        <3> QED BY <3>1, WipedCells, SectorCells
    <2> HIDE DEF p
    <2> DEFINE cell == Pure(data[1])
    <2> HIDE DEF cell
    <2>5. /\ dfu' \in Partitions /\ dfu'[at + 1] = cell
          /\ \A k \in 1..Partition : k # at + 1 => dfu'[k] = p[k]
        <3>1. cell \in Cells /\ dfu' = [p EXCEPT ![at + 1] = cell]
            BY <2>2, <2>3 DEF cell
        <3>2. at + 1 \in 1..Partition
            BY <2>1
        <3> QED BY <2>2, <3>1, <3>2 DEF Partitions
    <2>6. \A k \in 1..at : k \in 1..Partition /\ k # at + 1
        BY <2>1
    <2> QED BY <1>1, <1>3, <2>4, <2>5, <2>6 DEF cell
<1> QED BY <1>2, <1>3

LEMMA FailedWriteCells ==
    ASSUME dfu \in Partitions, NEW at \in Nat, NEW data,
           data = << >> \/ \E i \in Images : data = << i >>,
           WriteDfuFails(at, data)
    PROVE  /\ dfu' \in Partitions
           /\ \/ UNCHANGED dfu
              \/ /\ Len(data) = 1 /\ at + 1 <= Partition
                 /\ \A k \in 1..at :
                      \/ dfu'[k] = dfu[k]
                      \/ SectorOf(k) = SectorOf(at + 1) /\ dfu'[k] = Erased
<1> USE PartitionAssumption
<1>1. CASE UNCHANGED dfu
    BY <1>1
<1>2. CASE /\ InRange(at, data) /\ data # << >>
           /\ \/ \E cells \in SUBSET Sector(at) : dfu' = Wiped(cells)
              \/ dfu' = [Wiped(Sector(at)) EXCEPT ![at + 1] = Torn(data[1])]
    <2>1. Len(data) = 1 /\ data[1] \in Images /\ at + 1 <= Partition
        BY <1>2, DataLength DEF InRange
    <2>2. \A k \in 1..at : k \in 1..Partition /\ k # at + 1
        BY <2>1
    <2>3. ASSUME NEW cells \in SUBSET Sector(at)
          PROVE  /\ Wiped(cells) \in Partitions
                 /\ \A k \in 1..at :
                      \/ Wiped(cells)[k] = dfu[k]
                      \/ SectorOf(k) = SectorOf(at + 1) /\ Wiped(cells)[k] = Erased
        BY <2>2, WipedCells, SectorCells
    <2>4. CASE \E cells \in SUBSET Sector(at) : dfu' = Wiped(cells)
        BY <2>1, <2>3, <2>4
    <2>5. CASE dfu' = [Wiped(Sector(at)) EXCEPT ![at + 1] = Torn(data[1])]
        <3> DEFINE p == Wiped(Sector(at))
        <3>1. p \in Partitions /\ Torn(data[1]) \in Cells
            BY <2>1, WipedCells, CellTypes
        <3>2. \A k \in 1..at :
                 \/ p[k] = dfu[k]
                 \/ SectorOf(k) = SectorOf(at + 1) /\ p[k] = Erased
            BY <2>3
        <3>3. dfu' = [p EXCEPT ![at + 1] = Torn(data[1])]
            BY <2>5
        <3> HIDE DEF p
        <3> DEFINE cell == Torn(data[1])
        <3> HIDE DEF cell
        <3>4. /\ dfu' \in Partitions
              /\ \A k \in 1..Partition : k # at + 1 => dfu'[k] = p[k]
            <4>1. cell \in Cells /\ dfu' = [p EXCEPT ![at + 1] = cell]
                BY <3>1, <3>3 DEF cell
            <4>2. at + 1 \in 1..Partition
                BY <2>1
            <4> QED BY <3>1, <4>1, <4>2 DEF Partitions
        <3> QED BY <2>1, <2>2, <3>2, <3>4
    <2> QED BY <1>2, <2>4, <2>5
<1> QED BY <1>1, <1>2 DEF WriteDfuFails

-------------------------------------------------------------------------------
LEMMA FwInit == Init => IInv
<1> SUFFICES ASSUME Init PROVE IInv
    OBVIOUS
<1> USE PartitionAssumption, FactoryAssumption
<1>1. Pure(Factory) \in Cells /\ Erased \in Cells
    BY CellTypes
<1>2. dfu \in Partitions /\ active \in Partitions
    BY <1>1 DEF Init, Partitions
<1>3. requests \in Seq(Requests) /\ responses \in Seq(Responses)
    BY DEF Init
<1>4. conn \in BOOLEAN /\ swapped \in BOOLEAN /\ up \in BOOLEAN
    BY DEF Init
<1>5. TypeOK
    BY <1>2, <1>3, <1>4 DEF Init, TypeOK
<1>6. FileChosen /\ FlashKeepsLast
    BY DEF Init, FileChosen, FlashKeepsLast, Idle
<1> QED BY <1>5, <1>6 DEF IInv

-------------------------------------------------------------------------------
(* What a step changes of the panel and of the link.                       *)

LEMMA FlashStable ==
    ASSUME FlashKeepsLast, UNCHANGED <<fw, dfu>>
    PROVE  FlashKeepsLast'
BY DEF FlashKeepsLast

\* Where the panel and the link are well-typed and the device is untouched.
LEMMA PanelTypes ==
    ASSUME IInv, UNCHANGED <<fw, up>>, marked' \in {marked, {}}, UNCHANGED flash,
           panel' \in {"Idle", "FileSelected", "WaitingReady", "Uploading",
                       "WaitingFinish", "Complete", "Error"},
           file' \in Images \union {NoImage},
           panel' # "Idle" => file' \in Images,
           offset' \in 0..Partition, conn' \in BOOLEAN,
           requests' \in Seq(Requests), responses' \in Seq(Responses)
    PROVE  IInv'
<1>1. TypeOK'
    <2>1. \/ fw' \in {Idle, Complete}
          \/ /\ fw'.state = "Receiving"
             /\ fw'.crc \in Images /\ fw'.total = ImageSize[fw'.crc]
             /\ fw'.received \in 0..fw'.total
             /\ fw'.hashed \in Seq(Images)
        BY Zenon DEF IInv, TypeOK
    <2>2. /\ dfu' \in Partitions /\ active' \in Partitions
          /\ magic' \in {"boot", "swap"}
          /\ swapped' \in BOOLEAN /\ up' \in BOOLEAN
        BY Zenon DEF IInv, TypeOK, flash
    <2>3. marked' \subseteq Images
        BY DEF IInv, TypeOK
    <2> QED BY <2>1, <2>2, <2>3, Zenon DEF TypeOK
<1>2. FileChosen'
    BY DEF FileChosen
<1>3. FlashKeepsLast'
    BY FlashStable DEF IInv, flash
<1> QED BY <1>1, <1>2, <1>3 DEF IInv

LEMMA PanelStep ==
    ASSUME IInv,
           \/ \E i \in Images : SelectFile(i)
           \/ StartUpload \/ ResetState \/ LeavePanel
           \/ MarkBooted \/ SendOther
    PROVE  IInv'
<1> USE PartitionAssumption
<1>0. /\ FwMarkBooted \in Requests /\ OtherRequest \in Requests
      /\ 0 \in 0..Partition
    BY DEF Requests
<1>1. ASSUME NEW i \in Images, SelectFile(i) PROVE IInv'
    BY <1>0, <1>1, PanelTypes DEF SelectFile, link, IInv, TypeOK
<1>2. CASE StartUpload
    <2>1. file \in Images
        BY <1>2 DEF StartUpload, IInv, FileChosen
    <2>2. requests' \in Seq(Requests)
        BY <1>2, <2>1, SendTypes, RequestTypes, <1>0 DEF StartUpload, IInv, TypeOK
    <2> QED BY <1>2, <2>1, <2>2, PanelTypes DEF StartUpload, IInv, TypeOK
<1>3. CASE ResetState \/ LeavePanel
    BY <1>0, <1>3, PanelTypes DEF ResetState, LeavePanel, link, IInv, TypeOK
<1>4. CASE MarkBooted \/ SendOther
    <2>1. requests' \in Seq(Requests)
        BY <1>0, <1>4, SendTypes DEF MarkBooted, SendOther, IInv, TypeOK
    <2>2. UNCHANGED <<conn, responses, fw, up, marked>> /\ UNCHANGED ui
            /\ UNCHANGED flash
        BY <1>4 DEF MarkBooted, SendOther
    <2>3. panel' # "Idle" => file' \in Images
        BY <2>2 DEF ui, IInv, FileChosen
    <2> QED BY <2>1, <2>2, <2>3, PanelTypes DEF ui, IInv, TypeOK
<1> QED BY <1>1, <1>2, <1>3, <1>4

LEMMA ResponseStep == ASSUME IInv, OnResponse PROVE IInv'
<1> USE PartitionAssumption
<1>1. /\ Head(responses) \in Responses
      /\ responses' \in Seq(Responses)
    BY DEF OnResponse, IInv, TypeOK
<1>2. 0 \in 0..Partition
    OBVIOUS
<1>3. ASSUME NEW at \in 0..Partition, panel # "Idle", SendChunk(at)
      PROVE  panel' = "Uploading" /\ offset' \in 0..Partition
                /\ requests' \in Seq(Requests)
    <2>1. file \in Images
        BY <1>3 DEF IInv, FileChosen
    <2> QED BY <1>3, <2>1, RequestTypes, SendTypes DEF SendChunk, IInv, TypeOK
<1>4. /\ panel' \in {"Uploading", "WaitingFinish", "Complete", "Error", panel}
      /\ offset' \in 0..Partition
      /\ requests' \in Seq(Requests)
      /\ panel = "Idle" => panel' = "Idle"
    <2>1. CASE OnReady
        BY <2>1, <1>2, <1>3 DEF OnReady
    <2>2. CASE OnChunkAck
        <3>1. Head(responses).next \in 0..Partition
            BY <1>1, <2>2 DEF OnChunkAck, Responses, FwChunkAck, FwReady,
                FwFinishAck, FwMarkBootedAck, Error
        <3>2. file \in Images
            BY <2>2 DEF OnChunkAck, IInv, FileChosen
        <3>3. CASE SendChunk(Head(responses).next)
            BY <2>2, <3>1, <3>3, <1>3 DEF OnChunkAck
        <3>4. CASE /\ panel' = "WaitingFinish" /\ Send(FwFinish(file))
                   /\ UNCHANGED offset
            BY <1>2, <2>2, <3>2, <3>4, RequestTypes, SendTypes
            DEF OnChunkAck, IInv, TypeOK
        <3> QED BY <2>2, <3>3, <3>4 DEF OnChunkAck
    <2>3. CASE OnFinishAck \/ OnError \/ OnOther
        BY <2>3 DEF OnFinishAck, OnError, OnOther, IInv, TypeOK
    <2> QED BY <2>1, <2>2, <2>3 DEF OnResponse
<1>5. UNCHANGED <<file, conn, fw, up, marked>> /\ UNCHANGED flash
    BY DEF OnResponse
<1>6. panel' # "Idle" => file' \in Images
    BY <1>4, <1>5 DEF IInv, FileChosen
<1> QED BY <1>1, <1>4, <1>5, <1>6, PanelTypes DEF IInv, TypeOK

-------------------------------------------------------------------------------
(* What a step changes of the device.                                      *)

FwTyped(s) ==
    \/ s \in {Idle, Complete}
    \/ /\ s.state = "Receiving"
       /\ s.crc \in Images /\ s.total = ImageSize[s.crc]
       /\ s.received \in 0..s.total
       /\ s.hashed \in Seq(Images)

LEMMA DeviceTypes ==
    ASSUME IInv, UNCHANGED ui, conn' \in BOOLEAN,
           requests' \in Seq(Requests), responses' \in Seq(Responses),
           FwTyped(fw'),
           dfu' \in Partitions, active' \in Partitions,
           magic' \in {"boot", "swap"}, swapped' \in BOOLEAN, up' \in BOOLEAN,
           marked' \subseteq Images,
           FlashKeepsLast'
    PROVE  IInv'
<1>1. /\ panel' \in {"Idle", "FileSelected", "WaitingReady", "Uploading",
                     "WaitingFinish", "Complete", "Error"}
      /\ file' \in Images \union {NoImage}
      /\ offset' \in 0..Partition
      /\ FileChosen'
    BY Zenon DEF IInv, TypeOK, FileChosen, ui
<1>2. TypeOK'
    BY <1>1, Zenon DEF TypeOK, FwTyped
<1> QED BY <1>1, <1>2 DEF IInv

LEMMA FwIsTyped == IInv => FwTyped(fw)
BY Zenon DEF IInv, TypeOK, FwTyped

LEMMA BudgetOnly ==
    ASSUME IInv, UNCHANGED ui, UNCHANGED <<conn, fw, up, marked>>,
           UNCHANGED flash,
           requests' \in Seq(Requests), responses' \in Seq(Responses)
    PROVE  IInv'
BY PanelTypes, Zenon DEF IInv, TypeOK, FileChosen, ui

LEMMA RefuseStep ==
    ASSUME IInv, UNCHANGED ui, UNCHANGED <<conn, up>>, requests # << >>, Refuse
    PROVE  IInv'
<1>1. requests' \in Seq(Requests) /\ responses' \in Seq(Responses)
    BY ReplyTypes, ErrorTypes DEF Refuse, IInv, TypeOK
<1> QED BY <1>1, BudgetOnly DEF Refuse

LEMMA BeginStep ==
    ASSUME IInv, UNCHANGED ui, UNCHANGED <<conn, up>>, requests # << >>,
           HandleBegin(Head(requests))
    PROVE  IInv'
<1> DEFINE r == Head(requests)
<1>1. r \in Requests /\ r.tag = "FwBegin"
    BY DEF IInv, TypeOK, HandleBegin
<1>2. CASE Refuse
    BY <1>2, RefuseStep
<1>3. CASE /\ EraseDfu
           /\ fw' = Receiving(r.total, r.crc, 0, << >>)
           /\ Reply(FwReady)
           /\ UNCHANGED <<active, magic, swapped, marked, budget>>
    <2>1. requests' \in Seq(Requests) /\ responses' \in Seq(Responses)
        BY <1>3, ReplyTypes, ErrorTypes DEF IInv, TypeOK
    <2>2. dfu' \in Partitions
        BY <1>3, WipedCells DEF EraseDfu, IInv, TypeOK
    <2>3. FwTyped(fw')
        <3> HIDE DEF r
        <3>1. r.crc \in Images /\ r.total = ImageSize[r.crc]
            BY <1>1, BeginFields
        <3>2. 0 \in 0..r.total
            BY <3>1, ImageSizeAssumption
        <3>3. << >> \in Seq(Images)
            OBVIOUS
        <3> QED BY <1>3, <3>1, <3>2, <3>3 DEF Receiving, FwTyped
    <2>4. FlashKeepsLast'
        <3>1. fw'.received = 0 /\ fw'.hashed = << >>
            BY <1>3 DEF Receiving
        <3> QED BY <3>1, PartitionAssumption DEF FlashKeepsLast
    <2>5. /\ conn' \in BOOLEAN /\ up' \in BOOLEAN /\ swapped' \in BOOLEAN
          /\ active' \in Partitions /\ magic' \in {"boot", "swap"}
          /\ marked' \subseteq Images
        BY <1>3, Zenon DEF IInv, TypeOK
    <2> QED BY <2>1, <2>2, <2>3, <2>4, <2>5, DeviceTypes
<1>4. CASE /\ fw.state = "Idle" /\ EraseDfuFails /\ Reply(Error)
           /\ UNCHANGED <<fw, active, magic, swapped, marked>>
    <2>1. requests' \in Seq(Requests) /\ responses' \in Seq(Responses)
        BY <1>4, ReplyTypes, ErrorTypes DEF IInv, TypeOK
    <2>2. dfu' \in Partitions
        BY <1>4, WipedCells DEF EraseDfuFails, IInv, TypeOK
    <2>3. FwTyped(fw') /\ FlashKeepsLast'
        BY <1>4, FwIsTyped DEF FlashKeepsLast
    <2>4. /\ conn' \in BOOLEAN /\ up' \in BOOLEAN /\ swapped' \in BOOLEAN
          /\ active' \in Partitions /\ magic' \in {"boot", "swap"}
          /\ marked' \subseteq Images
        BY <1>4, Zenon DEF IInv, TypeOK
    <2> QED BY <2>1, <2>2, <2>3, <2>4, DeviceTypes
<1> QED BY <1>2, <1>3, <1>4 DEF HandleBegin

\* A chunk that fits, and what is known of those before it.
LEMMA ChunkBefore ==
    ASSUME IInv, NEW r, r.offset \in Nat, ChunkFits(r),
           r.data = << >> \/ \E i \in Images : r.data = << i >>
    PROVE  /\ fw.state = "Receiving" /\ fw.received = r.offset
           /\ fw.total \in Nat /\ fw.hashed \in Seq(Images)
           /\ r.offset + Len(r.data) <= fw.total
           /\ r.offset = Len(fw.hashed) /\ r.offset <= Partition
           /\ \A k \in 1..r.offset :
                 /\ LastOfSector(k, fw.total) => dfu[k] = Pure(fw.hashed[k])
                 /\ ~LastOfSector(k, fw.total) /\ k < r.offset => dfu[k] = Erased
<1>1. fw.state = "Receiving" /\ fw.received = r.offset
    BY DEF ChunkFits
<1>2. fw.total \in Nat /\ fw.hashed \in Seq(Images)
    BY <1>1, FwIsTyped, ImageSizeAssumption DEF FwTyped, Idle, Complete
<1> QED BY <1>1, <1>2 DEF ChunkFits, IInv, FlashKeepsLast

LEMMA AppendedChunk ==
    ASSUME NEW S, NEW s \in Seq(S), NEW t \in Seq(S), Len(t) = 1
    PROVE  /\ Len(s \o t) = Len(s) + 1
           /\ (s \o t)[Len(s) + 1] = t[1]
           /\ \A k \in 1..Len(s) : (s \o t)[k] = s[k]
<1>0. Len(s) \in Nat /\ Len(s \o t) = Len(s) + Len(t)
    BY ConcatProperties
<1>1. /\ \A k \in 1..Len(s) : (s \o t)[k] = s[k]
      /\ \A k \in 1..(Len(s) + Len(t)) :
            k > Len(s) => (s \o t)[k] = t[k - Len(s)]
    OBVIOUS
<1>2. /\ Len(s) + 1 \in 1..(Len(s) + Len(t)) /\ Len(s) + 1 > Len(s)
      /\ (Len(s) + 1) - Len(s) = 1
    BY <1>0
<1>3. (s \o t)[Len(s) + 1] = t[1]
    BY <1>1, <1>2
<1> QED BY <1>0, <1>1, <1>3

\* The chunk before the one written was lost, unless it was its sector's last.
LEMMA ChunkKept ==
    ASSUME IInv, NEW r, r.offset \in Nat, ChunkFits(r),
           r.data = << >> \/ \E i \in Images : r.data = << i >>,
           WriteDfu(r.offset, r.data), fw' = Received(r)
    PROVE  FlashKeepsLast'
<1> DEFINE n == r.offset
           total == fw.total
<1>1. /\ fw.state = "Receiving" /\ fw.received = n
      /\ total \in Nat /\ fw.hashed \in Seq(Images)
      /\ n + Len(r.data) <= total
      /\ n = Len(fw.hashed) /\ n <= Partition
      /\ \A k \in 1..n :
            /\ LastOfSector(k, total) => dfu[k] = Pure(fw.hashed[k])
            /\ ~LastOfSector(k, total) /\ k < n => dfu[k] = Erased
    BY ChunkBefore
<1>2. /\ fw'.state = "Receiving" /\ fw'.total = total
      /\ fw'.received = n + Len(r.data)
      /\ fw'.hashed = fw.hashed \o r.data
    BY <1>1 DEF Received, Receiving
<1>3. dfu \in Partitions
    BY DEF IInv, TypeOK
<1>4. CASE r.data = << >>
    <2>1. UNCHANGED dfu
        BY <1>3, <1>4, WriteCells
    <2>2. fw'.received = n /\ fw'.hashed = fw.hashed
        BY <1>1, <1>2, <1>4
    <2> QED BY <1>1, <1>2, <2>1, <2>2 DEF FlashKeepsLast
<1>5. CASE r.data # << >>
    <2>1. Len(r.data) = 1 /\ r.data \in Seq(Images)
        BY <1>5, DataLength
    <2>2. /\ n + 1 <= Partition /\ n + 1 <= total
          /\ dfu'[n + 1] = Pure(r.data[1])
          /\ \A k \in 1..n : dfu'[k] = IF SectorOf(k) = SectorOf(n + 1)
                                       THEN Erased ELSE dfu[k]
        BY <1>1, <1>3, <1>5, <2>1, WriteCells
    <2>3. /\ Len(fw'.hashed) = n + 1 /\ fw'.received = n + 1
          /\ fw'.hashed[n + 1] = r.data[1]
          /\ \A k \in 1..n : fw'.hashed[k] = fw.hashed[k]
        <3>1. /\ Len(fw.hashed \o r.data) = Len(fw.hashed) + 1
              /\ (fw.hashed \o r.data)[Len(fw.hashed) + 1] = r.data[1]
              /\ \A k \in 1..Len(fw.hashed) : (fw.hashed \o r.data)[k] = fw.hashed[k]
            BY <1>1, <2>1, AppendedChunk
        <3> QED BY <1>1, <1>2, <2>1, <3>1
    <2> HIDE DEF n, total
    <2>4. n \in Nat
        BY DEF n
    <2>5. ASSUME NEW k \in 1..n
          PROVE  /\ LastOfSector(k, total) => dfu'[k] = Pure(fw'.hashed[k])
                 /\ ~LastOfSector(k, total) => dfu'[k] = Erased
        <3>0. k # total
            BY <1>1, <2>2, <2>4
        <3>1. CASE LastOfSector(k, total)
            <4>1. SectorOf(k) # SectorOf(n + 1)
                BY <2>4, <3>0, <3>1, SectorLeft DEF LastOfSector
            <4> QED BY <1>1, <2>2, <2>3, <3>1, <4>1
        <3>2. CASE ~ LastOfSector(k, total) /\ k < n
            <4>1. dfu[k] = Erased
                BY <1>1, <3>2
            <4> QED BY <2>2, <3>2, <4>1
        <3>3. CASE ~ LastOfSector(k, total) /\ k = n
            <4>1. SectorOf(n) = SectorOf(n + 1)
                BY <3>3 DEF LastOfSector
            <4> QED BY <2>2, <3>3, <4>1
        <3> QED BY <2>4, <3>1, <3>2, <3>3
    <2>6. \A k \in 1..(n + 1) : k \in 1..n \/ k = n + 1
        BY <2>4
    <2>7. ASSUME NEW k \in 1..(n + 1)
          PROVE  /\ LastOfSector(k, total) => dfu'[k] = Pure(fw'.hashed[k])
                 /\ ~LastOfSector(k, total) /\ k < n + 1 => dfu'[k] = Erased
        BY <2>2, <2>3, <2>4, <2>5, <2>6
    <2> QED BY <1>2, <2>2, <2>3, <2>7 DEF FlashKeepsLast
<1> QED BY <1>4, <1>5

LEMMA FailedChunkKept ==
    ASSUME IInv, NEW r, r.offset \in Nat, ChunkFits(r),
           r.data = << >> \/ \E i \in Images : r.data = << i >>,
           WriteDfuFails(r.offset, r.data), UNCHANGED fw
    PROVE  FlashKeepsLast'
<1> DEFINE n == r.offset
<1>1. /\ fw.state = "Receiving" /\ fw.received = n /\ fw.total \in Nat
      /\ n + Len(r.data) <= fw.total
      /\ n = Len(fw.hashed) /\ n <= Partition
      /\ \A k \in 1..n :
            /\ LastOfSector(k, fw.total) => dfu[k] = Pure(fw.hashed[k])
            /\ ~LastOfSector(k, fw.total) /\ k < n => dfu[k] = Erased
    BY ChunkBefore
<1>2. dfu \in Partitions
    BY DEF IInv, TypeOK
<1>3. CASE UNCHANGED dfu
    BY <1>3, FlashStable DEF IInv
<1>4. CASE /\ Len(r.data) = 1 /\ n + 1 <= Partition
           /\ \A k \in 1..n :
                \/ dfu'[k] = dfu[k]
                \/ SectorOf(k) = SectorOf(n + 1) /\ dfu'[k] = Erased
    <2>1. n \in Nat /\ n + 1 <= fw.total
        BY <1>1, <1>4
    <2> HIDE DEF n
    <2>2. ASSUME NEW k \in 1..n
          PROVE  /\ LastOfSector(k, fw.total) => dfu'[k] = Pure(fw.hashed[k])
                 /\ ~LastOfSector(k, fw.total) /\ k < n => dfu'[k] = Erased
        <3>1. ASSUME LastOfSector(k, fw.total)
              PROVE  dfu'[k] = Pure(fw.hashed[k])
            <4>1. k # fw.total
                BY <1>1, <2>1
            <4>2. SectorOf(k) # SectorOf(n + 1)
                BY <2>1, <3>1, <4>1, SectorLeft DEF LastOfSector
            <4> QED BY <1>1, <1>4, <3>1, <4>2
        <3>2. ASSUME ~ LastOfSector(k, fw.total), k < n
              PROVE  dfu'[k] = Erased
            BY <1>1, <1>4, <3>2
        <3> QED BY <3>1, <3>2
    <2> QED BY <1>1, <2>2 DEF FlashKeepsLast
<1> QED BY <1>2, <1>3, <1>4, FailedWriteCells

LEMMA ChunkStep ==
    ASSUME IInv, UNCHANGED ui, UNCHANGED <<conn, up>>, requests # << >>,
           HandleChunk(Head(requests))
    PROVE  IInv'
<1> USE PartitionAssumption
<1> DEFINE r == Head(requests)
<1>1. r \in Requests /\ r.tag = "FwChunk"
    BY DEF IInv, TypeOK, HandleChunk
<1> HIDE DEF r
<1>2. /\ r.offset \in Nat
      /\ r.data = << >> \/ \E i \in Images : r.data = << i >>
    BY <1>1, ChunkFields
<1>3. CASE ~ ChunkFits(r)
    BY <1>3, RefuseStep DEF HandleChunk, r
<1>4. CASE ChunkFits(r)
    <2>1. /\ fw.state = "Receiving"
          /\ fw.received \in Nat /\ fw.total \in Nat
          /\ fw.received = r.offset
          /\ fw.received + Len(r.data) <= fw.total
          /\ fw.crc \in Images /\ fw.total = ImageSize[fw.crc]
          /\ fw.hashed \in Seq(Images)
        BY <1>4, FwIsTyped, ImageSizeAssumption
        DEF ChunkFits, FwTyped, Idle, Complete
    <2>2. fw.received = Len(fw.hashed) /\ fw.received <= Partition
        BY <2>1 DEF IInv, FlashKeepsLast
    <2>3. dfu \in Partitions
        BY DEF IInv, TypeOK
    <2>4. /\ conn' \in BOOLEAN /\ up' \in BOOLEAN
        BY Zenon DEF IInv, TypeOK
    <2>5. CASE /\ WriteDfu(r.offset, r.data)
               /\ fw' = Received(r)
               /\ Reply(FwChunkAck(fw.received + Len(r.data)))
               /\ UNCHANGED <<active, magic, swapped, marked, budget>>
        <3>1. dfu' \in Partitions /\ r.offset + Len(r.data) <= Partition
            BY <1>2, <2>3, <2>5, WriteCells
        <3>2. /\ fw'.state = "Receiving" /\ fw'.crc = fw.crc
              /\ fw'.total = fw.total
              /\ fw'.received = fw.received + Len(r.data)
              /\ fw'.hashed = fw.hashed \o r.data
            BY <2>5 DEF Received, Receiving
        <3>3. r.data \in Seq(Images) /\ Len(r.data) \in Nat
            BY <1>2, DataLength
        <3>4. FwTyped(fw')
            <4>1. fw'.hashed \in Seq(Images)
                BY <2>1, <3>2, <3>3
            <4> QED BY <2>1, <3>2, <3>3, <4>1 DEF FwTyped
        <3>5. requests' \in Seq(Requests) /\ responses' \in Seq(Responses)
            <4>1. fw.received + Len(r.data) \in 0..Partition
                BY <2>1, <3>1, <3>3
            <4> QED BY <2>5, <4>1, ReplyTypes, ErrorTypes DEF IInv, TypeOK
        <3>6. FlashKeepsLast'
            BY <1>2, <1>4, <2>5, ChunkKept
        <3>7. /\ active' \in Partitions /\ magic' \in {"boot", "swap"}
              /\ swapped' \in BOOLEAN /\ marked' \subseteq Images
            BY <2>5, Zenon DEF IInv, TypeOK
        <3> QED BY <2>4, <3>1, <3>4, <3>5, <3>6, <3>7, DeviceTypes
    <2>6. CASE /\ WriteDfuFails(r.offset, r.data)
               /\ Reply(Error)
               /\ UNCHANGED <<fw, active, magic, swapped, marked>>
        <3>1. dfu' \in Partitions
            BY <1>2, <2>3, <2>6, FailedWriteCells
        <3>2. requests' \in Seq(Requests) /\ responses' \in Seq(Responses)
            BY <2>6, ReplyTypes, ErrorTypes DEF IInv, TypeOK
        <3>3. FlashKeepsLast'
            BY <1>2, <1>4, <2>6, FailedChunkKept
        <3>4. FwTyped(fw')
            BY <2>6, FwIsTyped
        <3>5. /\ active' \in Partitions /\ magic' \in {"boot", "swap"}
              /\ swapped' \in BOOLEAN /\ marked' \subseteq Images
            BY <2>6, Zenon DEF IInv, TypeOK
        <3> QED BY <2>4, <3>1, <3>2, <3>3, <3>4, <3>5, DeviceTypes
    <2> QED BY <1>4, <2>5, <2>6 DEF HandleChunk, r
<1> QED BY <1>3, <1>4

LEMMA FinishStep ==
    ASSUME IInv, UNCHANGED ui, UNCHANGED <<conn, up>>, requests # << >>,
           HandleFinish(Head(requests))
    PROVE  IInv'
<1> DEFINE r == Head(requests)
<1>1. CASE Refuse
    BY <1>1, RefuseStep
<1>2. CASE Reply(Error) /\ UNCHANGED <<fw, marked>> /\ UNCHANGED flash
    <2>1. requests' \in Seq(Requests) /\ responses' \in Seq(Responses)
        BY <1>2, ReplyTypes, ErrorTypes DEF IInv, TypeOK
    <2> QED BY <1>2, <2>1, BudgetOnly
<1>3. CASE /\ Verified(r)
           /\ magic' = "swap" /\ swapped' = FALSE
           /\ marked' = marked \union {fw.crc}
           /\ fw' = Complete
           /\ Reply(FwFinishAck)
           /\ UNCHANGED <<dfu, active, budget>>
    <2>1. requests' \in Seq(Requests) /\ responses' \in Seq(Responses)
        BY <1>3, ReplyTypes, ErrorTypes DEF IInv, TypeOK
    <2>2. fw.crc \in Images
        BY <1>3, FwIsTyped DEF Verified, FwTyped, Idle, Complete
    <2>3. marked' \subseteq Images
        BY <1>3, <2>2 DEF IInv, TypeOK
    <2>4. FwTyped(fw') /\ FlashKeepsLast'
        BY <1>3 DEF FwTyped, FlashKeepsLast, Complete
    <2>5. /\ conn' \in BOOLEAN /\ up' \in BOOLEAN /\ swapped' \in BOOLEAN
          /\ dfu' \in Partitions /\ active' \in Partitions
        BY <1>3, Zenon DEF IInv, TypeOK
    <2> QED BY <1>3, <2>1, <2>3, <2>4, <2>5, DeviceTypes
<1> QED BY <1>1, <1>2, <1>3 DEF HandleFinish

LEMMA BootedStep ==
    ASSUME IInv, UNCHANGED ui, UNCHANGED <<conn, up>>, requests # << >>,
           HandleMarkBooted(Head(requests))
    PROVE  IInv'
<1>1. requests' \in Seq(Requests) /\ responses' \in Seq(Responses)
    BY ReplyTypes, ErrorTypes DEF HandleMarkBooted, IInv, TypeOK
<1>2. UNCHANGED <<fw, dfu, active, marked>>
    BY DEF HandleMarkBooted, flash
<1>3. magic' \in {"boot", "swap"} /\ swapped' \in BOOLEAN
    BY Zenon DEF HandleMarkBooted, MarkFlashBooted, flash, IInv, TypeOK
<1>4. FwTyped(fw') /\ FlashKeepsLast'
    BY <1>2, FwIsTyped, FlashStable DEF IInv
<1>5. /\ conn' \in BOOLEAN /\ up' \in BOOLEAN
      /\ dfu' \in Partitions /\ active' \in Partitions
      /\ marked' \subseteq Images
    BY <1>2, Zenon DEF IInv, TypeOK
<1> QED BY <1>1, <1>3, <1>4, <1>5, DeviceTypes

LEMMA ServeStep == ASSUME IInv, Serve PROVE IInv'
<1>1. UNCHANGED ui /\ UNCHANGED <<conn, up>> /\ requests # << >>
    BY DEF Serve
<1>2. CASE HandleBegin(Head(requests))
    BY <1>1, <1>2, BeginStep
<1>3. CASE HandleChunk(Head(requests))
    BY <1>1, <1>3, ChunkStep
<1>4. CASE HandleFinish(Head(requests))
    BY <1>1, <1>4, FinishStep
<1>5. CASE HandleMarkBooted(Head(requests))
    BY <1>1, <1>5, BootedStep
<1>6. CASE HandleOther(Head(requests))
    BY <1>1, <1>6, RefuseStep DEF HandleOther
<1> QED BY <1>2, <1>3, <1>4, <1>5, <1>6 DEF Serve

-------------------------------------------------------------------------------
(* The link, power and the bootloader.                                     *)

LEMMA NotReceiving == ASSUME fw' = Idle PROVE FwTyped(fw') /\ FlashKeepsLast'
BY DEF FwTyped, FlashKeepsLast, Idle

LEMMA CloseTypes ==
    ASSUME CloseLink
    PROVE  /\ requests' \in Seq(Requests) /\ responses' \in Seq(Responses)
           /\ conn' \in BOOLEAN
<1>1. << >> \in Seq(Requests) /\ << >> \in Seq(Responses)
    OBVIOUS
<1> QED BY <1>1, Zenon DEF CloseLink

LEMMA LinkStep ==
    ASSUME IInv, Disconnect \/ Connect
    PROVE  IInv'
<1>1. requests' \in Seq(Requests) /\ responses' \in Seq(Responses)
    BY CloseTypes, Zenon DEF Disconnect, Connect, IInv, TypeOK
<1>2. UNCHANGED ui /\ UNCHANGED <<up, marked>> /\ UNCHANGED flash
    BY DEF Disconnect, Connect
<1>3. conn' \in BOOLEAN
    BY DEF Disconnect, Connect, CloseLink
<1>4. FwTyped(fw') /\ FlashKeepsLast'
    <2>1. CASE Disconnect
        BY <2>1, <1>2, FwIsTyped, FlashStable DEF Disconnect, IInv, flash
    <2>2. CASE Connect
        BY <2>2, NotReceiving DEF Connect
    <2> QED BY <2>1, <2>2
<1>5. /\ up' \in BOOLEAN /\ marked' \subseteq Images
      /\ dfu' \in Partitions /\ active' \in Partitions
      /\ magic' \in {"boot", "swap"} /\ swapped' \in BOOLEAN
    BY <1>2, Zenon DEF IInv, TypeOK, flash
<1> QED BY <1>1, <1>2, <1>3, <1>4, <1>5, DeviceTypes

LEMMA BootStep ==
    ASSUME IInv, Boot, UNCHANGED marked, UNCHANGED ui
    PROVE  IInv'
<1>1. /\ requests' \in Seq(Requests) /\ responses' \in Seq(Responses)
      /\ conn' \in BOOLEAN /\ up' \in BOOLEAN
    BY CloseTypes, Zenon DEF Boot
<1>2. dfu' \in Partitions /\ active' \in Partitions
    BY Zenon DEF Boot, flash, IInv, TypeOK
<1>3. magic' \in {"boot", "swap"} /\ swapped' \in BOOLEAN
    BY Zenon DEF Boot, flash, MarkFlashBooted, IInv, TypeOK
<1>4. FwTyped(fw') /\ FlashKeepsLast'
    BY NotReceiving DEF Boot
<1>5. marked' \subseteq Images
    BY DEF IInv, TypeOK
<1> QED BY <1>1, <1>2, <1>3, <1>4, <1>5, DeviceTypes

LEMMA StartStep == ASSUME IInv, Start PROVE IInv'
<1>1. UNCHANGED <<fw, marked, dfu, active>> /\ UNCHANGED ui /\ UNCHANGED link
    BY DEF Start, flash
<1>2. magic' \in {"boot", "swap"} /\ swapped' \in BOOLEAN
    BY Zenon DEF Start, flash, MarkFlashBooted, IInv, TypeOK
<1>3. FwTyped(fw') /\ FlashKeepsLast'
    BY <1>1, FwIsTyped, FlashStable DEF IInv
<1>4. /\ conn' \in BOOLEAN
      /\ requests' \in Seq(Requests) /\ responses' \in Seq(Responses)
      /\ dfu' \in Partitions /\ active' \in Partitions
      /\ marked' \subseteq Images
    BY <1>1, Zenon DEF IInv, TypeOK, link
<1>5. up' \in BOOLEAN
    BY DEF Start
<1> QED BY <1>1, <1>2, <1>3, <1>4, <1>5, DeviceTypes

LEMMA FwStep == IInv /\ [Next]_vars => IInv'
<1> SUFFICES ASSUME IInv, [Next]_vars PROVE IInv'
    OBVIOUS
<1>1. CASE \/ \E i \in Images : SelectFile(i)
           \/ StartUpload \/ ResetState \/ LeavePanel
           \/ MarkBooted \/ SendOther
    BY <1>1, PanelStep
<1>2. CASE OnResponse
    BY <1>2, ResponseStep
<1>3. CASE Serve
    BY <1>3, ServeStep
<1>4. CASE Disconnect \/ Connect
    BY <1>4, LinkStep
<1>5. CASE ResetAfterFinish \/ PowerCycle \/ Watchdog
    BY <1>5, BootStep DEF ResetAfterFinish, PowerCycle, Watchdog
<1>6. CASE Start
    BY <1>6, StartStep
<1>7. CASE UNCHANGED vars
    BY <1>7, DeviceTypes, FwIsTyped, FlashStable, Zenon
    DEF vars, ui, IInv, TypeOK
<1> QED BY <1>1, <1>2, <1>3, <1>4, <1>5, <1>6, <1>7, Zenon DEF Next

LEMMA FwInvariant == Spec => []IInv
BY FwInit, FwStep, PTL DEF Spec

(* Every state of the panel, the link, the server and the flash is of its  *)
(* type: in particular no request or acknowledgement ever names an offset  *)
(* beyond the partition.                                                   *)
THEOREM FwUpdateTypeCorrect == Spec => []TypeOK
<1>1. IInv => TypeOK
    BY DEF IInv
<1> QED BY <1>1, FwInvariant, PTL

(* In every session, with any flash faults, disconnections and power cuts, *)
(* the last chunk of each sector that the CRC was taken over is in the DFU *)
(* partition, in full, and the chunks before it in the sector are erased   *)
(* (fw_update.rs handle_fw_chunk, PicoDfuWriter::write_dfu).               *)
THEOREM FwUpdateFlashKeepsLast == Spec => []FlashKeepsLast
<1>1. IInv => FlashKeepsLast
    BY DEF IInv
<1> QED BY <1>1, FwInvariant, PTL

-------------------------------------------------------------------------------
(* Whose turn it is.  What ties the CRC to the flash and the panel's       *)
(* Complete to the image marked is that an upload passes one token back    *)
(* and forth: the panel asks for a chunk or the end only when it was       *)
(* granted one, and an Error loses the token for the whole session.        *)

NoneOf(s, tags) == \A n \in 1..Len(s) : s[n].tag \notin tags
AtMostOneOf(s, tags) ==
    \A m, n \in 1..Len(s) : s[m].tag \in tags /\ s[n].tag \in tags => m = n

Asks == {"FwChunk", "FwFinish"}
Grants == {"FwReady", "FwChunkAck", "FwFinishAck"}
Quiet == NoneOf(requests, Asks) /\ NoneOf(responses, Grants)

OneTurn ==
    /\ AtMostOneOf(requests, Asks) /\ AtMostOneOf(responses, Grants)
    /\ NoneOf(requests, Asks) \/ NoneOf(responses, Grants)
    /\ fw.state = "Idle" => Quiet
    /\ ~conn => requests = << >> /\ responses = << >>

(* What is under way to a panel that will take it is about the panel's     *)
(* present file, not one picked before.                                    *)
OfThisFile ==
    panel \in {"Uploading", "WaitingFinish"} =>
        /\ \A n \in 1..Len(requests) :
              requests[n].tag = "FwFinish" => requests[n].crc = file
        /\ \A n \in 1..Len(responses) :
              responses[n].tag = "FwFinishAck" => file \in marked

UploadInv == OneTurn /\ OfThisFile /\ CompleteMeansMarked

LEMMA NoneOfTail ==
    ASSUME NEW S, NEW s \in Seq(S), s # << >>, NEW tags
    PROVE  /\ NoneOf(s, tags) => NoneOf(Tail(s), tags)
           /\ AtMostOneOf(s, tags) => AtMostOneOf(Tail(s), tags)
           /\ AtMostOneOf(s, tags) /\ Head(s).tag \in tags =>
                NoneOf(Tail(s), tags)
           /\ Head(s).tag \in tags => ~ NoneOf(s, tags)
<1>1. /\ Len(s) \in Nat /\ Len(s) # 0
      /\ Len(Tail(s)) = Len(s) - 1 /\ Head(s) = s[1]
      /\ \A n \in 1..Len(Tail(s)) : Tail(s)[n] = s[n + 1]
    OBVIOUS
<1>2. \A n \in 1..Len(Tail(s)) : n + 1 \in 1..Len(s) /\ n + 1 # 1
    BY <1>1
<1>3. 1 \in 1..Len(s)
    BY <1>1
<1> HIDE DEF NoneOf
<1>4. NoneOf(s, tags) => NoneOf(Tail(s), tags)
    BY <1>1, <1>2 DEF NoneOf
<1>5. ASSUME AtMostOneOf(s, tags) PROVE AtMostOneOf(Tail(s), tags)
    <2> SUFFICES ASSUME NEW m \in 1..Len(Tail(s)), NEW n \in 1..Len(Tail(s)),
                        Tail(s)[m].tag \in tags, Tail(s)[n].tag \in tags
                 PROVE  m = n
        BY DEF AtMostOneOf
    <2>1. m + 1 = n + 1
        BY <1>1, <1>2, <1>5 DEF AtMostOneOf
    <2> QED BY <1>1, <2>1
<1>6. ASSUME AtMostOneOf(s, tags), Head(s).tag \in tags
      PROVE  NoneOf(Tail(s), tags)
    BY <1>1, <1>2, <1>3, <1>6 DEF AtMostOneOf, NoneOf
<1>7. Head(s).tag \in tags => ~ NoneOf(s, tags)
    BY <1>1, <1>3 DEF NoneOf
<1> QED BY <1>4, <1>5, <1>6, <1>7

LEMMA NoneOfAppend ==
    ASSUME NEW S, NEW s \in Seq(S), NEW x \in S, NEW tags
    PROVE  /\ NoneOf(s, tags) => AtMostOneOf(Append(s, x), tags)
           /\ x.tag \notin tags /\ NoneOf(s, tags) => NoneOf(Append(s, x), tags)
           /\ x.tag \notin tags /\ AtMostOneOf(s, tags) =>
                AtMostOneOf(Append(s, x), tags)
<1>1. /\ Len(s) \in Nat
      /\ Len(Append(s, x)) = Len(s) + 1
      /\ \A n \in 1..Len(s) : Append(s, x)[n] = s[n]
      /\ Append(s, x)[Len(s) + 1] = x
    OBVIOUS
<1>2. \A n \in 1..Len(Append(s, x)) : n \in 1..Len(s) \/ n = Len(s) + 1
    BY <1>1
<1>3. NoneOf(s, tags) => AtMostOneOf(Append(s, x), tags)
    BY <1>1, <1>2, Zenon DEF NoneOf, AtMostOneOf
<1>4. x.tag \notin tags /\ NoneOf(s, tags) => NoneOf(Append(s, x), tags)
    BY <1>1, <1>2, Zenon DEF NoneOf
<1>5. x.tag \notin tags /\ AtMostOneOf(s, tags) => AtMostOneOf(Append(s, x), tags)
    BY <1>1, <1>2, Zenon DEF AtMostOneOf
<1> QED BY <1>3, <1>4, <1>5

LEMMA NoneOfEmpty ==
    ASSUME NEW tags
    PROVE  NoneOf(<< >>, tags) /\ AtMostOneOf(<< >>, tags)
BY DEF NoneOf, AtMostOneOf

-------------------------------------------------------------------------------
(* How the turn passes.                                                    *)

LEMMA QuietSend ==
    ASSUME IInv, OneTurn, UNCHANGED <<fw, conn, responses>>,
           \/ UNCHANGED requests
           \/ \E x \in Requests : x.tag \notin Asks /\ Send(x)
    PROVE  OneTurn'
<1>1. CASE UNCHANGED requests
    BY <1>1, Zenon DEF OneTurn, Quiet, NoneOf, AtMostOneOf
<1>2. ASSUME NEW x \in Requests, x.tag \notin Asks, Send(x)
      PROVE  OneTurn'
    <2>1. requests \in Seq(Requests)
        BY DEF IInv, TypeOK
    <2>2. /\ NoneOf(requests, Asks) => NoneOf(requests', Asks)
          /\ AtMostOneOf(requests, Asks) => AtMostOneOf(requests', Asks)
        BY <1>2, <2>1, NoneOfAppend DEF Send
    <2>3. ~ conn => requests' = requests
        BY <1>2 DEF Send
    <2> QED BY <2>2, <2>3, Zenon DEF OneTurn, Quiet, NoneOf, AtMostOneOf
<1> QED BY <1>1, <1>2

\* A grant that is taken was the only one, and nothing else was asked for.
LEMMA GrantTaken ==
    ASSUME IInv, OneTurn, responses # << >>
    PROVE  /\ NoneOf(responses, Grants) => NoneOf(Tail(responses), Grants)
           /\ AtMostOneOf(Tail(responses), Grants)
           /\ conn
           /\ Head(responses).tag \in Grants =>
                /\ NoneOf(requests, Asks)
                /\ NoneOf(Tail(responses), Grants)
                /\ fw.state # "Idle"
<1>1. responses \in Seq(Responses)
    BY DEF IInv, TypeOK
<1> QED BY <1>1, NoneOfTail DEF OneTurn, Quiet

LEMMA TakeTurn ==
    ASSUME IInv, OneTurn, responses # << >>, responses' = Tail(responses),
           UNCHANGED <<fw, conn>>,
           \/ UNCHANGED requests
           \/ Head(responses).tag \in Grants /\ \E x \in Requests : Send(x)
    PROVE  OneTurn'
<1>1. CASE UNCHANGED requests
    BY <1>1, GrantTaken, Zenon DEF OneTurn, Quiet, NoneOf, AtMostOneOf
<1>2. ASSUME Head(responses).tag \in Grants, NEW x \in Requests, Send(x)
      PROVE  OneTurn'
    <2>1. requests \in Seq(Requests)
        BY DEF IInv, TypeOK
    <2>2. AtMostOneOf(requests', Asks)
        BY <1>2, <2>1, GrantTaken, NoneOfAppend DEF Send, OneTurn
    <2>3. NoneOf(responses', Grants) /\ AtMostOneOf(responses', Grants)
        BY <1>2, GrantTaken, Zenon DEF NoneOf, AtMostOneOf
    <2> QED BY <1>2, <2>2, <2>3, GrantTaken DEF OneTurn, Quiet
<1> QED BY <1>1, <1>2

\* A reply grants something only in return for the turn.
LEMMA ReplyTurn ==
    ASSUME IInv, OneTurn, requests # << >>, conn, UNCHANGED conn,
           NEW x \in Responses, Reply(x),
           fw'.state = "Idle" => x.tag \notin Grants /\ fw.state = "Idle",
           x.tag \in Grants => fw.state = "Idle" \/ Head(requests).tag \in Asks
    PROVE  OneTurn'
<1>1. requests \in Seq(Requests) /\ responses \in Seq(Responses)
    BY DEF IInv, TypeOK
<1>2. /\ NoneOf(requests, Asks) => NoneOf(requests', Asks)
      /\ AtMostOneOf(requests', Asks)
      /\ Head(requests).tag \in Asks => NoneOf(requests', Asks)
      /\ Head(requests).tag \in Asks => NoneOf(responses, Grants)
    BY <1>1, NoneOfTail DEF Reply, OneTurn
<1>3. CASE x.tag \notin Grants
    <2>1. /\ NoneOf(responses, Grants) => NoneOf(responses', Grants)
          /\ AtMostOneOf(responses', Grants)
        BY <1>1, <1>3, NoneOfAppend DEF Reply, OneTurn
    <2> QED BY <1>2, <1>3, <2>1, Zenon DEF OneTurn, Quiet
<1>4. CASE x.tag \in Grants
    <2>1. NoneOf(responses, Grants) /\ NoneOf(requests', Asks)
        BY <1>2, <1>4 DEF OneTurn, Quiet
    <2>2. AtMostOneOf(responses', Grants)
        BY <1>1, <2>1, NoneOfAppend DEF Reply
    <2> QED BY <1>2, <1>4, <2>1, <2>2, Zenon DEF OneTurn
<1> QED BY <1>3, <1>4

LEMMA LinkClosed ==
    ASSUME CloseLink
    PROVE  OneTurn' /\ OfThisFile'
<1>1. Len(<< >>) = 0
    OBVIOUS
<1>2. requests' = << >> /\ responses' = << >>
    BY DEF CloseLink
<1>3. NoneOf(requests', Asks) /\ NoneOf(responses', Grants)
      /\ AtMostOneOf(requests', Asks) /\ AtMostOneOf(responses', Grants)
    BY <1>2, NoneOfEmpty
<1>4. OneTurn'
    BY <1>2, <1>3 DEF OneTurn, Quiet
<1> QED BY <1>1, <1>2, <1>4 DEF OfThisFile

LEMMA TailElements ==
    ASSUME NEW S, NEW s \in Seq(S), s # << >>
    PROVE  \A n \in 1..Len(Tail(s)) : n + 1 \in 1..Len(s) /\ Tail(s)[n] = s[n + 1]
OBVIOUS

LEMMA AppendElements ==
    ASSUME NEW S, NEW s \in Seq(S), NEW x \in S
    PROVE  \A n \in 1..Len(Append(s, x)) :
                \/ n \in 1..Len(s) /\ Append(s, x)[n] = s[n]
                \/ Append(s, x)[n] = x
OBVIOUS

LEMMA PanelUpload ==
    ASSUME IInv, UploadInv,
           \/ \E i \in Images : SelectFile(i)
           \/ StartUpload \/ ResetState \/ LeavePanel
           \/ MarkBooted \/ SendOther
    PROVE  UploadInv'
<1> USE DEF UploadInv
<1>1. /\ FwMarkBooted \in Requests /\ FwMarkBooted.tag \notin Asks
      /\ OtherRequest \in Requests /\ OtherRequest.tag \notin Asks
      /\ OtherRequest.tag # "FwFinish"
    BY DEF Requests, FwMarkBooted, OtherRequest, Asks
<1>2. CASE SendOther
    <2>1. UNCHANGED <<fw, conn, responses, marked, panel, file>> /\ Send(OtherRequest)
        BY <1>2 DEF SendOther, ui
    <2>2. OneTurn'
        BY <1>1, <2>1, QuietSend
    <2>3. \A n \in 1..Len(requests') :
                \/ n \in 1..Len(requests) /\ requests'[n] = requests[n]
                \/ requests'[n] = OtherRequest
        BY <1>1, <2>1, AppendElements DEF Send, IInv, TypeOK
    <2>4. OfThisFile'
        BY <1>1, <2>1, <2>3 DEF OfThisFile
    <2> QED BY <2>1, <2>2, <2>4 DEF CompleteMeansMarked
<1>3. CASE MarkBooted
    <2>1. /\ UNCHANGED <<fw, conn, responses, marked, panel, file>>
          /\ panel = "Complete" /\ Send(FwMarkBooted)
        BY <1>3 DEF MarkBooted, ui
    <2>2. OneTurn'
        BY <1>1, <2>1, QuietSend
    <2> QED BY <2>1, <2>2 DEF OfThisFile, CompleteMeansMarked
<1>4. CASE (\E i \in Images : SelectFile(i)) \/ StartUpload \/ ResetState \/ LeavePanel
    <2>1. /\ UNCHANGED <<fw, conn, responses>>
          /\ panel' \in {"Idle", "FileSelected", "WaitingReady"}
        BY <1>4 DEF SelectFile, StartUpload, ResetState, LeavePanel, link
    <2>2. UNCHANGED requests \/ \E x \in Requests : x.tag \notin Asks /\ Send(x)
        <3>1. CASE StartUpload
            <4>1. file \in Images
                BY <3>1 DEF StartUpload, IInv, FileChosen
            <4>2. FwBegin(file) \in Requests /\ FwBegin(file).tag \notin Asks
                BY <4>1 DEF Requests, FwBegin, Asks
            <4> QED BY <3>1, <4>2 DEF StartUpload
        <3> QED BY <1>4, <3>1 DEF SelectFile, ResetState, LeavePanel, link
    <2>3. OneTurn'
        BY <2>1, <2>2, QuietSend
    <2> QED BY <2>1, <2>3 DEF OfThisFile, CompleteMeansMarked
<1> QED BY <1>2, <1>3, <1>4

LEMMA ResponseUpload ==
    ASSUME IInv, UploadInv, OnResponse
    PROVE  UploadInv'
<1> USE DEF UploadInv
<1>1. /\ responses # << >> /\ responses' = Tail(responses)
      /\ UNCHANGED <<file, conn, fw, marked>>
      /\ responses \in Seq(Responses) /\ requests \in Seq(Requests)
    BY DEF OnResponse, IInv, TypeOK
<1>2. \A n \in 1..Len(responses') :
            n + 1 \in 1..Len(responses) /\ responses'[n] = responses[n + 1]
    BY <1>1, TailElements
<1>3. 1 \in 1..Len(responses) /\ Head(responses) = responses[1]
    BY <1>1
<1>4. Head(responses) \in Responses
    BY <1>1
<1>5. ASSUME panel # "Idle", NEW at \in 0..Partition,
             Head(responses).tag \in {"FwReady", "FwChunkAck"},
             \/ SendChunk(at)
             \/ panel' = "WaitingFinish" /\ Send(FwFinish(file))
      PROVE  UploadInv'
    <2>1. file \in Images
        BY <1>5 DEF IInv, FileChosen
    <2>2. PICK x \in Requests : Send(x) /\ (x.tag = "FwFinish" => x.crc = file)
        BY <1>5, <2>1, RequestTypes DEF SendChunk, FwChunk, FwFinish
    <2>3. Head(responses).tag \in Grants
        BY <1>5 DEF Grants
    <2>4. OneTurn'
        BY <1>1, <2>2, <2>3, TakeTurn
    <2>5. NoneOf(requests, Asks) /\ NoneOf(Tail(responses), Grants)
        BY <1>1, <2>3, GrantTaken
    <2>6. \A n \in 1..Len(requests') :
                \/ n \in 1..Len(requests) /\ requests'[n] = requests[n]
                \/ requests'[n] = x
        BY <1>1, <2>2, AppendElements DEF Send
    <2>7. OfThisFile'
        BY <1>1, <2>2, <2>5, <2>6 DEF OfThisFile, NoneOf, Asks, Grants
    <2>8. panel' \in {"Uploading", "WaitingFinish"}
        BY <1>5 DEF SendChunk
    <2> QED BY <2>4, <2>7, <2>8 DEF CompleteMeansMarked
<1>6. CASE OnReady
    <2>1. 0 \in 0..Partition
        BY PartitionAssumption
    <2> QED BY <1>5, <1>6, <2>1 DEF OnReady, FwReady
<1>7. CASE OnChunkAck
    <2>1. Head(responses).next \in 0..Partition
        BY <1>4, <1>7 DEF OnChunkAck, Responses, FwChunkAck, FwReady,
            FwFinishAck, FwMarkBootedAck, Error
    <2> QED BY <1>5, <1>7, <2>1 DEF OnChunkAck
<1>8. CASE OnFinishAck \/ OnError \/ OnOther
    <2>1. UNCHANGED requests /\ panel' \in {panel, "Complete", "Error"}
        BY <1>8 DEF OnFinishAck, OnError, OnOther
    <2>2. OneTurn'
        BY <1>1, <2>1, TakeTurn
    <2>3. OfThisFile'
        BY <1>1, <1>2, <2>1, Zenon DEF OfThisFile
    <2>4. panel' = "Complete" => panel = "Complete" \/ OnFinishAck
        BY <1>8 DEF OnFinishAck, OnError, OnOther
    <2>5. OnFinishAck => file \in marked
        BY <1>3 DEF OnFinishAck, OfThisFile, FwFinishAck
    <2> QED BY <1>1, <2>2, <2>3, <2>4, <2>5 DEF CompleteMeansMarked
<1> QED BY <1>6, <1>7, <1>8 DEF OnResponse

-------------------------------------------------------------------------------
(* The server's replies.                                                   *)

\* What the panel is told of its file, when the server replies x.
LEMMA ReplyOfThisFile ==
    ASSUME IInv, OfThisFile, requests # << >>, UNCHANGED ui,
           NEW x \in Responses, Reply(x), marked \subseteq marked',
           x.tag = "FwFinishAck" /\ panel \in {"Uploading", "WaitingFinish"} =>
                file \in marked'
    PROVE  OfThisFile'
<1>1. requests \in Seq(Requests) /\ responses \in Seq(Responses)
    BY DEF IInv, TypeOK
<1>2. UNCHANGED <<panel, file>>
    BY DEF ui
<1>3. \A n \in 1..Len(requests') :
            n + 1 \in 1..Len(requests) /\ requests'[n] = requests[n + 1]
    BY <1>1, TailElements DEF Reply
<1>4. \A n \in 1..Len(responses') :
            \/ n \in 1..Len(responses) /\ responses'[n] = responses[n]
            \/ responses'[n] = x
    BY <1>1, AppendElements DEF Reply
<1> QED BY <1>2, <1>3, <1>4, Zenon DEF OfThisFile

LEMMA ServeReplies ==
    ASSUME IInv, OneTurn, Serve
    PROVE  \E x \in Responses :
              /\ Reply(x)
              /\ fw'.state = "Idle" => x.tag \notin Grants /\ fw.state = "Idle"
              /\ x.tag \in Grants =>
                    fw.state = "Idle" \/ Head(requests).tag \in Asks
              /\ x.tag = "FwFinishAck" =>
                    /\ Head(requests).tag = "FwFinish"
                    /\ Head(requests).crc \in marked'
              /\ marked \subseteq marked'
<1> DEFINE r == Head(requests)
<1>1. /\ Error \in Responses /\ Error.tag \notin Grants
      /\ Error.tag # "FwFinishAck"
      /\ FwReady \in Responses /\ FwReady.tag # "FwFinishAck"
      /\ FwFinishAck \in Responses
      /\ FwMarkBootedAck \in Responses /\ FwMarkBootedAck.tag \notin Grants
      /\ FwMarkBootedAck.tag # "FwFinishAck"
      /\ \A next : FwChunkAck(next).tag # "FwFinishAck"
    BY ErrorTypes DEF Error, FwReady, FwFinishAck, FwMarkBootedAck, FwChunkAck, Grants
<1>2. CASE Reply(Error) /\ UNCHANGED <<fw, marked>>
    BY <1>1, <1>2
<1>3. CASE Reply(FwMarkBootedAck) /\ UNCHANGED <<fw, marked>>
    BY <1>1, <1>3
<1>4. CASE /\ fw.state = "Idle" /\ Reply(FwReady) /\ UNCHANGED marked
           /\ fw' = Receiving(r.total, r.crc, 0, << >>)
    <2>1. fw'.state # "Idle"
        BY <1>4 DEF Receiving
    <2> QED BY <1>1, <1>4, <2>1
<1>5. CASE /\ r.tag = "FwChunk" /\ ChunkFits(r) /\ WriteDfu(r.offset, r.data)
           /\ fw' = Received(r)
           /\ Reply(FwChunkAck(fw.received + Len(r.data)))
           /\ UNCHANGED marked
    <2>1. fw'.state # "Idle" /\ r.tag \in Asks
        BY <1>5 DEF Received, Receiving, Asks
    <2>2. FwChunkAck(fw.received + Len(r.data)) \in Responses
        <3>1. r \in Requests
            BY DEF Serve, IInv, TypeOK
        <3> HIDE DEF r
        <3>2. r.offset \in Nat /\ Len(r.data) \in Nat
            BY <1>5, <3>1, ChunkFields, DataLength, PartitionAssumption
        <3>3. r.offset = fw.received /\ r.offset + Len(r.data) <= Partition
            BY <1>5 DEF ChunkFits, WriteDfu, InRange
        <3> QED BY <3>2, <3>3, ErrorTypes, PartitionAssumption
    <2> QED BY <1>1, <1>5, <2>1, <2>2
<1>6. CASE /\ r.tag = "FwFinish" /\ Verified(r) /\ Reply(FwFinishAck)
           /\ fw' = Complete /\ marked' = marked \union {fw.crc}
    <2>1. fw'.state # "Idle" /\ r.tag \in Asks
        BY <1>6 DEF Complete, Asks
    <2>2. r.crc \in marked' /\ marked \subseteq marked'
        BY <1>6 DEF Verified
    <2> QED BY <1>1, <1>6, <2>1, <2>2
<1>7. CASE HandleBegin(r)
    BY <1>2, <1>4, <1>7 DEF HandleBegin, Refuse
<1>8. CASE HandleChunk(r)
    BY <1>2, <1>5, <1>8 DEF HandleChunk, Refuse
<1>9. CASE HandleFinish(r)
    BY <1>2, <1>6, <1>9 DEF HandleFinish, Refuse
<1>10. CASE HandleMarkBooted(r) \/ HandleOther(r)
    BY <1>2, <1>3, <1>10 DEF HandleMarkBooted, HandleOther, Refuse
<1> QED BY <1>7, <1>8, <1>9, <1>10 DEF Serve

LEMMA ServeUpload ==
    ASSUME IInv, UploadInv, Serve
    PROVE  UploadInv'
<1> USE DEF UploadInv
<1>1. /\ requests # << >> /\ conn /\ UNCHANGED conn /\ UNCHANGED ui
      /\ requests \in Seq(Requests)
    BY DEF Serve, IInv, TypeOK
<1>2. PICK x \in Responses :
              /\ Reply(x)
              /\ fw'.state = "Idle" => x.tag \notin Grants /\ fw.state = "Idle"
              /\ x.tag \in Grants =>
                    fw.state = "Idle" \/ Head(requests).tag \in Asks
              /\ x.tag = "FwFinishAck" =>
                    /\ Head(requests).tag = "FwFinish"
                    /\ Head(requests).crc \in marked'
              /\ marked \subseteq marked'
    BY ServeReplies
<1>3. OneTurn'
    BY <1>1, <1>2, ReplyTurn
<1>4. Head(requests) = requests[1] /\ 1 \in 1..Len(requests)
    BY <1>1
<1>5. OfThisFile'
    <2>1. x.tag = "FwFinishAck" /\ panel \in {"Uploading", "WaitingFinish"} =>
                file \in marked'
        BY <1>2, <1>4 DEF OfThisFile
    <2> QED BY <1>1, <1>2, <2>1, ReplyOfThisFile
<1> QED BY <1>1, <1>2, <1>3, <1>5 DEF CompleteMeansMarked, ui

LEMMA UploadStep == IInv /\ UploadInv /\ [Next]_vars => UploadInv'
<1> SUFFICES ASSUME IInv, UploadInv, [Next]_vars PROVE UploadInv'
    OBVIOUS
<1>1. CASE \/ \E i \in Images : SelectFile(i)
           \/ StartUpload \/ ResetState \/ LeavePanel
           \/ MarkBooted \/ SendOther
    BY <1>1, PanelUpload
<1>2. CASE OnResponse
    BY <1>2, ResponseUpload
<1>3. CASE Serve
    BY <1>3, ServeUpload
<1>4. CASE Disconnect \/ ResetAfterFinish \/ PowerCycle \/ Watchdog
    <2>1. CloseLink /\ UNCHANGED ui /\ UNCHANGED marked
        BY <1>4 DEF Disconnect, ResetAfterFinish, PowerCycle, Watchdog, Boot
    <2> QED BY <2>1, LinkClosed DEF UploadInv, CompleteMeansMarked, ui
<1>5. CASE Connect
    <2>1. /\ requests' = << >> /\ responses' = << >> /\ conn'
          /\ UNCHANGED marked /\ UNCHANGED ui
        BY <1>5 DEF Connect, UploadInv, OneTurn
    <2>2. OneTurn'
        BY <2>1, NoneOfEmpty DEF OneTurn, Quiet
    <2>3. OfThisFile'
        BY <2>1 DEF OfThisFile
    <2> QED BY <2>1, <2>2, <2>3 DEF UploadInv, CompleteMeansMarked, ui
<1>6. CASE Start \/ UNCHANGED vars
    <2>1. UNCHANGED <<fw, marked>> /\ UNCHANGED ui /\ UNCHANGED link
        BY <1>6 DEF Start, vars, ui, link
    <2> QED BY <2>1, Zenon DEF UploadInv, OneTurn, Quiet, NoneOf, AtMostOneOf,
            OfThisFile, CompleteMeansMarked, ui, link
<1> QED BY <1>1, <1>2, <1>3, <1>4, <1>5, <1>6 DEF Next

LEMMA UploadInit == Init => UploadInv
BY NoneOfEmpty DEF Init, UploadInv, OneTurn, Quiet, OfThisFile,
    CompleteMeansMarked, Idle

LEMMA UploadInvariant == Spec => []UploadInv
BY UploadInit, UploadStep, FwInvariant, PTL DEF Spec

(* Whatever files are picked, connections lost and flash operations        *)
(* failing in between, a panel that says Complete is right: since its file *)
(* was picked, the server has marked that file's image for the next boot   *)
(* (firmware.rs's effect on fw_response, fw_update.rs handle_finish).      *)
THEOREM FwUpdateCompleteMeansMarked == Spec => []CompleteMeansMarked
<1>1. UploadInv => CompleteMeansMarked
    BY DEF UploadInv
<1> QED BY <1>1, UploadInvariant, PTL

-------------------------------------------------------------------------------
(* The device.  What is staged or on trial was not read back, so it may be *)
(* damaged; then the first chunk is missing and it does not start, and the *)
(* other partition holds the whole image that it is given up for.          *)

HoldsImage(p) == \E i \in Images : Holds(p, i)
WholeIfBoots(p) == p[1] # Erased => HoldsImage(p)

DeviceInv ==
    /\ magic = "boot" => ~ swapped /\ HoldsImage(active)
    /\ fw.state = "Receiving" => magic = "boot"
    /\ magic = "swap" /\ ~ swapped =>
            /\ fw.state = "Complete" /\ up
            /\ HoldsImage(active) /\ WholeIfBoots(dfu)
    /\ magic = "swap" /\ swapped => HoldsImage(dfu) /\ WholeIfBoots(active)
    /\ up => HoldsImage(active)

LEMMA ImageInKinds ==
    ASSUME NEW p
    PROVE  /\ ImageIn(p) \in Images \union {Damaged} /\ ImageIn(p) # NoImage
           /\ HoldsImage(p) => ImageIn(p) \in Images
BY FactoryAssumption, DamagedAssumption DEF ImageIn, HoldsImage

LEMMA CrcOfImage ==
    ASSUME NEW chunks, NEW i \in Images, CrcOf(chunks) = i
    PROVE  chunks = Contents(i)
BY FactoryAssumption, Zenon DEF CrcOf

(* What has passed the checks of handle_finish is in the flash as a whole, *)
(* or it cannot start: of a first sector of several chunks the first one   *)
(* is gone, and if the first sector is a chunk then so are all.            *)
LEMMA VerifiedWholeIfBoots ==
    ASSUME IInv, NEW r, Verified(r)
    PROVE  WholeIfBoots(dfu)
<1> DEFINE i == fw.crc
           total == fw.total
<1>1. /\ fw.state = "Receiving" /\ fw.received = total
      /\ CrcOf(fw.hashed) = i
    BY DEF Verified
<1>2. i \in Images /\ total = ImageSize[i] /\ total \in Nat \ {0}
    BY <1>1, FwIsTyped, ImageSizeAssumption DEF FwTyped, Idle, Complete
<1>3. \A k \in 1..total : fw.hashed[k] = i
    BY <1>1, <1>2, CrcOfImage DEF Contents
<1>4. /\ total <= Partition
      /\ \A k \in 1..total :
            /\ LastOfSector(k, total) => dfu[k] = Pure(i)
            /\ ~LastOfSector(k, total) /\ k < total => dfu[k] = Erased
    BY <1>1, <1>3 DEF IInv, FlashKeepsLast
<1> HIDE DEF i, total
<1>5. CASE \A k \in 1..total : LastOfSector(k, total)
    <2>1. Holds(dfu, i)
        BY <1>2, <1>4, <1>5 DEF Holds
    <2> QED BY <1>2, <2>1 DEF WholeIfBoots, HoldsImage
<1>6. ASSUME NEW k \in 1..total, ~ LastOfSector(k, total)
      PROVE  dfu[1] = Erased
    <2>1. 1 \in 1..total /\ total # 1 /\ 1 < total
        BY <1>2, <1>6 DEF LastOfSector
    <2>2. SectorOf(k + 1) = SectorOf(k) /\ k \in Nat \ {0}
        BY <1>2, <1>6 DEF LastOfSector
    <2>3. SectorOf(2) = SectorOf(1)
        BY <2>2, FirstOfMany
    <2>4. ~ LastOfSector(1, total)
        BY <2>1, <2>3 DEF LastOfSector
    <2> QED BY <1>4, <2>1, <2>4
<1> QED BY <1>5, <1>6 DEF WholeIfBoots

-------------------------------------------------------------------------------
(* Steps of the device, and of what it implements.                         *)

DeviceStutters == UNCHANGED Device!vars

LEMMA FlashStays ==
    ASSUME DeviceInv, UNCHANGED <<fw, up>>, UNCHANGED flash
    PROVE  DeviceInv' /\ DeviceStutters
<1>1. UNCHANGED <<dfu, active, magic, swapped>>
    BY DEF flash
<1>2. DeviceInv'
    BY <1>1, Zenon DEF DeviceInv, WholeIfBoots, HoldsImage, Holds
<1>3. DeviceStutters
    BY <1>1, Zenon DEF DeviceStutters, Device!vars
<1> QED BY <1>2, <1>3

\* While nothing is staged the DFU partition is nobody's business.
LEMMA DfuIsScratch ==
    ASSUME DeviceInv, magic = "boot", UNCHANGED <<active, magic, swapped, up>>
    PROVE  DeviceInv' /\ DeviceStutters
<1>1. HoldsImage(active)' = HoldsImage(active)
    BY DEF HoldsImage, Holds
<1>2. DeviceInv'
    BY <1>1 DEF DeviceInv
<1>3. DeviceStutters
    BY DEF DeviceStutters, Device!vars
<1> QED BY <1>2, <1>3

DeviceMoves == DeviceStutters \/ Device!Next

\* Marking a running image booted ends its trial, if it is on one.
LEMMA BootedConfirms ==
    ASSUME DeviceInv, MarkFlashBooted, UNCHANGED <<dfu, active>>,
           HoldsImage(active), ~ (fw.state = "Complete" /\ up),
           fw' = fw \/ fw'.state # "Receiving"
    PROVE  DeviceInv' /\ DeviceMoves
<1>1. magic' = "boot" /\ ~ swapped' /\ (magic = "swap" => swapped)
    BY DEF MarkFlashBooted, DeviceInv
<1>2. HoldsImage(active)'
    BY DEF HoldsImage, Holds
<1>3. DeviceInv'
    BY <1>1, <1>2 DEF DeviceInv
<1>4. CASE magic = "swap"
    <2>1. ImageIn(dfu) # NoImage /\ ImageIn(active) \in Images
        BY ImageInKinds
    <2>2. Device!Confirm
        BY <1>1, <1>4, <2>1 DEF Device!Confirm
    <2> QED BY <1>3, <2>2 DEF DeviceMoves, Device!Next
<1>5. CASE magic # "swap"
    BY <1>1, <1>3, <1>5 DEF DeviceMoves, DeviceStutters, Device!vars
<1> QED BY <1>4, <1>5

LEMMA FinishDevice ==
    ASSUME IInv, DeviceInv, up, UNCHANGED up, NEW r, Verified(r),
           magic' = "swap", swapped' = FALSE, fw' = Complete,
           UNCHANGED <<dfu, active>>
    PROVE  DeviceInv' /\ DeviceMoves
<1>1. magic = "boot" /\ ~ swapped /\ HoldsImage(active)
    BY DEF Verified, DeviceInv
<1>2. WholeIfBoots(dfu)
    BY VerifiedWholeIfBoots
<1>3. HoldsImage(active)' /\ WholeIfBoots(dfu)'
    BY <1>1, <1>2 DEF WholeIfBoots, HoldsImage, Holds
<1>4. DeviceInv'
    BY <1>3 DEF DeviceInv, Complete
<1>5. ImageIn(dfu) \in Images \union {Damaged}
    BY ImageInKinds
<1>6. Device!Stage(ImageIn(dfu))
    BY <1>1 DEF Device!Stage
<1> QED BY <1>4, <1>5, <1>6 DEF DeviceMoves, Device!Next

LEMMA ServeDevice ==
    ASSUME IInv, DeviceInv, Serve
    PROVE  DeviceInv' /\ DeviceMoves
<1> DEFINE r == Head(requests)
<1>1. up /\ UNCHANGED up /\ fw.state # "Complete"
    BY DEF Serve
<1>2. CASE UNCHANGED fw /\ UNCHANGED flash
    BY <1>1, <1>2, FlashStays DEF DeviceMoves
<1>3. CASE HandleBegin(r)
    <2>1. CASE magic = "boot" /\ UNCHANGED <<active, magic, swapped>>
        BY <1>1, <2>1, DfuIsScratch DEF DeviceMoves
    <2> QED BY <1>2, <1>3, <2>1 DEF HandleBegin, Refuse
<1>4. CASE HandleChunk(r)
    <2>1. CASE ChunkFits(r) /\ UNCHANGED <<active, magic, swapped>>
        <3>1. magic = "boot"
            BY <2>1 DEF ChunkFits, DeviceInv
        <3> QED BY <1>1, <2>1, <3>1, DfuIsScratch DEF DeviceMoves
    <2> QED BY <1>2, <1>4, <2>1 DEF HandleChunk, Refuse
<1>5. CASE HandleFinish(r)
    BY <1>1, <1>2, <1>5, FinishDevice DEF HandleFinish, Refuse
<1>6. CASE HandleMarkBooted(r)
    <2>1. CASE MarkFlashBooted /\ UNCHANGED <<fw, dfu, active>>
        <3>1. HoldsImage(active)
            BY <1>1 DEF DeviceInv
        <3> QED BY <1>1, <2>1, <3>1, BootedConfirms
    <2> QED BY <1>2, <1>6, <2>1 DEF HandleMarkBooted
<1>7. CASE HandleOther(r)
    BY <1>2, <1>7 DEF HandleOther, Refuse
<1> QED BY <1>3, <1>4, <1>5, <1>6, <1>7 DEF Serve

LEMMA BootDevice ==
    ASSUME DeviceInv, Boot
    PROVE  DeviceInv' /\ DeviceMoves
<1>1. fw'.state = "Idle" /\ up' = FALSE
    BY DEF Boot, Idle
<1>2. /\ ImageIn(active) # NoImage /\ ImageIn(dfu) # NoImage
    BY ImageInKinds
<1>3. CASE magic # "swap"
    <2>1. UNCHANGED <<dfu, active, magic, swapped>>
        BY <1>3 DEF Boot, flash
    <2>2. HoldsImage(active)' = HoldsImage(active)
        BY <2>1 DEF HoldsImage, Holds
    <2>3. DeviceInv'
        BY <1>1, <1>3, <2>1, <2>2 DEF DeviceInv
    <2> QED BY <2>1, <2>3 DEF DeviceMoves, DeviceStutters, Device!vars
<1>4. CASE magic = "swap"
    <2>1. active' = dfu /\ dfu' = active
        BY <1>4 DEF Boot
    <2>2. CASE ~ swapped
        <3>1. swapped' /\ magic' = "swap"
            BY <1>4, <2>2 DEF Boot
        <3>2. HoldsImage(active) /\ WholeIfBoots(dfu)
            BY <1>4, <2>2 DEF DeviceInv
        <3>3. HoldsImage(dfu)' /\ WholeIfBoots(active)'
            BY <2>1, <3>2 DEF WholeIfBoots, HoldsImage, Holds
        <3>4. DeviceInv'
            BY <1>1, <3>1, <3>3 DEF DeviceInv
        <3>5. Device!Swap
            BY <1>2, <1>4, <2>1, <2>2, <3>1 DEF Device!Swap
        <3> QED BY <3>4, <3>5 DEF DeviceMoves, Device!Next
    <2>3. CASE swapped
        <3>1. ~ swapped' /\ magic' = "boot"
            BY <1>4, <2>3 DEF Boot, MarkFlashBooted
        <3>2. HoldsImage(dfu)
            BY <1>4, <2>3 DEF DeviceInv
        <3>3. HoldsImage(active)'
            BY <2>1, <3>2 DEF HoldsImage, Holds
        <3>4. DeviceInv'
            BY <1>1, <3>1, <3>3 DEF DeviceInv
        <3>5. Device!Revert
            BY <1>2, <1>4, <2>1, <2>3, <3>1 DEF Device!Revert
        <3> QED BY <3>4, <3>5 DEF DeviceMoves, Device!Next
    <2> QED BY <2>2, <2>3
<1> QED BY <1>3, <1>4

\* What starts can be booted, and so it is whole.
LEMMA StartDevice ==
    ASSUME IInv, DeviceInv, Start
    PROVE  DeviceInv' /\ DeviceMoves
<1>1. UNCHANGED <<fw, dfu, active>> /\ ~ up /\ up' /\ active[1] # Erased
    BY DEF Start, Bootable, flash
<1>2. HoldsImage(active) /\ ~ (magic = "swap" /\ ~ swapped) /\ magic \in {"boot", "swap"}
    BY <1>1 DEF DeviceInv, WholeIfBoots, IInv, TypeOK
<1>3. CASE MarkFlashBooted
    BY <1>1, <1>2, <1>3, BootedConfirms
<1>4. CASE UNCHANGED flash
    <2>1. UNCHANGED <<magic, swapped>>
        BY <1>4 DEF flash
    <2>2. /\ HoldsImage(active)' = HoldsImage(active)
          /\ HoldsImage(dfu)' = HoldsImage(dfu)
          /\ WholeIfBoots(active)' = WholeIfBoots(active)
        BY <1>1 DEF WholeIfBoots, HoldsImage, Holds
    <2>3. DeviceInv'
        BY <1>1, <1>2, <2>1, <2>2 DEF DeviceInv
    <2> QED BY <1>1, <2>1, <2>3 DEF DeviceMoves, DeviceStutters, Device!vars
<1> QED BY <1>3, <1>4 DEF Start

LEMMA DeviceStep == IInv /\ DeviceInv /\ [Next]_vars => DeviceInv' /\ DeviceMoves
<1> SUFFICES ASSUME IInv, DeviceInv, [Next]_vars
             PROVE  DeviceInv' /\ DeviceMoves
    OBVIOUS
<1>1. CASE \/ \E i \in Images : SelectFile(i)
           \/ StartUpload \/ ResetState \/ LeavePanel
           \/ MarkBooted \/ SendOther \/ OnResponse \/ Disconnect
    <2>1. UNCHANGED <<fw, up>> /\ UNCHANGED flash
        BY <1>1 DEF SelectFile, StartUpload, ResetState, LeavePanel, MarkBooted,
            SendOther, OnResponse, Disconnect
    <2> QED BY <2>1, FlashStays DEF DeviceMoves
<1>2. CASE Serve
    BY <1>2, ServeDevice
<1>3. CASE Connect
    <2>1. /\ fw'.state = "Idle" /\ fw.state # "Complete" /\ up
          /\ UNCHANGED <<up, dfu, active, magic, swapped>>
        BY <1>3 DEF Connect, flash, Idle
    <2>2. /\ HoldsImage(active)' = HoldsImage(active)
          /\ HoldsImage(dfu)' = HoldsImage(dfu)
          /\ WholeIfBoots(active)' = WholeIfBoots(active)
        BY <2>1 DEF WholeIfBoots, HoldsImage, Holds
    <2>3. DeviceInv'
        BY <2>1, <2>2 DEF DeviceInv
    <2> QED BY <2>1, <2>3 DEF DeviceMoves, DeviceStutters, Device!vars
<1>4. CASE ResetAfterFinish \/ PowerCycle \/ Watchdog
    BY <1>4, BootDevice DEF ResetAfterFinish, PowerCycle, Watchdog
<1>5. CASE Start
    BY <1>5, StartDevice
<1>6. CASE UNCHANGED vars
    <2>1. UNCHANGED <<fw, up>> /\ UNCHANGED flash
        BY <1>6 DEF vars, flash
    <2> QED BY <2>1, FlashStays DEF DeviceMoves
<1> QED BY <1>1, <1>2, <1>3, <1>4, <1>5, <1>6 DEF Next

LEMMA DeviceInit == Init => DeviceInv /\ Device!Init
<1> SUFFICES ASSUME Init PROVE DeviceInv /\ Device!Init
    OBVIOUS
<1>1. Holds(active, Factory)
    BY FactoryAssumption, PartitionAssumption, ImageSizeAssumption DEF Init, Holds
<1>2. HoldsImage(active)
    BY <1>1, FactoryAssumption DEF HoldsImage
<1>3. DeviceInv
    BY <1>2 DEF Init, DeviceInv, Idle
<1>4. ImageIn(active) \in Images
    BY <1>2, ImageInKinds
<1>5. Device!Init
    BY <1>4 DEF Init, Device!Init
<1> QED BY <1>3, <1>5

(* Whatever is lost, fails or is cut off, and though a write erases what   *)
(* was written before it in its sector: the device confirms only whole     *)
(* images, changes over at a boot only, and keeps the image before until a *)
(* whole one has been marked booted, to which it goes back otherwise       *)
(* (fw_update.rs, board-support-pico/src/fw_update.rs).                    *)
THEOREM FwUpdateImplementsImageSwap == Spec => DeviceSpec
<1>1. Init => Device!Init /\ DeviceInv
    BY DeviceInit
<1>2. IInv /\ DeviceInv /\ [Next]_vars => DeviceInv' /\ [Device!Next]_(Device!vars)
    BY DeviceStep DEF DeviceMoves, DeviceStutters
<1> QED BY <1>1, <1>2, FwInvariant, PTL DEF Spec, DeviceSpec, Device!Spec
===============================================================================
