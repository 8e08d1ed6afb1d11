------------------------------- MODULE FwUpdate -------------------------------
(***************************************************************************)
(* Firmware update over WebSocket: the upload panel in the browser         *)
(* (combined-frontend/src/components/hil/firmware.rs), the connection, the *)
(* server's update state machine (hil-firmware-support/src/fw_update.rs,   *)
(* ws_server.rs) and the flash behind DfuFlashWriter                       *)
(* (board-support-pico/src/fw_update.rs) with its bootloader.              *)
(*                                                                         *)
(* Data is counted in chunks of MAX_CHUNK_SIZE.  Chunks of two images      *)
(* differ and so do CRCs of two contents, so a chunk is the image it is    *)
(* of, and the running CRC is the sequence of chunks hashed.  (A file has  *)
(* one chunk at least: an empty image would be held by any partition.)     *)
(*                                                                         *)
(* The pico's write_dfu makes an updater of its own for every chunk, and   *)
(* each erases the sector it writes to first.  Of the chunks of a sector   *)
(* the flash so keeps the one written last, though the CRC is of them all. *)
(***************************************************************************)
EXTENDS Naturals, Sequences, FiniteSets

CONSTANTS
    Images,
    Factory,        \* the image the device comes with
    NoImage,
    ImageSize,      \* ImageSize[i], in chunks
    Damaged,        \* a partition that holds no image as a whole
    Partition,      \* the size of a flash partition, in chunks
    SectorSize,     \* the size of a flash sector, in chunks: 4 on the pico
    MaxSelects,     \* bound: files picked while the panel is not Idle
    MaxFaults,      \* bound: flash operations that fail
    MaxBreaks,      \* bound: connections lost, power cuts, panels closed
    MaxOthers       \* bound: failing I2C requests of the same page

ASSUME FactoryAssumption == Factory \in Images /\ NoImage \notin Images
ASSUME DamagedAssumption == Damaged \notin Images \union {NoImage}
ASSUME PartitionAssumption == Partition \in Nat /\ ImageSize[Factory] <= Partition
ASSUME SectorAssumption == SectorSize \in Nat \ {0} /\ Partition % SectorSize = 0
ASSUME ImageSizeAssumption == ImageSize \in [Images -> Nat \ {0}]

VARIABLES
    panel,      \* UploadState's variant
    file,       \* the image it carries
    offset,     \* Uploading's offset
    conn,       \* is there a WebSocket connection?
    requests,   \* from the panel to the server
    responses,  \* from the server to the panel
    fw,         \* FwUpdateState of the connection
    dfu,        \* the DFU partition: a cell per chunk
    active,     \* the active partition
    magic,      \* the bootloader's state: "boot" or "swap"
    swapped,    \* with "swap": have the partitions been swapped already?
    up,         \* is the application running?
    marked,     \* history: the images marked for the next boot since the
                \* panel's file was picked
    budget      \* what is left of the bounds

ui == <<panel, file, offset>>
link == <<conn, requests, responses>>
flash == <<dfu, active, magic, swapped>>
vars == <<panel, file, offset, conn, requests, responses, fw,
          dfu, active, magic, swapped, up, marked, budget>>

\* The chunks of image i.
Contents(i) == [k \in 1..ImageSize[i] |-> i]

CrcOf(chunks) ==
    IF \E i \in Images : chunks = Contents(i)
    THEN CHOOSE i \in Images : chunks = Contents(i)
    ELSE NoImage

(* A flash cell, which is erased before anything is programmed there: the  *)
(* image of the chunk in it, and whether its programming finished.         *)
Erased == [image |-> NoImage, done |-> FALSE]
Torn(i) == [image |-> i, done |-> FALSE]
Pure(i) == [image |-> i, done |-> TRUE]
Holds(partition, i) ==
    /\ ImageSize[i] <= Partition
    /\ \A k \in 1..ImageSize[i] : partition[k] = Pure(i)

Idle == [state |-> "Idle"]
Receiving(total, crc, received, hashed) ==
    [state |-> "Receiving", total |-> total, crc |-> crc,
     received |-> received, hashed |-> hashed]
Complete == [state |-> "Complete"]

FwBegin(i) == [tag |-> "FwBegin", total |-> ImageSize[i], crc |-> i]
FwChunk(at, i) ==
    [tag |-> "FwChunk", offset |-> at,
     data |-> IF at < ImageSize[i] THEN << i >> ELSE << >>]
FwFinish(i) == [tag |-> "FwFinish", crc |-> i]
FwMarkBooted == [tag |-> "FwMarkBooted"]
OtherRequest == [tag |-> "Other"]

FwReady == [tag |-> "FwReady"]
FwChunkAck(next) == [tag |-> "FwChunkAck", next |-> next]
FwFinishAck == [tag |-> "FwFinishAck"]
FwMarkBootedAck == [tag |-> "FwMarkBootedAck"]
Error == [tag |-> "Error"]

Init ==
    /\ panel = "Idle" /\ file = NoImage /\ offset = 0
    /\ conn = FALSE /\ requests = << >> /\ responses = << >>
    /\ fw = Idle
    /\ dfu = [k \in 1..Partition |-> Erased]
    /\ active = [k \in 1..Partition |->
                    IF k <= ImageSize[Factory] THEN Pure(Factory) ELSE Erased]
    /\ magic = "boot" /\ swapped = FALSE /\ up = TRUE
    /\ marked = {}
    /\ budget = [selects |-> MaxSelects, faults |-> MaxFaults,
                 breaks |-> MaxBreaks, others |-> MaxOthers]

Spend(what) ==
    /\ budget[what] > 0
    /\ budget' = [budget EXCEPT ![what] = @ - 1]

-------------------------------------------------------------------------------
(* The panel.  send_request's error when there is no socket is ignored.    *)

Send(request) ==
    requests' = IF conn THEN Append(requests, request) ELSE requests

\* on_file_change: a file may be picked whatever the panel is doing.
SelectFile(i) ==
    /\ IF panel = "Idle" THEN UNCHANGED budget ELSE Spend("selects")
    /\ panel' = "FileSelected" /\ file' = i /\ offset' = 0
    /\ marked' = {}
    /\ UNCHANGED <<fw, up>> /\ UNCHANGED link /\ UNCHANGED flash

StartUpload ==
    /\ panel = "FileSelected"
    /\ Send(FwBegin(file))
    /\ panel' = "WaitingReady"
    /\ UNCHANGED <<file, offset, conn, responses, fw, up, marked, budget>>
    /\ UNCHANGED flash

\* The Retry and Reset buttons.
ResetState ==
    /\ panel \in {"Error", "Complete"}
    /\ panel' = "Idle" /\ file' = NoImage /\ offset' = 0
    /\ UNCHANGED <<fw, up, marked, budget>> /\ UNCHANGED link /\ UNCHANGED flash

\* Another tab is opened, which drops the component and its state.
LeavePanel ==
    /\ panel # "Idle"
    /\ Spend("breaks")
    /\ panel' = "Idle" /\ file' = NoImage /\ offset' = 0
    /\ UNCHANGED <<fw, up, marked>> /\ UNCHANGED link /\ UNCHANGED flash

MarkBooted ==
    /\ panel = "Complete" /\ conn
    /\ Spend("others")
    /\ Send(FwMarkBooted)
    /\ UNCHANGED <<conn, responses, fw, up, marked>>
    /\ UNCHANGED ui /\ UNCHANGED flash

\* Another part of the page has an I2C request that will fail.
SendOther ==
    /\ conn
    /\ Spend("others")
    /\ Send(OtherRequest)
    /\ UNCHANGED <<conn, responses, fw, up, marked>>
    /\ UNCHANGED ui /\ UNCHANGED flash

SendChunk(at) ==
    /\ panel' = "Uploading" /\ offset' = at
    /\ Send(FwChunk(at, file))

(* The effect on fw_response.  A response that does not fit the state is   *)
(* ignored; an Error counts whichever request it answers.                  *)
OnReady ==
    /\ panel = "WaitingReady" /\ Head(responses) = FwReady
    /\ SendChunk(0)

\* Faulty: the end of the file is noticed one chunk too late.
LateOnChunkAck ==
    /\ panel = "Uploading" /\ Head(responses).tag = "FwChunkAck"
    /\ LET next == Head(responses).next
       IN  IF next > ImageSize[file]
           THEN panel' = "WaitingFinish" /\ Send(FwFinish(file))
                /\ UNCHANGED offset
           ELSE SendChunk(next)

OnChunkAck ==
    /\ panel = "Uploading" /\ Head(responses).tag = "FwChunkAck"
    /\ LET next == Head(responses).next
       IN  IF next >= ImageSize[file]
           THEN panel' = "WaitingFinish" /\ Send(FwFinish(file))
                /\ UNCHANGED offset
           ELSE SendChunk(next)

OnFinishAck ==
    /\ panel = "WaitingFinish" /\ Head(responses) = FwFinishAck
    /\ panel' = "Complete"
    /\ UNCHANGED <<offset, requests>>

OnError ==
    /\ panel \in {"WaitingReady", "Uploading", "WaitingFinish"}
    /\ Head(responses) = Error
    /\ panel' = "Error"
    /\ UNCHANGED <<offset, requests>>

Ignores(response) ==
    CASE response.tag = "FwReady" -> panel # "WaitingReady"
      [] response.tag = "FwChunkAck" -> panel # "Uploading"
      [] response.tag = "FwFinishAck" -> panel # "WaitingFinish"
      [] response.tag = "Error" ->
            panel \notin {"WaitingReady", "Uploading", "WaitingFinish"}
      [] OTHER -> TRUE

OnOther ==
    /\ Ignores(Head(responses))
    /\ UNCHANGED <<panel, offset, requests>>

OnResponse ==
    /\ responses # << >>
    /\ OnReady \/ OnChunkAck \/ OnFinishAck \/ OnError \/ OnOther
    /\ responses' = Tail(responses)
    /\ UNCHANGED <<file, conn, fw, up, marked, budget>> /\ UNCHANGED flash

-------------------------------------------------------------------------------
(* The flash, by what embassy-boot does for PicoDfuWriter: it refuses to   *)
(* touch the DFU partition while the running image is on trial.            *)

\* The sector of cell k, and the cells of the sector that offset `at' is in.
SectorOf(k) == (k - 1) \div SectorSize
Sector(at) == { k \in 1..Partition : SectorOf(k) = SectorOf(at + 1) }

Wiped(cells) == [k \in 1..Partition |-> IF k \in cells THEN Erased ELSE dfu[k]]

EraseDfu ==
    /\ magic = "boot"
    /\ dfu' = Wiped(1..Partition)

\* An erase that fails may have erased some of it.
EraseDfuFails == \E n \in 0..Partition : dfu' = Wiped(1..n)

InRange(at, data) == at + Len(data) <= Partition

(* A fresh updater does not know what has been erased: it erases the whole *)
(* sector and writes the one chunk.  Of no data it writes nothing.         *)
WriteDfu(at, data) ==
    /\ magic = "boot"
    /\ InRange(at, data)
    /\ dfu' = IF data = << >> THEN dfu
              ELSE [Wiped(Sector(at)) EXCEPT ![at + 1] = Pure(data[1])]

\* A write that fails may have done so before, in or after the erasure.
WriteDfuFails(at, data) ==
    \/ UNCHANGED dfu
    \/ /\ InRange(at, data) /\ data # << >>
       /\ \/ \E cells \in SUBSET Sector(at) : dfu' = Wiped(cells)
          \/ dfu' = [Wiped(Sector(at)) EXCEPT ![at + 1] = Torn(data[1])]

MarkFlashBooted == magic' = "boot" /\ swapped' = FALSE

-------------------------------------------------------------------------------
(* The server: ws_server.rs's frame loop around handle_fw_request.         *)

Reply(response) ==
    /\ requests' = Tail(requests)
    /\ responses' = Append(responses, response)

(* A refused request, and one whose flash operation fails, leave the       *)
(* update state as it was.                                                 *)
Refuse ==
    /\ Reply(Error)
    /\ UNCHANGED <<fw, marked, budget>> /\ UNCHANGED flash

HandleBegin(r) ==
    /\ r.tag = "FwBegin"
    /\ IF fw.state # "Idle" \/ magic # "boot" THEN Refuse
       ELSE \/ /\ EraseDfu
               /\ fw' = Receiving(r.total, r.crc, 0, << >>)
               /\ Reply(FwReady)
               /\ UNCHANGED <<active, magic, swapped, marked, budget>>
            \/ /\ Spend("faults")
               /\ EraseDfuFails
               /\ Reply(Error)
               /\ UNCHANGED <<fw, active, magic, swapped, marked>>

ChunkFits(r) ==
    /\ fw.state = "Receiving"
    /\ r.offset = fw.received
    /\ fw.received + Len(r.data) <= fw.total

Received(r) ==
    Receiving(fw.total, fw.crc, fw.received + Len(r.data), fw.hashed \o r.data)

\* Faulty: a chunk that could not be written is acknowledged all the same.
QuietHandleChunk(r) ==
    /\ r.tag = "FwChunk"
    /\ IF ~ChunkFits(r) THEN Refuse
       ELSE /\ \/ WriteDfu(r.offset, r.data) /\ UNCHANGED budget
               \/ Spend("faults") /\ WriteDfuFails(r.offset, r.data)
            /\ fw' = Received(r)
            /\ Reply(FwChunkAck(fw.received + Len(r.data)))
            /\ UNCHANGED <<active, magic, swapped, marked>>

HandleChunk(r) ==
    /\ r.tag = "FwChunk"
    /\ IF ~ChunkFits(r) THEN Refuse
       ELSE \/ /\ WriteDfu(r.offset, r.data)
               /\ fw' = Received(r)
               /\ Reply(FwChunkAck(fw.received + Len(r.data)))
               /\ UNCHANGED <<active, magic, swapped, marked, budget>>
            \/ /\ IF InRange(r.offset, r.data)
                  THEN Spend("faults") ELSE UNCHANGED budget
               /\ WriteDfuFails(r.offset, r.data)
               /\ Reply(Error)
               /\ UNCHANGED <<fw, active, magic, swapped, marked>>

Verified(r) ==
    /\ fw.state = "Receiving"
    /\ fw.received = fw.total
    /\ CrcOf(fw.hashed) = fw.crc
    /\ CrcOf(fw.hashed) = r.crc

\* Faulty: a failure to mark the image is not reported.
QuietHandleFinish(r) ==
    /\ r.tag = "FwFinish"
    /\ IF ~Verified(r) THEN Refuse
       ELSE \/ /\ magic' = "swap" /\ swapped' = FALSE
               /\ marked' = marked \union {fw.crc}
               /\ fw' = Complete
               /\ Reply(FwFinishAck)
               /\ UNCHANGED <<dfu, active, budget>>
            \/ /\ Spend("faults")
               /\ fw' = Complete
               /\ Reply(FwFinishAck)
               /\ UNCHANGED marked /\ UNCHANGED flash

HandleFinish(r) ==
    /\ r.tag = "FwFinish"
    /\ IF ~Verified(r) THEN Refuse
       ELSE \/ /\ magic' = "swap" /\ swapped' = FALSE
               /\ marked' = marked \union {fw.crc}
               /\ fw' = Complete
               /\ Reply(FwFinishAck)
               /\ UNCHANGED <<dfu, active, budget>>
            \/ /\ Spend("faults")
               /\ Reply(Error)
               /\ UNCHANGED <<fw, marked>> /\ UNCHANGED flash

HandleMarkBooted(r) ==
    /\ r.tag = "FwMarkBooted"
    /\ \/ /\ MarkFlashBooted
          /\ Reply(FwMarkBootedAck)
          /\ UNCHANGED <<fw, dfu, active, marked, budget>>
       \/ /\ Spend("faults")
          /\ Reply(Error)
          /\ UNCHANGED <<fw, marked>> /\ UNCHANGED flash

HandleOther(r) == r.tag = "Other" /\ Refuse

\* Once the update is Complete the server only waits for its reset.
Serve ==
    /\ up /\ conn /\ requests # << >>
    /\ fw.state # "Complete"
    /\ LET r == Head(requests)
       IN  \/ HandleBegin(r) \/ HandleChunk(r) \/ HandleFinish(r)
           \/ HandleMarkBooted(r) \/ HandleOther(r)
    /\ UNCHANGED <<conn, up>> /\ UNCHANGED ui

-------------------------------------------------------------------------------
(* The connection, power and the bootloader.                               *)

CloseLink == conn' = FALSE /\ requests' = << >> /\ responses' = << >>

\* What was under way is lost; nobody tells the panel's upload state.
Disconnect ==
    /\ conn
    /\ Spend("breaks")
    /\ CloseLink
    /\ UNCHANGED <<fw, up, marked>> /\ UNCHANGED ui /\ UNCHANGED flash

\* ws_client reconnects by itself; the server starts over from Idle.
Connect ==
    /\ up /\ ~conn
    /\ fw.state # "Complete"
    /\ conn' = TRUE
    /\ fw' = Idle
    /\ UNCHANGED <<requests, responses, up, marked, budget>>
    /\ UNCHANGED ui /\ UNCHANGED flash

(* The bootloader: what is staged is swapped in; what is on trial and was  *)
(* not marked booted is swapped out again.                                 *)
Boot ==
    /\ IF magic = "swap"
       THEN /\ active' = dfu /\ dfu' = active
            /\ IF swapped THEN MarkFlashBooted
               ELSE swapped' = TRUE /\ UNCHANGED magic
       ELSE UNCHANGED flash
    /\ CloseLink
    /\ fw' = Idle
    /\ up' = FALSE

\* 100 ms after FwFinishAck was sent.
ResetAfterFinish ==
    /\ up /\ fw.state = "Complete"
    /\ Boot
    /\ UNCHANGED <<marked, budget>> /\ UNCHANGED ui

\* A power cut or a crash, at any time.
PowerCycle ==
    /\ Spend("breaks")
    /\ Boot
    /\ UNCHANGED marked /\ UNCHANGED ui

(* The first chunk of an image begins with its vector table: there is      *)
(* nothing to jump to while it is erased.                                  *)
Bootable == active[1] # Erased

\* The bootloader's watchdog resets a device that faults instead of starting.
Watchdog ==
    /\ ~up /\ ~Bootable
    /\ Boot
    /\ UNCHANGED <<marked, budget>> /\ UNCHANGED ui

\* main: mark_booted, whose failure is only logged.
Start ==
    /\ ~up /\ Bootable
    /\ up' = TRUE
    /\ \/ MarkFlashBooted /\ UNCHANGED <<dfu, active, budget>>
       \/ Spend("faults") /\ UNCHANGED flash
    /\ UNCHANGED <<fw, marked>> /\ UNCHANGED ui /\ UNCHANGED link

Next ==
    \/ \E i \in Images : SelectFile(i)
    \/ StartUpload \/ ResetState \/ LeavePanel \/ MarkBooted \/ SendOther
    \/ OnResponse
    \/ Serve
    \/ Disconnect \/ Connect
    \/ ResetAfterFinish \/ PowerCycle \/ Watchdog \/ Start

Spec == Init /\ [][Next]_vars

(* The browser's event loop and the server's task take what is there, the  *)
(* socket reconnects, the timers fire, the device starts after a reset.    *)
(* The user starts the upload of a file that was picked and clicks Retry.  *)
FairSpec ==
    /\ Spec
    /\ WF_vars(OnResponse) /\ WF_vars(Serve)
    /\ WF_vars(Connect) /\ WF_vars(ResetAfterFinish)
    /\ WF_vars(Watchdog) /\ WF_vars(Start)
    /\ WF_vars(StartUpload) /\ WF_vars(ResetState)
    /\ WF_vars(\E i \in Images : SelectFile(i))
-------------------------------------------------------------------------------
Cells == [image : Images \union {NoImage}, done : BOOLEAN]
Partitions == [1..Partition -> Cells]
Requests ==
    { FwBegin(i) : i \in Images } \union { FwFinish(i) : i \in Images }
        \union { FwChunk(at, i) : at \in 0..Partition, i \in Images }
        \union {FwMarkBooted, OtherRequest}
Responses ==
    { FwChunkAck(next) : next \in 0..Partition }
        \union {FwReady, FwFinishAck, FwMarkBootedAck, Error}

\* The type of every variable.
TypeOK ==
    /\ panel \in {"Idle", "FileSelected", "WaitingReady", "Uploading",
                  "WaitingFinish", "Complete", "Error"}
    /\ file \in Images \union {NoImage}
    /\ offset \in 0..Partition
    /\ conn \in BOOLEAN
    /\ requests \in Seq(Requests) /\ responses \in Seq(Responses)
    /\ \/ fw \in {Idle, Complete}
       \/ /\ fw.state = "Receiving"
          /\ fw.crc \in Images /\ fw.total = ImageSize[fw.crc]
          /\ fw.received \in 0..fw.total
          /\ fw.hashed \in Seq(Images)
    /\ dfu \in Partitions /\ active \in Partitions
    /\ magic \in {"boot", "swap"}
    /\ swapped \in BOOLEAN /\ up \in BOOLEAN
    /\ marked \subseteq Images

\* Is k the last of n chunks, or the last of its sector?
LastOfSector(k, n) == k = n \/ SectorOf(k + 1) # SectorOf(k)

(* The CRC that lets an image be marked is of the data received.  What it  *)
(* says of the flash is that the last chunk of every sector is there, in   *)
(* full and as it was hashed, for every chunk that was hashed was written  *)
(* where it belongs by the same session; the chunks before it are gone.    *)
FlashKeepsLast ==
    fw.state = "Receiving" =>
        /\ fw.received = Len(fw.hashed) /\ fw.received <= Partition
        /\ \A k \in 1..fw.received :
              /\ LastOfSector(k, fw.total) => dfu[k] = Pure(fw.hashed[k])
              /\ ~LastOfSector(k, fw.total) /\ k < fw.received =>
                    dfu[k] = Erased

(* What the panel reports as a complete upload is: the image it was given, *)
(* and no other, has been marked for the next boot.                        *)
CompleteMeansMarked == panel = "Complete" => file \in marked

(* Refinement: whatever is lost, fails or is cut off, the device confirms  *)
(* only whole images, and keeps the old one until a whole new one has been *)
(* confirmed, though what it stages and tries may be damaged.              *)
ImageIn(partition) ==
    IF \E i \in Images : Holds(partition, i)
    THEN CHOOSE i \in Images : Holds(partition, i)
    ELSE Damaged
Device == INSTANCE ImageSwap WITH
    running <- ImageIn(active),
    pending <- IF magic = "swap" /\ ~swapped THEN ImageIn(dfu) ELSE NoImage,
    fallback <- IF magic = "swap" /\ swapped THEN ImageIn(dfu) ELSE NoImage
DeviceSpec == Device!Spec

Undisturbed == \A what \in DOMAIN budget : budget[what] = 0

(* An upload of an image that fits and whose chunks share no sector, and   *)
(* whose FwBegin reaches an idle server of a device that is not on trial,  *)
(* ends with the device running the image if nothing disturbs it any more, *)
(* whatever went wrong before.                                             *)
Survives(i) == ImageSize[i] = 1 \/ SectorSize = 1

UploadRuns ==
    \A i \in { j \in Images : ImageSize[j] <= Partition /\ Survives(j) } :
        (/\ panel = "WaitingReady" /\ fw = Idle /\ up /\ magic = "boot"
         /\ requests = << FwBegin(i) >> /\ responses = << >>
         /\ Undisturbed)
            ~> (up /\ Holds(active, i))

(* A damaged image that was staged is given up without anybody's help: the *)
(* device comes back with the image it ran, and is ready for another one.  *)
DeviceRecovers ==
    \A i \in Images :
        (fw.state = "Complete" /\ Holds(active, i) /\ ImageIn(dfu) = Damaged)
            ~> (up /\ magic = "boot" /\ Holds(active, i))

(* An upload ends with the new image running, or with the old one again.   *)
UploadCompletes == UploadRuns /\ DeviceRecovers
===============================================================================
