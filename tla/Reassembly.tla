------------------------------ MODULE Reassembly ------------------------------
(***************************************************************************)
(* Fragmentation and reassembly of pubsub frames on a shared bus: the CAN, *)
(* LIN and PMBus transports (pubsub/src/transport/{can,lin,pmbus}.rs).     *)
(* send cuts a serialised frame into chunks, each with a header byte       *)
(* [more_fragments:1][seq:7]; recv takes one chunk off the bus and appends *)
(* it to a buffer, whoever sent it, and hands over a frame when a chunk    *)
(* without more_fragments arrives.                                         *)
(*                                                                         *)
(* Senders share the bus, so chunks of different senders interleave; one   *)
(* sender's chunks are in order.  A chunk may be lost before the receiver, *)
(* and a send that fails on one chunk gives the frame up (`?').            *)
(*                                                                         *)
(* A message is one frame's transmission.  Its bytes are abstracted to     *)
(* which chunk of which message they came from, and how many they are.     *)
(***************************************************************************)
EXTENDS Naturals, Sequences

CONSTANTS
    Messages,       \* the frames that may be sent, each once
    SenderOf,       \* SenderOf[m]: the node that sends m
    WireSize,       \* WireSize[m]: FRAME_HEADER_SIZE plus the payload of m
    ChunkBytes,     \* frame bytes per chunk: 7 for CAN and LIN, 31 for PMBus
    Padded,         \* does the bus pad the last chunk to full size? (LIN)
    KeepsBadFrame,  \* does a frame that does not parse stay in the buffer?
                    \* (CAN's from_bytes(..)? returns before the reset)
    Depth,          \* bound: chunks waiting in the receiver's hardware queue
    Lossy           \* may chunks be lost, and sends fail midway?

HeaderSize == 11        \* FRAME_HEADER_SIZE
MaxPayload == 64        \* MAX_FRAME_PAYLOAD

\* Faulty: sized for a payload.
FaultyBufferBytes == MaxPayload

BufferBytes == 128      \* capacity of reassembly_buf

ASSUME ChunkAssumption == ChunkBytes \in {7, 31}
ASSUME WireSizeAssumption ==
    WireSize \in [Messages -> HeaderSize..(HeaderSize + MaxPayload)]
ASSUME OptionsAssumption ==
    Padded \in BOOLEAN /\ KeepsBadFrame \in BOOLEAN /\ Lossy \in BOOLEAN
ASSUME DepthAssumption == Depth \in Nat \ {0}

VARIABLES
    next,       \* next[m]: chunks of m transmitted so far
    begun,      \* history: the messages handed to send, in order
    gaveUp,     \* messages whose send returned an error midway
    bus,        \* chunks on their way to the receiver
    lastLost,   \* did the chunk sent last not reach the receiver?
    burst,      \* history: were two neighbouring chunks ever lost?
    buf,        \* reassembly_buf, as the chunks it was filled from
    size,       \* reassembly_buf.len(), in bytes
    expected,   \* expected_seq
    frames,     \* the contents of the frames recv has handed over, in order
    streak      \* history: the longest run of chunks 0, 1, 2, ... of one
                \* message that the receiver's input ends with

sender == <<next, begun, gaveUp, lastLost, burst>>
receiver == <<buf, size, expected, frames, streak>>
transportVars == <<next, begun, gaveUp, bus, lastLost, burst,
          buf, size, expected, frames, streak>>

\* chunks(ChunkBytes).len(), that is ceil(WireSize / ChunkBytes).
Chunks(m) == (WireSize[m] + ChunkBytes - 1) \div ChunkBytes

Chunk(m, seq) == [msg |-> m, seq |-> seq]

More(c) == c.seq + 1 < Chunks(c.msg)

\* All of m's chunks in order: what an undisturbed reassembly yields.
Whole(m) == [k \in 1..Chunks(m) |-> Chunk(m, k - 1)]

ByteCount(c) ==
    IF Padded \/ More(c) THEN ChunkBytes
    ELSE WireSize[c.msg] - ChunkBytes * c.seq

(* Frame::from_bytes on n bytes: the length byte, header byte 10, decides  *)
(* how many must be there; more than enough is accepted.                   *)
Parses(content, n) ==
    /\ n >= HeaderSize
    /\ LET lengthFrom == content[(HeaderSize - 1) \div ChunkBytes + 1].msg
       IN  n >= WireSize[lengthFrom]

-------------------------------------------------------------------------------
TransportInit ==
    /\ next = [m \in Messages |-> 0]
    /\ begun = << >> /\ gaveUp = {} /\ lastLost = FALSE /\ burst = FALSE
    /\ bus = << >>
    /\ buf = << >> /\ size = 0 /\ expected = 0
    /\ frames = << >> /\ streak = << >>

\* m is being sent: between its first chunk and its last.
Sending(m) == 0 < next[m] /\ next[m] < Chunks(m) /\ m \notin gaveUp

(* A node sends one frame at a time; a gaveUp send is not resumed.         *)
CanTransmit(m) ==
    /\ next[m] < Chunks(m)
    /\ m \notin gaveUp
    /\ \A n \in Messages \ {m} : SenderOf[n] = SenderOf[m] => ~Sending(n)

Begin(m) == begun' = IF next[m] = 0 THEN Append(begun, m) ELSE begun

\* send puts the next chunk of m on the bus, and the receiver has room for it.
Transmit(m) ==
    /\ CanTransmit(m)
    /\ Len(bus) < Depth
    /\ Begin(m)
    /\ next' = [next EXCEPT ![m] = @ + 1]
    /\ bus' = Append(bus, Chunk(m, next[m]))
    /\ lastLost' = FALSE
    /\ UNCHANGED <<gaveUp, burst>> /\ UNCHANGED receiver

ChunkLost == lastLost' = TRUE /\ burst' = (burst \/ lastLost)

\* The chunk is transmitted but does not reach the receiver.
TransmitLost(m) ==
    /\ Lossy
    /\ CanTransmit(m)
    /\ Begin(m)
    /\ next' = [next EXCEPT ![m] = @ + 1]
    /\ ChunkLost
    /\ UNCHANGED <<gaveUp, bus>> /\ UNCHANGED receiver

\* The peripheral reports an error: send returns it, the rest is not sent.
TransmitFails(m) ==
    /\ Lossy
    /\ CanTransmit(m)
    /\ Begin(m)
    /\ gaveUp' = gaveUp \union {m}
    /\ ChunkLost
    /\ UNCHANGED <<next, bus>> /\ UNCHANGED receiver

-------------------------------------------------------------------------------
\* The history variable's update when chunk c is received.
StreakAfter(c) ==
    IF c.seq = Len(streak) /\ (c.seq = 0 \/ c.msg = streak[1].msg)
    THEN Append(streak, c)
    ELSE IF c.seq = 0 THEN << c >> ELSE << >>

\* A first chunk that starts over without clearing the buffer.
FaultyBase(c) == buf

\* What a chunk is appended to: a first chunk starts over.
Base(c) == IF c.seq = 0 THEN << >> ELSE buf
BaseSize(c) == IF c.seq = 0 THEN 0 ELSE size

Continues(c) == c.seq = 0 \/ c.seq = expected

Fits(c) == BaseSize(c) + ByteCount(c) <= BufferBytes

Reset == buf' = << >> /\ size' = 0 /\ expected' = 0

Keep(c) ==
    /\ buf' = Append(Base(c), c)
    /\ size' = BaseSize(c) + ByteCount(c)
    /\ expected' = c.seq + 1

(* recv, on a chunk that does not continue the buffer or does not fit in   *)
(* it.  (LIN and PMBus do not reset a buffer that overflows; NoOverflow    *)
(* shows that no buffer does.)                                             *)
RecvDiscard(c) ==
    /\ ~(Continues(c) /\ Fits(c))
    /\ Reset
    /\ UNCHANGED frames

RecvMore(c) ==
    /\ Continues(c) /\ Fits(c)
    /\ More(c)
    /\ Keep(c)
    /\ UNCHANGED frames

\* On the last chunk: a frame ...
RecvFrame(c) ==
    LET content == Append(Base(c), c)
    IN  /\ Continues(c) /\ Fits(c)
        /\ ~More(c)
        /\ Parses(content, BaseSize(c) + ByteCount(c))
        /\ frames' = Append(frames, content)
        /\ Reset

\* ... or something that does not parse as one.
RecvBadFrame(c) ==
    /\ Continues(c) /\ Fits(c)
    /\ ~More(c)
    /\ ~Parses(Append(Base(c), c), BaseSize(c) + ByteCount(c))
    /\ IF KeepsBadFrame THEN Keep(c) ELSE Reset
    /\ UNCHANGED frames

Recv ==
    /\ bus # << >>
    /\ LET c == Head(bus)
       IN  /\ \/ RecvDiscard(c)
              \/ RecvMore(c)
              \/ RecvFrame(c)
              \/ RecvBadFrame(c)
           /\ streak' = StreakAfter(c)
    /\ bus' = Tail(bus)
    /\ UNCHANGED sender

TransportNext ==
    \/ \E m \in Messages : Transmit(m) \/ TransmitLost(m) \/ TransmitFails(m)
    \/ Recv

TransportSpec == TransportInit /\ [][TransportNext]_transportVars
-------------------------------------------------------------------------------
ChunkSet == { c \in [msg : Messages, seq : 0..10] : c.seq < Chunks(c.msg) }

\* The type of every variable.
TransportTypeOK ==
    /\ next \in [Messages -> 0..11]
    /\ begun \in Seq(Messages)
    /\ gaveUp \subseteq Messages
    /\ lastLost \in BOOLEAN /\ burst \in BOOLEAN
    /\ bus \in Seq(ChunkSet)
    /\ buf \in Seq(ChunkSet)
    /\ size \in 0..BufferBytes
    /\ expected \in 0..11
    /\ frames \in Seq(Seq(ChunkSet))
    /\ streak \in Seq(ChunkSet)

(* The buffer always holds chunks numbered 0, 1, 2, ... up to the one      *)
(* before expected_seq, though possibly of several messages: buffer and    *)
(* counter, updated at different places in recv, never drift apart.        *)
BufferInOrder ==
    /\ expected = Len(buf)
    /\ \A k \in DOMAIN buf : buf[k].seq = k - 1

(* A chunk that continues the buffer always fits in it, whatever mixture   *)
(* of messages the buffer has come to hold: the error paths of             *)
(* extend_from_slice and push are dead code.                               *)
NoOverflow ==
    bus # << >> => (Continues(Head(bus)) => Fits(Head(bus)))

(* The recovery the sequence numbers are for: once all the chunks of a     *)
(* message have come in one run, recv hands over exactly that message,     *)
(* whatever lost, foreign or unparsable chunks came before.                *)
RunCompletes ==
    \A m \in Messages :
        (streak' = Whole(m) /\ streak # streak')
            => frames' = Append(frames, Whole(m))
RunDelivers == [][RunCompletes]_transportVars

Intact(f) == f = Whole(f[1].msg)

(* Refinement.                                                            *)
FrameValue(f) == IF Intact(f) THEN f[1].msg ELSE f
PositionOf(f) ==
    LET at == { k \in DOMAIN begun : begun[k] = FrameValue(f) }
    IN  IF at = {} THEN 0 ELSE CHOOSE k \in at : TRUE
LinkGot == [k \in DOMAIN frames |-> FrameValue(frames[k])]
LinkPassed == IF frames = << >> THEN 0 ELSE PositionOf(frames[Len(frames)])

Link == INSTANCE FrameLink WITH
            sent <- begun, got <- LinkGot, passed <- LinkPassed
(* As long as one sender has had the bus to itself and no two neighbouring *)
(* chunks were lost, the transport is the link that FrameLink describes:   *)
(* every step is a step of the link or leaves it alone.                    *)
Alone == \A j, k \in DOMAIN begun : SenderOf[begun[j]] = SenderOf[begun[k]]

LinkWhileAlone ==
    Link!Init /\ [][(Alone /\ ~burst)' => Link!Next]_(Link!vars)
===============================================================================
