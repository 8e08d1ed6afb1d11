--------------------------------- MODULE PubsubProofs --------------------------
(***************************************************************************)
(* The crate pubsub: what carries a frame, and what takes it in.           *)
(*                                                                         *)
(* Whatever is sent by how many nodes, and whatever is lost, Reassembly is *)
(* type correct, its buffer and its counter agree, the buffer never        *)
(* overflows, and an unbroken run of chunks always yields its message.     *)
(* While one sender has the bus and chunks are lost one at a time, the     *)
(* transports implement FrameLink.                                         *)
(*                                                                         *)
(* No slot of a Broker's table is dispatched to without a subscription in  *)
(* force, and until a client uses a handle twice the table is exactly the  *)
(* subscriptions in force; a frame calls exactly those; and a poll that    *)
(* ends well has drained both buses: for every table size, number of       *)
(* clients and topics, and whatever the two buses bring.                   *)
(***************************************************************************)
EXTENDS Reassembly, Broker, FiniteSetTheorems, TLAPS

-------------------------------------------------------------------------------
(* Chunks.                                                                 *)

\* A message has one to eleven chunks, the least number that holds it.
LEMMA ChunkCount ==
    ASSUME NEW m \in Messages
    PROVE  /\ Chunks(m) \in 1..11
           /\ ChunkBytes * Chunks(m) >= WireSize[m]
           /\ ChunkBytes * Chunks(m) <= 105
           /\ ChunkBytes * (Chunks(m) - 1) < WireSize[m]
           /\ (HeaderSize - 1) \div ChunkBytes + 1 \in 1..Chunks(m)
<1>1. WireSize[m] \in 11..75
  BY WireSizeAssumption DEF HeaderSize, MaxPayload
<1>2. CASE ChunkBytes = 7
  BY <1>1, <1>2 DEF Chunks, HeaderSize
<1>3. CASE ChunkBytes = 31
  BY <1>1, <1>3 DEF Chunks, HeaderSize
<1>. QED BY <1>2, <1>3, ChunkAssumption

\* A chunk carries at most ChunkBytes, and all of them unless it is the last.
LEMMA ChunkLength ==
    ASSUME NEW c \in ChunkSet
    PROVE  /\ ByteCount(c) \in 1..ChunkBytes
           /\ More(c) => ByteCount(c) = ChunkBytes
           /\ ChunkBytes * c.seq + ByteCount(c) <= 105
           /\ ~More(c) => ChunkBytes * c.seq + ByteCount(c) >= WireSize[c.msg]
<1>1. /\ c.msg \in Messages
      /\ c.seq \in 0..10
      /\ c.seq < Chunks(c.msg)
  BY DEF ChunkSet
<1>2. /\ Chunks(c.msg) \in 1..11
      /\ ChunkBytes * Chunks(c.msg) >= WireSize[c.msg]
      /\ ChunkBytes * Chunks(c.msg) <= 105
      /\ ChunkBytes * (Chunks(c.msg) - 1) < WireSize[c.msg]
  BY <1>1, ChunkCount
<1>3. WireSize[c.msg] \in 11..75
  BY <1>1, WireSizeAssumption DEF HeaderSize, MaxPayload
<1>4. CASE More(c)
  <2>1. ByteCount(c) = ChunkBytes
    BY <1>4 DEF ByteCount
  <2>2. CASE ChunkBytes = 7
    BY <1>1, <1>2, <1>4, <2>1, <2>2 DEF More
  <2>3. CASE ChunkBytes = 31
    BY <1>1, <1>2, <1>4, <2>1, <2>3 DEF More
  <2>. QED BY <2>2, <2>3, ChunkAssumption
<1>5. CASE ~More(c)
  <2>1. c.seq = Chunks(c.msg) - 1
    BY <1>1, <1>2, <1>5 DEF More
  <2>2. ByteCount(c) \in {ChunkBytes, WireSize[c.msg] - ChunkBytes * c.seq}
    BY DEF ByteCount
  <2>3. CASE ChunkBytes = 7
    BY <1>1, <1>2, <1>3, <1>5, <2>1, <2>2, <2>3
  <2>4. CASE ChunkBytes = 31
    BY <1>1, <1>2, <1>3, <1>5, <2>1, <2>2, <2>4
  <2>. QED BY <2>3, <2>4, ChunkAssumption
<1>. QED BY <1>4, <1>5

\* All of a message's bytes parse as a frame, padding after them or not.
LEMMA WholeParses ==
    ASSUME NEW m \in Messages, NEW n \in Nat, n >= WireSize[m]
    PROVE  Parses(Whole(m), n)
<1>1. WireSize[m] \in 11..75
  BY WireSizeAssumption DEF HeaderSize, MaxPayload
<1>2. (HeaderSize - 1) \div ChunkBytes + 1 \in 1..Chunks(m)
  BY ChunkCount
<1>3. Whole(m)[(HeaderSize - 1) \div ChunkBytes + 1].msg = m
  BY <1>2 DEF Whole, Chunk
<1>. QED BY <1>1, <1>3 DEF Parses, HeaderSize

\* Bytes of whole chunks.
LEMMA WholeChunks ==
    ASSUME NEW n \in Nat
    PROVE  /\ ChunkBytes \in Nat
           /\ ChunkBytes * n \in Nat
           /\ ChunkBytes * (n + 1) = ChunkBytes * n + ChunkBytes
<1>1. CASE ChunkBytes = 7
  BY <1>1
<1>2. CASE ChunkBytes = 31
  BY <1>2
<1>. QED BY <1>1, <1>2, ChunkAssumption

-------------------------------------------------------------------------------
(* The inductive invariant.                                                *)

\* The first n chunks of m.
FirstChunks(m, n) == [k \in 1..n |-> Chunk(m, k - 1)]

\* Every chunk but the last is full, so the counter bounds the bytes.
SizeBounded == size <= ChunkBytes * expected

(* A run that is not complete is what the buffer holds: nothing that came  *)
(* before it is left there.                                                *)
RunIsBuffered ==
    streak # << >> =>
        LET m == streak[1].msg
        IN  /\ Len(streak) <= Chunks(m)
            /\ streak = FirstChunks(m, Len(streak))
            /\ Len(streak) < Chunks(m) =>
                   buf = streak /\ size = ChunkBytes * Len(streak)

ReassemblyInv == TransportTypeOK /\ BufferInOrder /\ SizeBounded /\ RunIsBuffered

LEMMA InitInv == TransportInit => ReassemblyInv
<1>. SUFFICES ASSUME TransportInit PROVE ReassemblyInv
  OBVIOUS
<1>1. TransportTypeOK
  <2>1. /\ << >> \in Seq(Messages)
        /\ << >> \in Seq(ChunkSet)
        /\ << >> \in Seq(Seq(ChunkSet))
    OBVIOUS
  <2>2. next \in [Messages -> 0..11]
    BY DEF TransportInit
  <2>3. begun \in Seq(Messages) /\ frames \in Seq(Seq(ChunkSet))
    BY <2>1 DEF TransportInit
  <2>4. /\ bus \in Seq(ChunkSet)
        /\ buf \in Seq(ChunkSet)
        /\ streak \in Seq(ChunkSet)
    BY <2>1 DEF TransportInit
  <2>5. gaveUp \subseteq Messages /\ lastLost \in BOOLEAN /\ burst \in BOOLEAN
    BY Zenon DEF TransportInit
  <2>6. size \in 0..BufferBytes /\ expected \in 0..11
    BY DEF TransportInit, BufferBytes
  <2>. QED BY <2>2, <2>3, <2>4, <2>5, <2>6 DEF TransportTypeOK
<1>2. BufferInOrder
  BY DEF TransportInit, BufferInOrder
<1>3. SizeBounded
  BY ChunkAssumption DEF TransportInit, SizeBounded
<1>4. RunIsBuffered
  BY DEF TransportInit, RunIsBuffered
<1>. QED BY <1>1, <1>2, <1>3, <1>4 DEF ReassemblyInv

\* The senders' actions leave the receiver alone.
LEMMA SendKeepsInv ==
    ASSUME ReassemblyInv, NEW m \in Messages,
           Transmit(m) \/ TransmitLost(m) \/ TransmitFails(m)
    PROVE  ReassemblyInv'
<1>1. UNCHANGED receiver
  BY DEF Transmit, TransmitLost, TransmitFails
<1>2. /\ next[m] \in 0..11
      /\ next[m] < Chunks(m)
      /\ Chunks(m) \in 1..11
  BY ChunkCount DEF ReassemblyInv, TransportTypeOK,
     Transmit, TransmitLost, TransmitFails, CanTransmit
<1>3. Chunk(m, next[m]) \in ChunkSet
  BY <1>2 DEF ChunkSet, Chunk
<1>4. begun' \in Seq(Messages)
  <2>1. begun' \in {begun, Append(begun, m)}
    BY DEF Transmit, TransmitLost, TransmitFails, Begin
  <2>2. begun \in Seq(Messages)
    BY DEF ReassemblyInv, TransportTypeOK
  <2>. QED BY <2>1, <2>2
<1>5. next' \in [Messages -> 0..11]
  <2>1. next' = next \/ next' = [next EXCEPT ![m] = @ + 1]
    BY DEF Transmit, TransmitLost, TransmitFails
  <2>2. next \in [Messages -> 0..11]
    BY DEF ReassemblyInv, TransportTypeOK
  <2>3. next[m] + 1 \in 0..11
    BY <1>2
  <2>. QED BY <2>1, <2>2, <2>3
<1>6. bus' \in Seq(ChunkSet)
  <2>1. bus' \in {bus, Append(bus, Chunk(m, next[m]))}
    BY DEF Transmit, TransmitLost, TransmitFails
  <2>2. bus \in Seq(ChunkSet)
    BY DEF ReassemblyInv, TransportTypeOK
  <2>. QED BY <1>3, <2>1, <2>2
<1>7. gaveUp' \subseteq Messages /\ lastLost' \in BOOLEAN /\ burst' \in BOOLEAN
  <2>1. gaveUp \subseteq Messages /\ lastLost \in BOOLEAN /\ burst \in BOOLEAN
    BY DEF ReassemblyInv, TransportTypeOK
  <2>2. lastLost' \in {TRUE, FALSE} /\ burst' \in {burst, burst \/ lastLost}
    BY DEF Transmit, TransmitLost, TransmitFails, ChunkLost
  <2>3. gaveUp' \subseteq Messages
    BY <2>1 DEF Transmit, TransmitLost, TransmitFails
  <2>. QED BY <2>1, <2>2, <2>3
<1>8. TransportTypeOK'
  BY <1>1, <1>4, <1>5, <1>6, <1>7 DEF ReassemblyInv, TransportTypeOK, receiver
<1>. QED BY <1>1, <1>8 DEF ReassemblyInv, receiver,
         BufferInOrder, SizeBounded, RunIsBuffered

\* The chunk that recv takes, and what it would make of the buffer.
LEMMA TakenChunk ==
    ASSUME ReassemblyInv, NEW c \in ChunkSet, Continues(c)
    PROVE  /\ Fits(c)
           /\ Base(c) \in Seq(ChunkSet)
           /\ Len(Base(c)) = c.seq
           /\ \A k \in DOMAIN Base(c) : Base(c)[k].seq = k - 1
           /\ BaseSize(c) \in Nat
           /\ BaseSize(c) <= ChunkBytes * c.seq
<1>1. c.seq \in 0..10
  BY DEF ChunkSet
<1>2. /\ Base(c) \in Seq(ChunkSet)
      /\ Len(Base(c)) = c.seq
      /\ \A k \in DOMAIN Base(c) : Base(c)[k].seq = k - 1
  BY <1>1 DEF Base, Continues, ReassemblyInv, TransportTypeOK, BufferInOrder
<1>3. BaseSize(c) \in Nat /\ BaseSize(c) <= ChunkBytes * c.seq
  BY <1>1, ChunkAssumption DEF BaseSize, Continues, ReassemblyInv, TransportTypeOK,
     SizeBounded, BufferBytes
<1>4. ByteCount(c) \in 1..ChunkBytes /\ ChunkBytes * c.seq + ByteCount(c) <= 105
  BY ChunkLength
<1>5. Fits(c)
  <2>1. ChunkBytes * c.seq \in Nat
    BY <1>1, ChunkAssumption
  <2>. QED BY <1>3, <1>4, <2>1, ChunkAssumption DEF Fits, BufferBytes
<1>. QED BY <1>2, <1>3, <1>5

\* In a run, the next chunk is one that recv accepts.
LEMMA RunContinues ==
    ASSUME ReassemblyInv, NEW c \in ChunkSet,
           streak # << >>, c.seq = Len(streak), c.msg = streak[1].msg
    PROVE  /\ buf = FirstChunks(c.msg, c.seq)
           /\ size = ChunkBytes * c.seq
           /\ Base(c) = buf /\ BaseSize(c) = size
           /\ Continues(c)
           /\ Append(buf, c) = FirstChunks(c.msg, c.seq + 1)
<1>1. c.seq \in 1..10 /\ c.seq < Chunks(c.msg) /\ c.msg \in Messages
  <2>1. c.seq \in 0..10 /\ c.seq < Chunks(c.msg) /\ c.msg \in Messages
    BY DEF ChunkSet
  <2>2. Len(streak) # 0
    BY DEF ReassemblyInv, TransportTypeOK
  <2>. QED BY <2>1, <2>2
<1>2. /\ streak = FirstChunks(c.msg, c.seq)
      /\ buf = streak
      /\ size = ChunkBytes * c.seq
  BY <1>1 DEF ReassemblyInv, RunIsBuffered
<1>3. expected = c.seq
  BY <1>2 DEF ReassemblyInv, BufferInOrder
<1>4. c = Chunk(c.msg, c.seq)
  BY DEF ChunkSet, Chunk
<1>5. Append(buf, c) = FirstChunks(c.msg, c.seq + 1)
  BY <1>1, <1>2, <1>4 DEF FirstChunks
<1>6. Base(c) = buf /\ BaseSize(c) = size
  BY <1>1 DEF Base, BaseSize
<1>7. Continues(c)
  BY <1>3 DEF Continues
<1>. QED BY <1>2, <1>5, <1>6, <1>7

(* recv keeps the invariant and keeps RunDelivers's promise.               *)
LEMMA RecvKeepsInv ==
    ASSUME ReassemblyInv, Recv
    PROVE  ReassemblyInv' /\ RunCompletes
<1>. PICK c : c = Head(bus)
  OBVIOUS
<1>1. /\ c \in ChunkSet
      /\ Tail(bus) \in Seq(ChunkSet)
      /\ streak \in Seq(ChunkSet)
      /\ c.seq \in 0..10 /\ c.msg \in Messages /\ c.seq < Chunks(c.msg)
      /\ c = Chunk(c.msg, c.seq)
  BY DEF Recv, ReassemblyInv, TransportTypeOK, ChunkSet, Chunk
<1>2. /\ RecvDiscard(c) \/ RecvMore(c) \/ RecvFrame(c) \/ RecvBadFrame(c)
      /\ streak' = StreakAfter(c)
      /\ bus' = Tail(bus)
      /\ UNCHANGED sender
  BY DEF Recv
<1>3. Continues(c) =>
          /\ Fits(c)
          /\ Base(c) \in Seq(ChunkSet)
          /\ Len(Base(c)) = c.seq
          /\ \A k \in DOMAIN Base(c) : Base(c)[k].seq = k - 1
          /\ BaseSize(c) \in Nat
          /\ BaseSize(c) <= ChunkBytes * c.seq
  BY <1>1, TakenChunk
<1>4. /\ ByteCount(c) \in 1..ChunkBytes
      /\ More(c) => ByteCount(c) = ChunkBytes
      /\ ~More(c) => ChunkBytes * c.seq + ByteCount(c) >= WireSize[c.msg]
      /\ ByteCount(c) \in Nat
      /\ ChunkBytes * c.seq \in Nat
  <2>1. ByteCount(c) \in 1..ChunkBytes
    BY <1>1, ChunkLength
  <2>2. c.seq \in Nat
    BY <1>1
  <2>3. ChunkBytes \in Nat /\ ChunkBytes * c.seq \in Nat
    BY <2>2, WholeChunks
  <2>4. ByteCount(c) \in Nat
    BY <2>1, <2>3
  <2>. QED BY <1>1, <2>1, <2>3, <2>4, ChunkLength
<1>7. \/ Continues(c) /\ Keep(c)
      \/ Reset
  BY <1>2 DEF RecvDiscard, RecvMore, RecvFrame, RecvBadFrame
<1>8. /\ buf' \in Seq(ChunkSet)
      /\ size' \in 0..BufferBytes
      /\ expected' \in 0..11
      /\ BufferInOrder'
      /\ SizeBounded'
  <2>1. CASE Continues(c) /\ Keep(c)
    <3>1. /\ buf' = Append(Base(c), c)
          /\ size' = BaseSize(c) + ByteCount(c)
          /\ expected' = c.seq + 1
      BY <2>1 DEF Keep
    <3>2. buf' \in Seq(ChunkSet) /\ Len(buf') = c.seq + 1
      BY <1>1, <1>3, <2>1, <3>1
    <3>3. size' \in 0..BufferBytes
      <4>1. BaseSize(c) \in Nat /\ ByteCount(c) \in Nat
        BY <1>3, <1>4, <2>1
      <4>2. BaseSize(c) + ByteCount(c) <= BufferBytes
        BY <1>3, <2>1 DEF Fits
      <4>3. size' \in Nat /\ size' <= BufferBytes
        BY <3>1, <4>1, <4>2
      <4>. QED BY <4>3 DEF BufferBytes
    <3>4. expected' \in 0..11
      <4>1. c.seq + 1 \in 0..11
        BY <1>1
      <4>. QED BY <3>1, <4>1
    <3>5. \A k \in DOMAIN buf' : buf'[k].seq = k - 1
      BY <1>1, <1>3, <2>1, <3>1
    <3>6. BufferInOrder'
      BY <3>1, <3>2, <3>5 DEF BufferInOrder
    <3>7. SizeBounded'
      <4>1. /\ BaseSize(c) \in Nat /\ BaseSize(c) <= ChunkBytes * c.seq
            /\ ByteCount(c) \in Nat /\ ByteCount(c) <= ChunkBytes
        <5>1. ChunkBytes \in Nat /\ ByteCount(c) \in 1..ChunkBytes
          BY <1>4, ChunkAssumption
        <5>. QED BY <1>3, <1>4, <2>1, <5>1
      <4>2. c.seq \in Nat
        BY <1>1
      <4>3. /\ ChunkBytes \in Nat /\ ChunkBytes * c.seq \in Nat
            /\ ChunkBytes * (c.seq + 1) = ChunkBytes * c.seq + ChunkBytes
        BY <4>2, WholeChunks
      <4>4. BaseSize(c) + ByteCount(c) <= ChunkBytes * (c.seq + 1)
        BY <4>1, <4>3
      <4>. QED BY <3>1, <4>4 DEF SizeBounded
    <3>. QED BY <3>2, <3>3, <3>4, <3>6, <3>7
  <2>2. CASE Reset
    BY <2>2, ChunkAssumption
    DEF Reset, BufferInOrder, SizeBounded, BufferBytes
  <2>. QED BY <1>7, <2>1, <2>2
<1>9. frames' \in Seq(Seq(ChunkSet))
  <2>1. CASE RecvFrame(c)
    <3>1. Append(Base(c), c) \in Seq(ChunkSet)
      BY <1>1, <1>3, <2>1 DEF RecvFrame
    <3>. QED BY <2>1, <3>1 DEF RecvFrame, ReassemblyInv, TransportTypeOK
  <2>2. CASE ~RecvFrame(c)
    BY <1>2, <2>2
    DEF RecvDiscard, RecvMore, RecvBadFrame, ReassemblyInv, TransportTypeOK
  <2>. QED BY <2>1, <2>2
<1>10. streak' \in Seq(ChunkSet)
  BY <1>1, <1>2 DEF StreakAfter
<1>11. TransportTypeOK'
  BY <1>1, <1>2, <1>8, <1>9, <1>10 DEF ReassemblyInv, TransportTypeOK, sender
<1>12. CASE streak' = << >>
  <2>1. RunIsBuffered'
    BY <1>12 DEF RunIsBuffered
  <2>2. ASSUME NEW m \in Messages, Whole(m) = << >>
        PROVE  FALSE
    <3>1. Len(Whole(m)) = Chunks(m)
      BY ChunkCount DEF Whole
    <3>. QED BY <2>2, <3>1, ChunkCount
  <2>. QED BY <1>8, <1>11, <1>12, <2>1, <2>2 DEF ReassemblyInv, RunCompletes
\* The run that c ends has the chunks of c.msg up to c, and recv took them all.
<1>13. CASE streak' # << >>
  <2>1. /\ streak' = FirstChunks(c.msg, c.seq + 1)
        /\ Continues(c)
        /\ Append(Base(c), c) = streak'
        /\ BaseSize(c) = ChunkBytes * c.seq
    <3>1. CASE c.seq = 0
      <4>1. streak' = << c >>
        <5>1. Len(streak) = 0 => Append(streak, c) = << c >>
          BY <1>1
        <5>. QED BY <1>2, <3>1, <5>1 DEF StreakAfter
      <4>2. << c >> = FirstChunks(c.msg, c.seq + 1)
        BY <1>1, <3>1 DEF FirstChunks
      <4>. QED BY <3>1, <4>1, <4>2, ChunkAssumption DEF Continues, Base, BaseSize
    <3>2. CASE c.seq # 0
      <4>1. /\ streak # << >>
            /\ c.seq = Len(streak) /\ c.msg = streak[1].msg
            /\ streak' = Append(streak, c)
        BY <1>1, <1>2, <1>13, <3>2 DEF StreakAfter
      <4>2. /\ buf = FirstChunks(c.msg, c.seq)
            /\ size = ChunkBytes * c.seq
            /\ Base(c) = buf /\ BaseSize(c) = size
            /\ Continues(c)
            /\ Append(buf, c) = FirstChunks(c.msg, c.seq + 1)
        BY <1>1, <4>1, RunContinues
      <4>3. streak = buf
        BY <1>1, <4>1, <4>2 DEF ReassemblyInv, RunIsBuffered
      <4>. QED BY <4>1, <4>2, <4>3
    <3>. QED BY <3>1, <3>2
  <2>2. Fits(c)
    BY <1>3, <2>1
  <2>3. /\ Len(streak') = c.seq + 1
        /\ streak'[1].msg = c.msg
    BY <1>1, <2>1 DEF FirstChunks, Chunk
  <2>4. CASE More(c)
    <3>1. Keep(c)
      BY <1>2, <2>1, <2>2, <2>4
      DEF RecvDiscard, RecvMore, RecvFrame, RecvBadFrame
    <3>2. buf' = streak'
      BY <2>1, <3>1 DEF Keep
    <3>3. size' = ChunkBytes * (c.seq + 1)
      <4>1. size' = ChunkBytes * c.seq + ChunkBytes
        BY <1>4, <2>1, <2>4, <3>1 DEF Keep
      <4>. QED BY <1>1, <4>1, ChunkAssumption
    <3>4. RunIsBuffered'
      <4>1. Len(streak') <= Chunks(c.msg)
        <5>1. Chunks(c.msg) \in Nat
          BY <1>1, ChunkCount
        <5>. QED BY <1>1, <2>3, <5>1
      <4>2. streak' = FirstChunks(c.msg, Len(streak'))
        BY <2>1, <2>3
      <4>3. size' = ChunkBytes * Len(streak')
        BY <2>3, <3>3
      <4>. QED BY <2>3, <3>2, <4>1, <4>2, <4>3 DEF RunIsBuffered
    <3>5. ASSUME NEW m \in Messages, streak' = Whole(m)
          PROVE  FALSE
      <4>1. Len(streak') = Chunks(m) /\ streak'[1].msg = m
        BY <3>5, ChunkCount DEF Whole, Chunk
      <4>. QED BY <1>1, <2>3, <2>4, <4>1 DEF More
    <3>. QED BY <1>8, <1>11, <3>4, <3>5 DEF ReassemblyInv, RunCompletes
  <2>5. CASE ~More(c)
    <3>1. Chunks(c.msg) = c.seq + 1
      <4>1. Chunks(c.msg) \in Nat
        BY <1>1, ChunkCount
      <4>2. c.seq \in Nat /\ c.seq < Chunks(c.msg) /\ ~(c.seq + 1 < Chunks(c.msg))
        BY <1>1, <2>5 DEF More
      <4>. QED BY <4>1, <4>2
    <3>2. streak' = Whole(c.msg)
      BY <2>1, <3>1 DEF Whole, FirstChunks
    <3>3. BaseSize(c) + ByteCount(c) \in Nat
          /\ BaseSize(c) + ByteCount(c) >= WireSize[c.msg]
      BY <1>4, <2>1, <2>5
    <3>4. Parses(Append(Base(c), c), BaseSize(c) + ByteCount(c))
      BY <1>1, <2>1, <3>2, <3>3, WholeParses
    <3>5. frames' = Append(frames, Whole(c.msg))
      BY <1>2, <2>1, <2>2, <2>5, <3>2, <3>4
      DEF RecvDiscard, RecvMore, RecvFrame, RecvBadFrame
    <3>6. RunIsBuffered'
      BY <1>1, <2>1, <2>3, <3>1 DEF RunIsBuffered
    <3>7. ASSUME NEW m \in Messages, streak' = Whole(m)
          PROVE  m = c.msg
      BY <2>3, <3>7, ChunkCount DEF Whole, Chunk
    <3>. QED BY <1>8, <1>11, <3>5, <3>6, <3>7 DEF ReassemblyInv, RunCompletes
  <2>. QED BY <2>4, <2>5
<1>. QED BY <1>12, <1>13

\* No step breaks the invariant, and every step keeps RunDelivers's promise.
LEMMA NextInv ==
    ASSUME ReassemblyInv, [TransportNext]_transportVars
    PROVE  ReassemblyInv' /\ [RunCompletes]_transportVars
<1>1. ASSUME NEW m \in Messages,
             Transmit(m) \/ TransmitLost(m) \/ TransmitFails(m)
      PROVE  ReassemblyInv' /\ RunCompletes
  BY <1>1, SendKeepsInv
  DEF Transmit, TransmitLost, TransmitFails, receiver, RunCompletes
<1>2. CASE Recv
  BY <1>2, RecvKeepsInv
<1>3. CASE UNCHANGED transportVars
  BY <1>3 DEF transportVars, ReassemblyInv, TransportTypeOK, BufferInOrder, SizeBounded,
     RunIsBuffered
<1>. QED BY <1>1, <1>2, <1>3 DEF TransportNext

-------------------------------------------------------------------------------
(* Every reachable state is in the types the code declares: in particular  *)
(* reassembly_buf holds at most 128 bytes and expected_seq at most 11.     *)
THEOREM ReassemblyTypeCorrect == TransportSpec => []TransportTypeOK
<1>1. ReassemblyInv => TransportTypeOK
  BY DEF ReassemblyInv
<1>. QED BY <1>1, InitInv, NextInv, PTL DEF TransportSpec

(* reassembly_buf and expected_seq agree in every state, for any number of *)
(* senders and any loss: the buffer is a run of sequence numbers.          *)
THEOREM ReassemblyBufferInOrder == TransportSpec => []BufferInOrder
<1>1. ReassemblyInv => BufferInOrder
  BY DEF ReassemblyInv
<1>. QED BY <1>1, InitInv, NextInv, PTL DEF TransportSpec

(* No chunk that recv accepts overflows reassembly_buf, even when the      *)
(* buffer mixes messages: the overflow paths of recv are never taken.      *)
THEOREM ReassemblyNoOverflow == TransportSpec => []NoOverflow
<1>1. ReassemblyInv => NoOverflow
  <2>. SUFFICES ASSUME ReassemblyInv, bus # << >>, Continues(Head(bus))
                PROVE  Fits(Head(bus))
    BY DEF NoOverflow
  <2>1. Head(bus) \in ChunkSet
    BY DEF ReassemblyInv, TransportTypeOK
  <2>. QED BY <2>1, TakenChunk
<1>. QED BY <1>1, InitInv, NextInv, PTL DEF TransportSpec

(* Whenever all chunks of a message arrive in one unbroken run, recv hands *)
(* over that message, whatever the buffer held before the run.             *)
THEOREM ReassemblyRunDelivers == TransportSpec => RunDelivers
BY InitInv, NextInv, PTL DEF TransportSpec, RunDelivers
-------------------------------------------------------------------------------
(* The link.  A sender that has the bus to itself sends one message after  *)
(* the other, so what is on the bus is in order, and while no two chunks   *)
(* in a row were lost the buffer holds the beginning of one message: where *)
(* a chunk follows another and continues its numbers it is of the same     *)
(* message, or the other was a last one and left nothing in the buffer.    *)

OnlySender == Alone /\ ~burst
Latest == begun[Len(begun)]
HasBegun(m) == \E k \in DOMAIN begun : begun[k] = m
Earlier(list, m, n) ==
    \E j, k \in DOMAIN list : j < k /\ list[j] = m /\ list[k] = n

\* send is called once for a message, and transmits no more than its chunks.
BegunOnce ==
    /\ \A j, k \in DOMAIN begun : begun[j] = begun[k] => j = k
    /\ \A m \in Messages : HasBegun(m) <=> next[m] > 0 \/ m \in gaveUp
    /\ \A m \in Messages : next[m] <= Chunks(m)

OneAtATime == \A m \in Messages : Sending(m) => m = Latest

Ordered(list, c, d) == (c.msg = d.msg /\ c.seq < d.seq) \/ Earlier(list, c.msg, d.msg)
FollowsOn(c, d) == d.seq = c.seq + 1 /\ More(c) => d.msg = c.msg

\* c is the last chunk that was transmitted and not lost.
LastSent(c) ==
    IF lastLost THEN c.msg = Latest \/ ~More(c)
    ELSE c.msg = Latest /\ next[c.msg] = c.seq + 1 /\ c.msg \notin gaveUp

Stream ==
    /\ \A k \in DOMAIN bus : bus[k].seq < next[bus[k].msg]
    /\ \A j, k \in DOMAIN bus : j < k => Ordered(begun, bus[j], bus[k])
    /\ \A k \in DOMAIN bus : k > 1 => FollowsOn(bus[k - 1], bus[k])
    /\ bus # << >> => LastSent(bus[Len(bus)])

Buffered ==
    buf # << >> =>
        LET m == buf[1].msg
            b == Chunk(m, Len(buf) - 1)
        IN  /\ Len(buf) < Chunks(m)
            /\ buf = FirstChunks(m, Len(buf)) /\ size = ChunkBytes * Len(buf)
            /\ IF bus = << >> THEN LastSent(b) ELSE FollowsOn(b, bus[1])

Delivered ==
    /\ \A k \in DOMAIN frames : \E m \in Messages :
          frames[k] = Whole(m) /\ next[m] = Chunks(m)
    /\ frames # << >> =>
          \A k \in DOMAIN bus :
             Earlier(begun, frames[Len(frames)][1].msg, bus[k].msg)

LinkInv ==
    /\ ReassemblyInv /\ BegunOnce
    /\ OnlySender => OneAtATime /\ Stream /\ Buffered /\ Delivered

\* m's next chunk, or its giving up.
Advances(m) ==
    /\ CanTransmit(m) /\ Begin(m)
    /\ \/ next' = [next EXCEPT ![m] = @ + 1] /\ gaveUp' = gaveUp
       \/ next' = next /\ gaveUp' = gaveUp \union {m}

LEMMA InitLink == TransportInit => LinkInv
<1>. SUFFICES ASSUME TransportInit PROVE LinkInv
  OBVIOUS
<1>1. ReassemblyInv
  BY InitInv
<1>2. BegunOnce
  <2>1. ASSUME NEW m \in Messages PROVE 0 <= Chunks(m)
    <3>1. Chunks(m) \in 1..11
      BY ChunkCount
    <3>. QED BY <3>1
  <2>. QED BY <2>1 DEF TransportInit, BegunOnce, HasBegun
<1>3. OneAtATime
  BY DEF TransportInit, OneAtATime, Sending
<1>4. Stream /\ Buffered /\ Delivered
  BY DEF TransportInit, Stream, Buffered, Delivered
<1>. QED BY <1>1, <1>2, <1>3, <1>4 DEF LinkInv

\* What a send does to the list of messages begun.
LEMMA BeginsOnce ==
    ASSUME TransportTypeOK, BegunOnce, NEW m \in Messages, Advances(m)
    PROVE  /\ BegunOnce'
           /\ begun' = begun \/ (begun' = Append(begun, m) /\ ~HasBegun(m))
           /\ \A k \in DOMAIN begun : k \in DOMAIN begun' /\ begun'[k] = begun[k]
           /\ Alone' => Alone
<1>1. begun \in Seq(Messages) /\ next \in [Messages -> 0..11]
  BY DEF TransportTypeOK
<1>a. /\ CanTransmit(m) /\ Begin(m)
      /\ \/ next' = [next EXCEPT ![m] = @ + 1] /\ gaveUp' = gaveUp
         \/ next' = next /\ gaveUp' = gaveUp \union {m}
  BY DEF Advances
<1>0. \A n \in Messages : (next[n] <= Chunks(n))'
  <2>0. \A n \in Messages : Chunks(n) \in 1..11
    BY ChunkCount
  <2>1. Chunks(m) \in 1..11 /\ next[m] < Chunks(m)
    BY <1>a, <2>0 DEF CanTransmit
  <2>2. next'[m] <= Chunks(m)
    BY <1>a, <1>1, <2>1
  <2>3. \A n \in Messages \ {m} : next'[n] = next[n]
    BY <1>a, <1>1
  <2>. QED BY <2>2, <2>3 DEF BegunOnce, Chunks
<1>2. CASE next[m] = 0
  <2>1. ~HasBegun(m) /\ begun' = Append(begun, m)
    BY <1>a, <1>1, <1>2 DEF BegunOnce, CanTransmit, Begin
  <2>2. /\ DOMAIN begun = 1..Len(begun) /\ Len(begun) \in Nat
        /\ DOMAIN begun' = 1..(Len(begun) + 1)
        /\ \A k \in DOMAIN begun : begun'[k] = begun[k]
        /\ begun'[Len(begun) + 1] = m
    BY <1>a, <1>1, <2>1
  <2>3. \A k \in DOMAIN begun' : k \in DOMAIN begun \/ k = Len(begun) + 1
    BY <2>2
  <2>4. \A n \in Messages : HasBegun(n)' <=> HasBegun(n) \/ n = m
    BY <2>2, <2>3 DEF HasBegun
  <2>5. \A n \in Messages \ {m} : next'[n] = next[n] /\ (n \in gaveUp' <=> n \in gaveUp)
    BY <1>a, <1>1
  <2>6. next'[m] > 0 \/ m \in gaveUp'
    BY <1>a, <1>1, <1>2
  <2>7. \A j, k \in DOMAIN begun' : begun'[j] = begun'[k] => j = k
    BY <2>1, <2>2, <2>3 DEF BegunOnce, HasBegun
  <2>8. BegunOnce'
    BY <1>0, <2>4, <2>5, <2>6, <2>7 DEF BegunOnce
  <2>9. Alone' => Alone
    BY <2>2 DEF Alone
  <2>10. \A k \in DOMAIN begun : k \in DOMAIN begun'
    BY <2>2
  <2>. QED BY <2>1, <2>2, <2>8, <2>9, <2>10
<1>3. CASE next[m] # 0
  <2>1. begun' = begun /\ next[m] > 0
    BY <1>a, <1>1, <1>3 DEF Begin
  <2>2. \A n \in Messages \ {m} : next'[n] = next[n] /\ (n \in gaveUp' <=> n \in gaveUp)
    BY <1>a, <1>1
  <2>3. next'[m] > 0 /\ HasBegun(m)
    BY <1>a, <1>1, <2>1 DEF BegunOnce
  <2>. QED BY <1>0, <2>1, <2>2, <2>3 DEF BegunOnce, HasBegun, Alone
<1>. QED BY <1>1, <1>2, <1>3

\* While one node sends, the message it transmits is the one begun last, and
\* all the others are done with.
LEMMA SenderAlone ==
    ASSUME LinkInv, OnlySender, Alone', NEW m \in Messages, Advances(m)
    PROVE  /\ Latest' = m /\ HasBegun(m)' /\ OneAtATime'
           /\ next[m] > 0 => Latest = m /\ begun' = begun
           /\ \A n \in Messages \ {m} : HasBegun(n) =>
                 /\ next[n] = Chunks(n) \/ n \in gaveUp
                 /\ Earlier(begun', n, m)
           /\ \A n, k \in Messages : Earlier(begun, n, k) => Earlier(begun', n, k)
<1>1. /\ begun \in Seq(Messages) /\ next \in [Messages -> 0..11]
      /\ BegunOnce /\ OneAtATime
  BY DEF LinkInv, ReassemblyInv, TransportTypeOK
<1>a. /\ CanTransmit(m) /\ Begin(m)
      /\ \/ next' = [next EXCEPT ![m] = @ + 1] /\ gaveUp' = gaveUp
         \/ next' = next /\ gaveUp' = gaveUp \union {m}
  BY DEF Advances
<1>2. /\ BegunOnce'
      /\ begun' = begun \/ (begun' = Append(begun, m) /\ ~HasBegun(m))
      /\ \A k \in DOMAIN begun : k \in DOMAIN begun' /\ begun'[k] = begun[k]
  BY <1>1, BeginsOnce DEF LinkInv, ReassemblyInv
<1>3. begun' \in Seq(Messages) /\ Len(begun') \in Nat /\ DOMAIN begun' = 1..Len(begun')
      /\ Len(begun) \in Nat /\ DOMAIN begun = 1..Len(begun)
  BY <1>1, <1>2
<1>4. HasBegun(m)'
  <2>1. next'[m] > 0 \/ m \in gaveUp'
    BY <1>a, <1>1
  <2>. QED BY <1>2, <2>1 DEF BegunOnce
<1>5. next[m] > 0 => Latest = m /\ begun' = begun
  <2>. SUFFICES ASSUME next[m] > 0 PROVE Latest = m /\ begun' = begun
    OBVIOUS
  <2>1. Sending(m) /\ next[m] # 0
    BY <1>a, <1>1 DEF Sending, CanTransmit
  <2>. QED BY <1>a, <1>1, <2>1 DEF OneAtATime, Begin
<1>6. Latest' = m
  <2>1. CASE next[m] > 0
    BY <1>5, <2>1 DEF Latest
  <2>2. CASE ~(next[m] > 0)
    <3>1. next[m] = 0
      BY <1>1, <2>2
    <3>2. begun' = Append(begun, m)
      BY <1>a, <3>1 DEF Begin
    <3>. QED BY <1>1, <3>2 DEF Latest
  <2>. QED BY <2>1, <2>2
<1>7. \A n \in Messages : HasBegun(n) => SenderOf[n] = SenderOf[m]
  <2>1. \A n \in Messages : HasBegun(n) => HasBegun(n)'
    BY <1>2 DEF HasBegun
  <2>. QED BY <1>4, <2>1 DEF Alone, HasBegun
<1>8. \A n \in Messages \ {m} : ~Sending(n)
  <2>. SUFFICES ASSUME NEW n \in Messages \ {m}, Sending(n) PROVE FALSE
    OBVIOUS
  <2>1. HasBegun(n)
    BY <1>1 DEF Sending, BegunOnce
  <2>. QED BY <1>a, <1>7, <2>1 DEF CanTransmit
<1>9. \A n \in Messages : Chunks(n) \in 1..11
  BY ChunkCount
<1>10. OneAtATime'
  <2>1. \A n \in Messages \ {m} : ~Sending(n)'
    BY <1>a, <1>1, <1>8 DEF Sending, Chunks
  <2>. QED BY <1>6, <2>1 DEF OneAtATime
<1>11. \A n \in Messages : HasBegun(n) => next[n] > 0 \/ n \in gaveUp
  BY <1>1 DEF BegunOnce
<1>12. ASSUME NEW n \in Messages \ {m}, HasBegun(n)
       PROVE  /\ next[n] = Chunks(n) \/ n \in gaveUp
              /\ Earlier(begun', n, m)
  <2>1. Sending(n) \/ next[n] >= Chunks(n) \/ n \in gaveUp
    BY <1>a, <1>1, <1>9, <1>11, <1>12 DEF Sending
  <2>2. next[n] >= Chunks(n) \/ n \in gaveUp
    BY <1>8, <2>1
  <2>3. PICK j \in DOMAIN begun : begun[j] = n
    BY <1>12 DEF HasBegun
  <2>4. j \in DOMAIN begun' /\ begun'[j] = n
    BY <1>2, <2>3
  <2>5. begun'[Len(begun')] = m /\ Len(begun') \in DOMAIN begun'
    BY <1>3, <1>6, <2>4 DEF Latest
  <2>6. j < Len(begun')
    BY <1>3, <2>4, <2>5
  <2>7. Earlier(begun', n, m)
    BY <2>4, <2>5, <2>6 DEF Earlier
  <2>8. next[n] \in 0..11 /\ Chunks(n) \in 1..11 /\ next[n] <= Chunks(n)
    BY <1>1, <1>9 DEF BegunOnce
  <2>. QED BY <2>2, <2>7, <2>8
<1>13. \A n, k \in Messages : Earlier(begun, n, k) => Earlier(begun', n, k)
  BY <1>2 DEF Earlier
<1>. QED BY <1>4, <1>5, <1>6, <1>10, <1>12, <1>13

\* What follows the last chunk on the bus, or in the buffer, as it should.
LEMMA NextFollows ==
    ASSUME LinkInv, OnlySender, Alone', NEW m \in Messages, Transmit(m),
           NEW c, c.msg \in Messages, c.seq \in Nat, LastSent(c)
    PROVE  FollowsOn(c, Chunk(m, next[m]))
<1>. SUFFICES ASSUME next[m] = c.seq + 1, More(c), m # c.msg PROVE FALSE
  BY DEF FollowsOn, Chunk
<1>1. next[m] > 0
  BY DEF LinkInv, ReassemblyInv, TransportTypeOK
<1>2. Latest = m
  BY <1>1, SenderAlone DEF Transmit, Advances
<1>. QED BY <1>2 DEF LastSent

LEMMA TransmitKeepsLink ==
    ASSUME LinkInv, NEW m \in Messages, Transmit(m), ReassemblyInv'
    PROVE  LinkInv'
<1>0. /\ CanTransmit(m) /\ Begin(m) /\ gaveUp' = gaveUp /\ burst' = burst
      /\ next' = [next EXCEPT ![m] = @ + 1] /\ lastLost' = FALSE
      /\ bus' = Append(bus, Chunk(m, next[m]))
      /\ UNCHANGED <<buf, size, expected, frames, streak>>
  BY DEF Transmit, receiver
<1>a. Advances(m)
  BY <1>0 DEF Advances
<1>1. /\ begun \in Seq(Messages) /\ next \in [Messages -> 0..11]
      /\ bus \in Seq(ChunkSet) /\ buf \in Seq(ChunkSet) /\ BegunOnce
      /\ begun' \in Seq(Messages)
  BY DEF LinkInv, ReassemblyInv, TransportTypeOK
<1>2. BegunOnce' /\ (Alone' => Alone)
  BY <1>a, BeginsOnce DEF LinkInv, ReassemblyInv
<1>. SUFFICES ASSUME OnlySender'
              PROVE  OneAtATime' /\ Stream' /\ Buffered' /\ Delivered'
  BY <1>2 DEF LinkInv
<1>3. OnlySender /\ Alone'
  BY <1>0, <1>2 DEF OnlySender
<1>4. OneAtATime /\ Stream /\ Buffered /\ Delivered
  BY <1>3 DEF LinkInv
<1>5. /\ Latest' = m /\ HasBegun(m)' /\ OneAtATime'
      /\ \A n \in Messages \ {m} : HasBegun(n) => Earlier(begun', n, m)
      /\ \A n, k \in Messages : Earlier(begun, n, k) => Earlier(begun', n, k)
  BY <1>a, <1>3, SenderAlone
<1>. PICK d : d = Chunk(m, next[m])
  OBVIOUS
<1>6. d.msg = m /\ d.seq = next[m] /\ next'[m] = next[m] + 1 /\ next[m] \in Nat
  <2>1. d.msg = m /\ d.seq = next[m]
    BY DEF Chunk
  <2>. PICK f : f = next
    OBVIOUS
  <2>a. f \in [Messages -> 0..11]
    BY <1>1
  <2>b. f[m] \in 0..11
    BY <2>a
  <2>2. next[m] \in Nat
    BY <2>b
  <2>3. next'[m] = next[m] + 1
    BY <1>0, <2>a
  <2>. QED BY <2>1, <2>2, <2>3
<1>7. /\ Len(bus) \in Nat /\ DOMAIN bus = 1..Len(bus)
      /\ Len(bus') = Len(bus) + 1 /\ DOMAIN bus' = 1..(Len(bus) + 1)
      /\ \A k \in DOMAIN bus : bus'[k] = bus[k] /\ bus[k] \in ChunkSet
      /\ bus'[Len(bus) + 1] = d
      /\ \A k \in DOMAIN bus' : k \in DOMAIN bus \/ k = Len(bus) + 1
      /\ bus' # << >>
  <2>1. bus \in Seq(ChunkSet) /\ bus' = Append(bus, d)
    BY <1>0, <1>1
  <2>2. /\ Len(bus) \in Nat /\ DOMAIN bus = 1..Len(bus)
        /\ \A k \in DOMAIN bus : bus[k] \in ChunkSet
    BY <2>1
  <2>3. /\ Len(bus') = Len(bus) + 1 /\ DOMAIN bus' = 1..(Len(bus) + 1)
        /\ bus'[Len(bus) + 1] = d
    BY <2>1
  <2>4. \A k \in DOMAIN bus : bus'[k] = bus[k]
    BY <2>1
  <2>5. bus' # << >>
    BY <2>1
  <2>6. \A k \in DOMAIN bus' : k \in DOMAIN bus \/ k = Len(bus) + 1
    BY <2>2, <2>3
  <2>. QED BY <2>2, <2>3, <2>4, <2>5, <2>6
<1>8. \A c \in ChunkSet : c.msg \in Messages /\ c.seq \in Nat
  BY DEF ChunkSet
<1>9. \A n \in Messages : next[n] <= next'[n] /\ next[n] \in Nat /\ next'[n] \in Nat
  <2>1. ASSUME NEW n \in Messages PROVE next[n] \in Nat
    <3>1. next[n] \in 0..11
      BY <1>1, <2>1
    <3>. QED BY <3>1
  <2>2. ASSUME NEW n \in Messages PROVE next'[n] = next[n] \/ next'[n] = next[n] + 1
    BY <1>0, <1>1, <2>2
  <2>. QED BY <2>1, <2>2
<1>10. ASSUME NEW k \in DOMAIN bus PROVE Ordered(begun', bus[k], d)
  <2>1. bus[k].msg \in Messages /\ bus[k].seq \in Nat /\ bus[k].seq < next[bus[k].msg]
    BY <1>4, <1>7, <1>8 DEF Stream
  <2>2. CASE bus[k].msg = m
    BY <1>6, <2>1, <2>2 DEF Ordered
  <2>3. CASE bus[k].msg # m
    <3>1. HasBegun(bus[k].msg)
      BY <1>9, <2>1 DEF LinkInv, BegunOnce
    <3>. QED BY <1>5, <1>6, <2>1, <2>3, <3>1 DEF Ordered
  <2>. QED BY <2>2, <2>3
<1>11. LastSent(d)'
  BY <1>0, <1>1, <1>5, <1>6 DEF LastSent, CanTransmit
<1>12. Stream'
  <2>1. \A k \in DOMAIN bus' : bus'[k].seq < next'[bus'[k].msg]
    BY <1>4, <1>6, <1>7, <1>8, <1>9 DEF Stream
  <2>2. ASSUME NEW j \in DOMAIN bus', NEW k \in DOMAIN bus', j < k
        PROVE  Ordered(begun', bus'[j], bus'[k])
    <3>1. j \in DOMAIN bus
      BY <1>7, <2>2
    <3>2. CASE k \in DOMAIN bus
      <4>1. Ordered(begun, bus[j], bus[k])
        BY <1>4, <2>2, <3>1, <3>2 DEF Stream
      <4>2. Ordered(begun', bus[j], bus[k])
        BY <1>5, <1>7, <1>8, <3>1, <3>2, <4>1 DEF Ordered
      <4>. QED BY <1>7, <3>1, <3>2, <4>2
    <3>3. CASE k = Len(bus) + 1
      BY <1>7, <1>10, <3>1, <3>3
    <3>. QED BY <1>7, <3>2, <3>3
  <2>3. ASSUME NEW k \in DOMAIN bus', k > 1
        PROVE  FollowsOn(bus'[k - 1], bus'[k])
    <3>1. k - 1 \in DOMAIN bus
      BY <1>7, <2>3
    <3>2. CASE k \in DOMAIN bus
      BY <1>4, <1>7, <2>3, <3>1, <3>2 DEF Stream
    <3>3. CASE k = Len(bus) + 1
      <4>1. bus # << >> /\ k - 1 = Len(bus)
        BY <1>7, <3>1, <3>3
      <4>2. LastSent(bus[Len(bus)])
        BY <1>4, <4>1 DEF Stream
      <4>3. bus[Len(bus)].msg \in Messages /\ bus[Len(bus)].seq \in Nat
        BY <1>7, <1>8, <3>1, <4>1
      <4>4. FollowsOn(bus[Len(bus)], d)
        BY <1>3, <4>2, <4>3, NextFollows
      <4>. QED BY <1>7, <3>1, <3>3, <4>1, <4>4
    <3>. QED BY <1>7, <3>2, <3>3
  <2>4. LastSent(bus[Len(bus)])'
    BY <1>7, <1>11 DEF LastSent, More, Latest, Chunks
  <2>5. (\A j, k \in DOMAIN bus : j < k => Ordered(begun, bus[j], bus[k]))'
    BY <2>2
  <2>6. (\A k \in DOMAIN bus : k > 1 => FollowsOn(bus[k - 1], bus[k]))'
    BY <2>3 DEF FollowsOn, More, Chunks
  <2>. QED BY <2>1, <2>4, <2>5, <2>6 DEF Stream
<1>13. Buffered'
  <2>. SUFFICES ASSUME buf # << >> PROVE Buffered'
    BY <1>0 DEF Buffered
  <2>. DEFINE n == buf[1].msg
              b == Chunk(n, Len(buf) - 1)
  <2>1. /\ Len(buf) < Chunks(n)
        /\ buf = FirstChunks(n, Len(buf)) /\ size = ChunkBytes * Len(buf)
        /\ IF bus = << >> THEN LastSent(b) ELSE FollowsOn(b, bus[1])
    BY <1>4 DEF Buffered
  <2>2. n \in Messages /\ Len(buf) - 1 \in Nat /\ b.msg = n /\ b.seq = Len(buf) - 1
    BY <1>1, <1>8 DEF Chunk
  <2>3. FollowsOn(b, bus'[1])
    <3>1. CASE bus = << >>
      <4>1. FollowsOn(b, d)
        BY <1>3, <2>1, <2>2, <3>1, NextFollows
      <4>. QED BY <1>7, <3>1, <4>1
    <3>2. CASE bus # << >>
      <4>1. 1 \in DOMAIN bus
        BY <1>1, <3>2
      <4>. QED BY <1>7, <2>1, <3>2, <4>1
    <3>. QED BY <3>1, <3>2
  <2>. HIDE DEF b
  <2>4. FollowsOn(b, bus[1])'
    BY <2>3, <1>0 DEF FollowsOn, More, Chunks, b, Chunk
  <2>. QED BY <1>0, <1>7, <2>1, <2>4 DEF Buffered, b, Chunk, Chunks, FirstChunks
<1>14. Delivered'
  <2>1. \A k \in DOMAIN frames : \E n \in Messages :
           frames[k] = Whole(n) /\ next[n] = Chunks(n)
    BY <1>4 DEF Delivered
  <2>2. \A n \in Messages : next[n] = Chunks(n) => n # m /\ next'[n] = next[n]
    <3>1. \A n \in Messages \ {m} : next'[n] = next[n]
      BY <1>0, <1>1
    <3>2. next[m] # Chunks(m)
      BY <1>0, <1>6, ChunkCount DEF CanTransmit
    <3>. QED BY <3>1, <3>2
  <2>3. \A k \in DOMAIN frames : \E n \in Messages :
           frames[k] = Whole(n) /\ next'[n] = Chunks(n)
    BY <2>1, <2>2
  <2>4. ASSUME frames # << >>, NEW k \in DOMAIN bus'
        PROVE  Earlier(begun', frames[Len(frames)][1].msg, bus'[k].msg)
    <3>1. Len(frames) \in DOMAIN frames
      BY <2>4 DEF LinkInv, ReassemblyInv, TransportTypeOK
    <3>2. PICK n \in Messages : frames[Len(frames)] = Whole(n) /\ next[n] = Chunks(n)
      BY <2>1, <3>1
    <3>3. 1 \in 1..Chunks(n) /\ Chunks(n) > 0
      BY ChunkCount
    <3>4. frames[Len(frames)][1].msg = n
      BY <3>2, <3>3 DEF Whole, Chunk
    <3>5. CASE k \in DOMAIN bus
      <4>1. Earlier(begun, n, bus[k].msg) /\ bus[k].msg \in Messages
        BY <1>4, <1>7, <1>8, <2>4, <3>4, <3>5 DEF Delivered
      <4>. QED BY <1>0, <1>5, <1>7, <3>4, <3>5, <4>1
    <3>6. CASE k = Len(bus) + 1
      <4>1. HasBegun(n) /\ n # m
        BY <2>2, <3>2, <3>3 DEF LinkInv, BegunOnce
      <4>. QED BY <1>0, <1>5, <1>6, <1>7, <3>4, <3>6, <4>1
    <3>. QED BY <1>7, <3>5, <3>6
  <2>5. (\A k \in DOMAIN frames : \E n \in Messages :
           frames[k] = Whole(n) /\ next[n] = Chunks(n))'
    BY <1>0, <2>3 DEF Whole, Chunks
  <2>6. (frames # << >> =>
         \A k \in DOMAIN bus :
            Earlier(begun, frames[Len(frames)][1].msg, bus[k].msg))'
    BY <1>0, <2>4
  <2>. QED BY <2>5, <2>6 DEF Delivered
<1>. QED BY <1>5, <1>12, <1>13, <1>14

LEMMA LossKeepsLink ==
    ASSUME LinkInv, NEW m \in Messages, Advances(m), ChunkLost,
           UNCHANGED bus, UNCHANGED receiver, ReassemblyInv'
    PROVE  LinkInv'
<1>0. /\ CanTransmit(m) /\ Begin(m) /\ lastLost' = TRUE /\ burst' = (burst \/ lastLost)
      /\ bus' = bus /\ buf' = buf /\ size' = size /\ frames' = frames
      /\ \/ next' = [next EXCEPT ![m] = @ + 1] /\ gaveUp' = gaveUp
         \/ next' = next /\ gaveUp' = gaveUp \union {m}
  BY DEF Advances, ChunkLost, receiver
<1>1. /\ begun \in Seq(Messages) /\ next \in [Messages -> 0..11]
      /\ bus \in Seq(ChunkSet) /\ buf \in Seq(ChunkSet) /\ BegunOnce
      /\ frames \in Seq(Seq(ChunkSet))
  BY DEF LinkInv, ReassemblyInv, TransportTypeOK
<1>2. BegunOnce' /\ (Alone' => Alone)
  BY BeginsOnce DEF LinkInv, ReassemblyInv
<1>. SUFFICES ASSUME OnlySender'
              PROVE  OneAtATime' /\ Stream' /\ Buffered' /\ Delivered'
  BY <1>2 DEF LinkInv
<1>3. OnlySender /\ Alone' /\ ~lastLost
  BY <1>0, <1>2 DEF OnlySender
<1>4. OneAtATime /\ Stream /\ Buffered /\ Delivered
  BY <1>3 DEF LinkInv
<1>5. /\ Latest' = m /\ OneAtATime'
      /\ \A n \in Messages \ {m} : HasBegun(n) => next[n] = Chunks(n) \/ n \in gaveUp
      /\ \A n, k \in Messages : Earlier(begun, n, k) => Earlier(begun', n, k)
  BY <1>3, SenderAlone
<1>6. \A c \in ChunkSet : c.msg \in Messages /\ c.seq \in Nat
  BY DEF ChunkSet
<1>7. /\ \A n \in Messages : Chunks(n) \in 1..11 /\ Chunks(n)' = Chunks(n)
      /\ next[m] < Chunks(m)
  BY <1>0, ChunkCount DEF CanTransmit, Chunks
<1>8. ASSUME NEW n \in Messages
      PROVE  next[n] <= next'[n] /\ next[n] \in Nat /\ next'[n] \in Nat
  <2>1. next[n] \in 0..11 /\ (next'[n] = next[n] \/ next'[n] = next[n] + 1)
    BY <1>0, <1>1
  <2>. QED BY <2>1
<1>9. ASSUME NEW c, c.msg \in Messages, c.seq \in Nat, LastSent(c)
      PROVE  c.msg = Latest' \/ ~More(c)
  <2>. SUFFICES ASSUME c.msg # m PROVE ~More(c)
    BY <1>5
  <2>1. next[c.msg] = c.seq + 1 /\ c.msg \notin gaveUp
    BY <1>3, <1>9 DEF LastSent
  <2>2. HasBegun(c.msg)
    BY <1>8, <1>9, <2>1 DEF LinkInv, BegunOnce
  <2>3. c.seq + 1 = Chunks(c.msg) /\ Chunks(c.msg) \in Nat
    BY <1>5, <1>7, <1>9, <2>1, <2>2
  <2>. QED BY <1>9, <2>3 DEF More
<1>10. Stream'
  <2>0. DOMAIN bus = 1..Len(bus) /\ Len(bus) \in Nat /\ \A k \in DOMAIN bus : bus[k] \in ChunkSet
    BY <1>1
  <2>1. \A k \in DOMAIN bus : bus[k].seq < next'[bus[k].msg]
    BY <1>4, <1>6, <1>8, <2>0 DEF Stream
  <2>2. \A j, k \in DOMAIN bus : j < k => Ordered(begun', bus[j], bus[k])
    BY <1>4, <1>5, <1>6, <2>0 DEF Stream, Ordered
  <2>3. \A k \in DOMAIN bus : k > 1 => FollowsOn(bus[k - 1], bus[k])
    BY <1>4 DEF Stream
  <2>4. bus # << >> => bus[Len(bus)].msg = Latest' \/ ~More(bus[Len(bus)])
    BY <1>4, <1>6, <1>9, <2>0 DEF Stream
  <2>5. (\A k \in DOMAIN bus : k > 1 => FollowsOn(bus[k - 1], bus[k]))'
    BY <1>0, <2>3 DEF FollowsOn, More, Chunks
  <2>6. (bus # << >> => LastSent(bus[Len(bus)]))'
    BY <1>0, <2>4 DEF LastSent, More, Chunks
  <2>. QED BY <1>0, <2>1, <2>2, <2>5, <2>6 DEF Stream
<1>11. Buffered'
  <2>. SUFFICES ASSUME buf # << >> PROVE Buffered'
    BY <1>0 DEF Buffered
  <2>. PICK n : n = buf[1].msg
    OBVIOUS
  <2>. PICK b : b = Chunk(n, Len(buf) - 1)
    OBVIOUS
  <2>1. /\ Len(buf) < Chunks(n)
        /\ buf = FirstChunks(n, Len(buf)) /\ size = ChunkBytes * Len(buf)
        /\ IF bus = << >> THEN LastSent(b) ELSE FollowsOn(b, bus[1])
    BY <1>4 DEF Buffered
  <2>2. n \in Messages /\ Len(buf) - 1 \in Nat /\ b.msg = n /\ b.seq = Len(buf) - 1
    BY <1>1, <1>6 DEF Chunk
  <2>3. LastSent(b) => LastSent(b)'
    BY <1>0, <1>9, <2>2 DEF LastSent, More, Chunks
  <2>4. IF bus = << >> THEN LastSent(b)' ELSE FollowsOn(b, bus[1])
    BY <2>1, <2>3
  <2>5. b = Chunk(buf'[1].msg, Len(buf') - 1)
    BY <1>0
  <2>6. (IF bus = << >> THEN LastSent(Chunk(buf[1].msg, Len(buf) - 1))
                        ELSE FollowsOn(Chunk(buf[1].msg, Len(buf) - 1), bus[1]))'
    BY <1>0, <2>4, <2>5 DEF FollowsOn, LastSent, More, Chunks, Latest, Chunk
  <2>. QED BY <1>0, <2>1, <2>6 DEF Buffered, Chunks, FirstChunks
<1>12. Delivered'
  <2>0. /\ DOMAIN bus = 1..Len(bus) /\ \A k \in DOMAIN bus : bus[k] \in ChunkSet
        /\ DOMAIN frames = 1..Len(frames) /\ Len(frames) \in Nat
    BY <1>1
  <2>1. \A n \in Messages : next[n] = Chunks(n) => next'[n] = Chunks(n)
    <3>1. \A n \in Messages \ {m} : next'[n] = next[n]
      BY <1>0, <1>1
    <3>2. next[m] # Chunks(m)
      BY <1>7, <1>8
    <3>. QED BY <3>1, <3>2
  <2>2. \A k \in DOMAIN frames : \E n \in Messages :
           frames[k] = Whole(n) /\ next'[n] = Chunks(n)
    BY <1>4, <2>1 DEF Delivered
  <2>3. ASSUME frames # << >>, NEW k \in DOMAIN bus
        PROVE  Earlier(begun', frames[Len(frames)][1].msg, bus[k].msg)
    <3>1. Len(frames) \in DOMAIN frames
      BY <1>1, <2>3
    <3>2. PICK n \in Messages : frames[Len(frames)] = Whole(n)
      BY <1>4, <3>1 DEF Delivered
    <3>3. 1 \in 1..Chunks(n)
      BY <1>7
    <3>4. frames[Len(frames)][1].msg = n
      BY <3>2, <3>3 DEF Whole, Chunk
    <3>. QED BY <1>4, <1>5, <1>6, <2>0, <2>3, <3>4 DEF Delivered
  <2>. QED BY <1>0, <2>2, <2>3 DEF Delivered, Whole, Chunks
<1>. QED BY <1>2, <1>5, <1>10, <1>11, <1>12

LEMMA OneMoreChunk ==
    ASSUME NEW m, NEW n \in Nat
    PROVE  Append(FirstChunks(m, n), Chunk(m, n)) = FirstChunks(m, n + 1)
<1>. DEFINE S == { Chunk(m, k) : k \in Nat }
<1>1. FirstChunks(m, n) \in Seq(S) /\ FirstChunks(m, n + 1) \in Seq(S) /\ Chunk(m, n) \in S
  <2>1. \A k \in 1..(n + 1) : k - 1 \in Nat
    OBVIOUS
  <2>2. \A k \in 1..(n + 1) : Chunk(m, k - 1) \in S
    BY <2>1
  <2>. HIDE DEF S
  <2>. QED BY <2>2 DEF FirstChunks
<1>. HIDE DEF S
<1>2. /\ Len(FirstChunks(m, n)) = n /\ Len(FirstChunks(m, n + 1)) = n + 1
      /\ \A k \in 1..n : FirstChunks(m, n)[k] = FirstChunks(m, n + 1)[k]
      /\ FirstChunks(m, n + 1)[n + 1] = Chunk(m, n)
  <2>1. FirstChunks(m, n + 1)[n + 1] = Chunk(m, (n + 1) - 1)
    BY DEF FirstChunks
  <2>. QED BY <2>1 DEF FirstChunks
<1>. QED BY <1>1, <1>2

(* What recv does for an only sender: a chunk is left out, or adds to the  *)
(* beginning of its message, or completes it.                              *)
LEMMA OnlySenderRecv ==
    ASSUME LinkInv, OnlySender, Recv, NEW c, c = Head(bus)
    PROVE  \/ Reset /\ UNCHANGED frames
           \/ /\ More(c) /\ UNCHANGED frames
              /\ buf' = FirstChunks(c.msg, c.seq + 1)
              /\ size' = ChunkBytes * (c.seq + 1)
           \/ ~More(c) /\ Reset /\ frames' = Append(frames, Whole(c.msg))
<1>1. /\ c \in ChunkSet /\ bus \in Seq(ChunkSet) /\ buf \in Seq(ChunkSet)
      /\ bus # << >> /\ bus[1] = c
      /\ c.seq \in 0..10 /\ c.msg \in Messages /\ c.seq < Chunks(c.msg)
      /\ c = Chunk(c.msg, c.seq) /\ size \in Nat
      /\ expected = Len(buf) /\ size <= ChunkBytes * expected
  BY DEF Recv, LinkInv, ReassemblyInv, BufferInOrder, SizeBounded, TransportTypeOK, ChunkSet, Chunk
<1>2. RecvDiscard(c) \/ RecvMore(c) \/ RecvFrame(c) \/ RecvBadFrame(c)
  BY DEF Recv
<1>3. Buffered
  BY DEF LinkInv
<1>4. CASE ~Continues(c)
  BY <1>2, <1>4 DEF RecvDiscard, RecvMore, RecvFrame, RecvBadFrame
<1>5. CASE Continues(c)
  <2>1. /\ Base(c) = FirstChunks(c.msg, c.seq)
        /\ BaseSize(c) = ChunkBytes * c.seq
    <3>1. CASE c.seq = 0
      <4>1. FirstChunks(c.msg, 0) = << >>
        BY DEF FirstChunks
      <4>2. ChunkBytes * 0 = 0
        BY ChunkAssumption
      <4>. QED BY <3>1, <4>1, <4>2 DEF Base, BaseSize
    <3>2. CASE c.seq # 0
      <4>1. c.seq = Len(buf) /\ buf # << >>
        BY <1>1, <1>5, <3>2 DEF Continues
      <4>. PICK m : m = buf[1].msg
        OBVIOUS
      <4>. PICK b : b = Chunk(m, Len(buf) - 1)
        OBVIOUS
      <4>2. /\ Len(buf) < Chunks(m)
            /\ buf = FirstChunks(m, Len(buf)) /\ size = ChunkBytes * Len(buf)
            /\ FollowsOn(b, c)
        BY <1>1, <1>3, <4>1 DEF Buffered
      <4>3. b.msg = m /\ b.seq = Len(buf) - 1
        BY DEF Chunk
      <4>4. c.seq = b.seq + 1 /\ b.seq + 1 < Chunks(m)
        BY <1>1, <4>1, <4>2, <4>3
      <4>5. c.msg = m
        BY <4>2, <4>3, <4>4 DEF FollowsOn, More
      <4>. QED BY <3>2, <4>1, <4>2, <4>5 DEF Base, BaseSize
    <3>. QED BY <3>1, <3>2
  <2>2. Append(Base(c), c) = FirstChunks(c.msg, c.seq + 1)
    <3>1. c.seq \in Nat /\ c = Chunk(c.msg, c.seq)
      BY <1>1
    <3>2. Append(FirstChunks(c.msg, c.seq), Chunk(c.msg, c.seq)) = FirstChunks(c.msg, c.seq + 1)
      BY <3>1, OneMoreChunk
    <3>. QED BY <2>1, <3>1, <3>2
  <2>3. Fits(c)
    BY <1>1, <1>5, TakenChunk DEF LinkInv
  <2>4. CASE More(c)
    <3>1. Keep(c) /\ UNCHANGED frames
      BY <1>2, <1>5, <2>3, <2>4 DEF RecvDiscard, RecvMore, RecvFrame, RecvBadFrame
    <3>2. ByteCount(c) = ChunkBytes
      BY <1>1, <2>4, ChunkLength
    <3>3. ChunkBytes * c.seq + ChunkBytes = ChunkBytes * (c.seq + 1)
      BY <1>1, ChunkAssumption
    <3>. QED BY <2>1, <2>2, <2>4, <3>1, <3>2, <3>3 DEF Keep
  <2>5. CASE ~More(c)
    <3>1. Chunks(c.msg) \in 1..11
      BY <1>1, ChunkCount
    <3>2. c.seq + 1 = Chunks(c.msg)
      <4>1. c.seq \in Nat /\ c.seq < Chunks(c.msg) /\ ~(c.seq + 1 < Chunks(c.msg))
        BY <1>1, <2>5 DEF More
      <4>2. Chunks(c.msg) \in Nat
        BY <3>1
      <4>. QED BY <4>1, <4>2
    <3>3. Append(Base(c), c) = Whole(c.msg)
      BY <2>2, <3>2 DEF FirstChunks, Whole
    <3>4. /\ BaseSize(c) + ByteCount(c) \in Nat
          /\ BaseSize(c) + ByteCount(c) >= WireSize[c.msg]
      <4>1. ByteCount(c) \in 1..ChunkBytes /\ ChunkBytes * c.seq + ByteCount(c) >= WireSize[c.msg]
        BY <1>1, <2>5, ChunkLength
      <4>2. ByteCount(c) \in Nat /\ ChunkBytes * c.seq \in Nat
        <5>1. ChunkBytes \in Nat /\ c.seq \in Nat
          BY <1>1, ChunkAssumption
        <5>. QED BY <4>1, <5>1
      <4>. QED BY <2>1, <4>1, <4>2
    <3>5. Parses(Append(Base(c), c), BaseSize(c) + ByteCount(c))
      BY <1>1, <3>3, <3>4, WholeParses
    <3>. QED BY <1>2, <1>5, <2>3, <2>5, <3>3, <3>5
           DEF RecvDiscard, RecvMore, RecvFrame, RecvBadFrame
  <2>. QED BY <2>4, <2>5
<1>. QED BY <1>4, <1>5

LEMMA RecvKeepsLink ==
    ASSUME LinkInv, Recv, ReassemblyInv'
    PROVE  LinkInv'
<1>. PICK c : c = Head(bus)
  OBVIOUS
<1>0. /\ bus # << >> /\ bus' = Tail(bus) /\ next' = next /\ begun' = begun
      /\ gaveUp' = gaveUp /\ lastLost' = lastLost /\ burst' = burst
  BY DEF Recv, sender
<1>1. /\ bus \in Seq(ChunkSet) /\ frames \in Seq(Seq(ChunkSet)) /\ BegunOnce
      /\ next \in [Messages -> 0..11]
  BY DEF LinkInv, ReassemblyInv, TransportTypeOK
<1>2. BegunOnce' /\ (Alone' <=> Alone)
  BY <1>0, <1>1 DEF BegunOnce, HasBegun, Alone, Chunks
<1>. SUFFICES ASSUME OnlySender'
              PROVE  OneAtATime' /\ Stream' /\ Buffered' /\ Delivered'
  BY <1>2 DEF LinkInv
<1>3. OnlySender
  BY <1>0, <1>2 DEF OnlySender
<1>4. OneAtATime /\ Stream /\ Buffered /\ Delivered
  BY <1>3 DEF LinkInv
<1>5. OneAtATime'
  BY <1>0, <1>4 DEF OneAtATime, Sending, Chunks, Latest
<1>6. /\ Len(bus) \in Nat \ {0} /\ DOMAIN bus = 1..Len(bus) /\ bus[1] = c
      /\ Len(bus') = Len(bus) - 1 /\ DOMAIN bus' = 1..(Len(bus) - 1)
      /\ \A k \in DOMAIN bus : bus[k] \in ChunkSet
      /\ \A k \in DOMAIN bus' : k + 1 \in DOMAIN bus /\ bus'[k] = bus[k + 1]
      /\ c \in ChunkSet
  BY <1>0, <1>1
<1>7. c.msg \in Messages /\ c.seq \in Nat /\ c.seq < Chunks(c.msg) /\ c = Chunk(c.msg, c.seq)
  BY <1>6 DEF ChunkSet, Chunk
<1>8. \A n \in Messages : Chunks(n) \in 1..11
  BY ChunkCount
<1>9. Stream'
  <2>1. \A k \in DOMAIN bus' : bus'[k].seq < next[bus'[k].msg]
    BY <1>4, <1>6 DEF Stream
  <2>2. ASSUME NEW j \in DOMAIN bus', NEW k \in DOMAIN bus', j < k
        PROVE  Ordered(begun, bus'[j], bus'[k])
    <3>1. j + 1 < k + 1 /\ j + 1 \in DOMAIN bus /\ k + 1 \in DOMAIN bus
      BY <1>6, <2>2
    <3>. QED BY <1>4, <1>6, <3>1 DEF Stream
  <2>3. ASSUME NEW k \in DOMAIN bus', k > 1
        PROVE  FollowsOn(bus'[k - 1], bus'[k])
    <3>1. k - 1 \in DOMAIN bus' /\ k + 1 \in DOMAIN bus /\ k + 1 > 1
          /\ (k - 1) + 1 = k /\ (k + 1) - 1 = k
      BY <1>6, <2>3
    <3>2. bus'[k - 1] = bus[k]
      BY <1>6, <3>1
    <3>. QED BY <1>4, <1>6, <3>1, <3>2 DEF Stream
  <2>4. ASSUME bus' # << >> PROVE LastSent(bus'[Len(bus')])
    <3>1. Len(bus') \in DOMAIN bus' /\ Len(bus') + 1 = Len(bus)
      BY <1>0, <1>1, <1>6, <2>4
    <3>. QED BY <1>0, <1>4, <1>6, <3>1 DEF Stream
  <2>5. (\A k \in DOMAIN bus : k > 1 => FollowsOn(bus[k - 1], bus[k]))'
    BY <2>3 DEF FollowsOn, More, Chunks
  <2>6. (bus # << >> => LastSent(bus[Len(bus)]))'
    BY <1>0, <2>4 DEF LastSent, More, Chunks, Latest
  <2>. QED BY <1>0, <2>1, <2>2, <2>5, <2>6 DEF Stream
<1>10. \/ Reset /\ UNCHANGED frames
       \/ /\ More(c) /\ UNCHANGED frames
          /\ buf' = FirstChunks(c.msg, c.seq + 1)
          /\ size' = ChunkBytes * (c.seq + 1)
       \/ ~More(c) /\ Reset /\ frames' = Append(frames, Whole(c.msg))
  BY <1>3, OnlySenderRecv
<1>11. Buffered'
  <2>1. CASE Reset
    BY <2>1 DEF Reset, Buffered
  <2>2. CASE /\ More(c)
             /\ buf' = FirstChunks(c.msg, c.seq + 1)
             /\ size' = ChunkBytes * (c.seq + 1)
    <3>1. /\ Len(buf') = c.seq + 1 /\ buf'[1].msg = c.msg
          /\ buf' = FirstChunks(c.msg, Len(buf'))
      BY <1>7, <2>2 DEF FirstChunks, Chunk
    <3>2. Len(buf') < Chunks(c.msg) /\ size' = ChunkBytes * Len(buf')
      BY <2>2, <3>1 DEF More
    <3>3. c = Chunk(buf'[1].msg, Len(buf') - 1)
      BY <1>7, <3>1
    <3>4. IF bus' = << >> THEN LastSent(c) ELSE FollowsOn(c, bus'[1])
      <4>1. CASE Len(bus) = 1
        <5>1. bus' = << >> /\ bus[Len(bus)] = c
          <6>1. bus' \in Seq(ChunkSet) /\ Len(bus') = 0
            BY <1>0, <1>1, <1>6, <4>1
          <6>. QED BY <1>6, <4>1, <6>1
        <5>. QED BY <1>0, <1>4, <5>1 DEF Stream
      <4>2. CASE Len(bus) # 1
        <5>1. 2 \in DOMAIN bus /\ 1 \in DOMAIN bus' /\ 2 > 1 /\ 2 - 1 = 1 /\ 1 + 1 = 2
          BY <1>6, <4>2
        <5>2. bus'[1] = bus[2] /\ bus' # << >>
          <6>1. bus'[1] = bus[1 + 1]
            BY <1>6, <5>1
          <6>2. bus' # << >>
            BY <1>6, <4>2
          <6>. QED BY <5>1, <6>1, <6>2
        <5>3. FollowsOn(bus[2 - 1], bus[2])
          BY <1>4, <5>1 DEF Stream
        <5>. QED BY <1>6, <5>1, <5>2, <5>3
      <4>. QED BY <4>1, <4>2
    <3>a. LastSent(c)' <=> LastSent(c)
      BY <1>0 DEF LastSent, More, Chunks, Latest
    <3>b. IF bus' = << >> THEN LastSent(c)' ELSE FollowsOn(c, bus'[1])
      BY <3>4, <3>a
    <3>5. (IF bus = << >> THEN LastSent(Chunk(buf[1].msg, Len(buf) - 1))
                          ELSE FollowsOn(Chunk(buf[1].msg, Len(buf) - 1), bus[1]))'
      BY <1>0, <3>3, <3>b DEF FollowsOn, LastSent, More, Chunks, Latest, Chunk
    <3>. QED BY <3>1, <3>2, <3>5 DEF Buffered, FirstChunks, Chunks
  <2>. QED BY <1>10, <2>1, <2>2
<1>12. Delivered'
  <2>0. DOMAIN frames = 1..Len(frames) /\ Len(frames) \in Nat
    BY <1>1
  <2>1. ASSUME frames' = frames PROVE Delivered'
    <3>1. ASSUME frames # << >>, NEW k \in DOMAIN bus'
          PROVE  Earlier(begun, frames[Len(frames)][1].msg, bus'[k].msg)
      BY <1>4, <1>6, <3>1 DEF Delivered
    <3>. QED BY <1>0, <1>4, <2>1, <3>1 DEF Delivered, Whole, Chunks
  <2>2. ASSUME ~More(c), frames' = Append(frames, Whole(c.msg)) PROVE Delivered'
    <3>1. c.seq + 1 = Chunks(c.msg)
      BY <1>7, <1>8, <2>2 DEF More
    <3>2. c.seq < next[c.msg] /\ next[c.msg] \in Nat /\ next[c.msg] <= Chunks(c.msg)
      <4>1. 1 \in DOMAIN bus /\ next[c.msg] \in 0..11
        BY <1>1, <1>6, <1>7
      <4>2. c.seq < next[c.msg]
        BY <1>4, <1>6, <4>1 DEF Stream
      <4>. QED BY <1>1, <1>7, <4>1, <4>2 DEF BegunOnce
    <3>3. next[c.msg] = Chunks(c.msg)
      BY <1>7, <3>1, <3>2
    <3>4. /\ Len(frames') = Len(frames) + 1 /\ DOMAIN frames' = 1..(Len(frames) + 1)
          /\ \A k \in DOMAIN frames : frames'[k] = frames[k]
          /\ frames'[Len(frames) + 1] = Whole(c.msg)
      BY <1>1, <2>2
    <3>5. ASSUME NEW k \in DOMAIN frames'
          PROVE  \E n \in Messages : frames'[k] = Whole(n) /\ next[n] = Chunks(n)
      <4>1. CASE k \in DOMAIN frames
        BY <1>4, <3>4, <4>1 DEF Delivered
      <4>2. CASE k = Len(frames) + 1
        BY <1>7, <3>3, <3>4, <4>2
      <4>. QED BY <2>0, <3>4, <4>1, <4>2
    <3>6. Whole(c.msg)[1].msg = c.msg
      <4>1. 1 \in 1..Chunks(c.msg)
        BY <1>7, <1>8
      <4>. QED BY <4>1 DEF Whole, Chunk
    <3>7. ASSUME NEW k \in DOMAIN bus'
          PROVE  Earlier(begun, c.msg, bus'[k].msg)
      <4>1. 1 \in DOMAIN bus /\ k + 1 \in DOMAIN bus /\ 1 < k + 1
        BY <1>6, <3>7
      <4>2. Ordered(begun, c, bus[k + 1])
        BY <1>4, <1>6, <4>1 DEF Stream
      <4>3. bus[k + 1].seq < Chunks(bus[k + 1].msg) /\ bus[k + 1].seq \in Nat
        BY <1>6, <4>1 DEF ChunkSet
      <4>4. ~(c.msg = bus[k + 1].msg /\ c.seq < bus[k + 1].seq)
        BY <1>7, <3>1, <4>3
      <4>. QED BY <1>6, <3>7, <4>2, <4>4 DEF Ordered
    <3>8. (\A k \in DOMAIN frames : \E n \in Messages :
              frames[k] = Whole(n) /\ next[n] = Chunks(n))'
      BY <1>0, <3>5 DEF Whole, Chunks
    <3>9. (\A k \in DOMAIN bus :
              Earlier(begun, frames[Len(frames)][1].msg, bus[k].msg))'
      BY <1>0, <3>4, <3>6, <3>7
    <3>. QED BY <3>8, <3>9 DEF Delivered
  <2>. QED BY <1>10, <2>1, <2>2
<1>. QED BY <1>2, <1>5, <1>9, <1>11, <1>12

PositionIn(list, v) ==
    LET at == { k \in DOMAIN list : list[k] = v }
    IN  IF at = {} THEN 0 ELSE CHOOSE k \in at : TRUE

LEMMA FoundAt ==
    ASSUME NEW list, NEW j \in DOMAIN list,
           \A k \in DOMAIN list : list[k] = list[j] => k = j
    PROVE  PositionIn(list, list[j]) = j
<1>1. { k \in DOMAIN list : list[k] = list[j] } = {j}
  OBVIOUS
<1>. QED BY <1>1 DEF PositionIn

LEMMA WholeFrame ==
    ASSUME NEW m \in Messages PROVE FrameValue(Whole(m)) = m
<1>1. 1 \in 1..Chunks(m)
  BY ChunkCount
<1>2. Whole(m)[1].msg = m
  BY <1>1 DEF Whole, Chunk
<1>. QED BY <1>2 DEF FrameValue, Intact

\* What the link has handed over and how far it has got, as its messages.
LEMMA GotAndPassed ==
    ASSUME LinkInv, OnlySender
    PROVE  /\ LinkGot \in Seq(Messages) /\ Len(LinkGot) = Len(frames)
           /\ DOMAIN LinkGot = 1..Len(frames)
           /\ \A k \in DOMAIN LinkGot : LinkGot[k] = FrameValue(frames[k])
           /\ frames = << >> => LinkPassed = 0
           /\ frames # << >> =>
                 /\ LinkPassed = PositionIn(begun, LinkGot[Len(frames)])
                 /\ HasBegun(LinkGot[Len(frames)])
<1>1. /\ frames \in Seq(Seq(ChunkSet)) /\ Delivered /\ BegunOnce
      /\ next \in [Messages -> 0..11]
  BY DEF LinkInv, ReassemblyInv, TransportTypeOK
<1>2. DOMAIN frames = 1..Len(frames) /\ Len(frames) \in Nat
  BY <1>1
<1>3. ASSUME NEW k \in DOMAIN frames
      PROVE  FrameValue(frames[k]) \in Messages /\ HasBegun(FrameValue(frames[k]))
  <2>1. PICK m \in Messages : frames[k] = Whole(m) /\ next[m] = Chunks(m)
    BY <1>1, <1>3 DEF Delivered
  <2>2. Chunks(m) > 0
    BY ChunkCount
  <2>3. next[m] > 0
    BY <2>1, <2>2
  <2>. QED BY <1>1, <2>1, <2>3, WholeFrame DEF BegunOnce
<1>4. /\ LinkGot \in Seq(Messages) /\ Len(LinkGot) = Len(frames)
      /\ DOMAIN LinkGot = 1..Len(frames)
      /\ \A k \in DOMAIN LinkGot : LinkGot[k] = FrameValue(frames[k])
  BY <1>2, <1>3 DEF LinkGot
<1>5. ASSUME frames # << >>
      PROVE  /\ LinkPassed = PositionIn(begun, LinkGot[Len(frames)])
             /\ HasBegun(LinkGot[Len(frames)])
  <2>1. Len(frames) \in DOMAIN frames
    BY <1>1, <1>5
  <2>2. LinkPassed = PositionIn(begun, FrameValue(frames[Len(frames)]))
    BY <1>5 DEF LinkPassed, PositionOf, PositionIn
  <2>. QED BY <1>2, <1>3, <1>4, <2>1, <2>2
<1>. QED BY <1>4, <1>5 DEF LinkPassed

LEMMA LinkStart == TransportInit => Link!Init
<1>. SUFFICES ASSUME TransportInit PROVE Link!Init
  OBVIOUS
<1>1. begun = << >> /\ frames = << >>
  BY DEF TransportInit
<1>2. LinkGot = << >>
  BY <1>1 DEF LinkGot
<1>. QED BY <1>1, <1>2 DEF Link!Init, LinkPassed

\* A message handed to send.
LEMMA SendIsSent ==
    ASSUME LinkInv, LinkInv', OnlySender, OnlySender', NEW m \in Messages,
           Advances(m), frames' = frames
    PROVE  Link!Next \/ UNCHANGED Link!vars
<1>1. LinkGot' = LinkGot
  BY DEF LinkGot, FrameValue, Intact, Whole, Chunks
<1>2. /\ BegunOnce /\ BegunOnce'
      /\ begun' = begun \/ (begun' = Append(begun, m) /\ ~HasBegun(m))
      /\ \A k \in DOMAIN begun : k \in DOMAIN begun' /\ begun'[k] = begun[k]
  BY BeginsOnce DEF LinkInv, ReassemblyInv
<1>3. LinkPassed' = LinkPassed
  <2>1. CASE frames = << >>
    BY <2>1 DEF LinkPassed
  <2>2. CASE frames # << >>
    <3>. PICK v : v = LinkGot[Len(frames)]
      OBVIOUS
    <3>1. LinkPassed = PositionIn(begun, v) /\ HasBegun(v)
      BY <2>2, GotAndPassed
    <3>2. LinkPassed' = PositionIn(begun', v)
      <4>1. LinkPassed' = PositionIn(begun', FrameValue(frames[Len(frames)])')
        BY <2>2 DEF LinkPassed, PositionOf, PositionIn
      <4>2. FrameValue(frames[Len(frames)])' = FrameValue(frames[Len(frames)])
        BY DEF FrameValue, Intact, Whole, Chunks
      <4>3. Len(frames) \in DOMAIN LinkGot
        <5>1. frames \in Seq(Seq(ChunkSet))
          BY DEF LinkInv, ReassemblyInv, TransportTypeOK
        <5>. QED BY <2>2, <5>1, GotAndPassed
      <4>. QED BY <4>1, <4>2, <4>3, GotAndPassed
    <3>3. PICK j \in DOMAIN begun : begun[j] = v
      BY <3>1 DEF HasBegun
    <3>4. PositionIn(begun, v) = j
      BY <1>2, <3>3, FoundAt DEF BegunOnce
    <3>5. j \in DOMAIN begun' /\ begun'[j] = v
      BY <1>2, <3>3
    <3>6. PositionIn(begun', v) = j
      BY <1>2, <3>5, FoundAt DEF BegunOnce
    <3>. QED BY <3>1, <3>2, <3>4, <3>6
  <2>. QED BY <2>1, <2>2
<1>4. CASE begun' = begun
  BY <1>1, <1>3, <1>4 DEF Link!vars
<1>5. CASE begun' = Append(begun, m) /\ ~HasBegun(m)
  <2>1. Link!Send(m)
    BY <1>1, <1>3, <1>5 DEF Link!Send, HasBegun
  <2>. QED BY <2>1 DEF Link!Next
<1>. QED BY <1>2, <1>4, <1>5

\* A chunk taken off the bus.
LEMMA RecvIsRecv ==
    ASSUME LinkInv, LinkInv', OnlySender, OnlySender', Recv
    PROVE  Link!Next \/ UNCHANGED Link!vars
<1>. PICK c : c = Head(bus)
  OBVIOUS
<1>1. /\ bus # << >> /\ bus \in Seq(ChunkSet) /\ begun' = begun /\ BegunOnce /\ Stream
      /\ Delivered /\ frames \in Seq(Seq(ChunkSet)) /\ next \in [Messages -> 0..11]
  BY DEF Recv, sender, LinkInv, ReassemblyInv, TransportTypeOK
<1>2. c \in ChunkSet /\ bus[1] = c /\ 1 \in DOMAIN bus
  BY <1>1
<1>3. c.msg \in Messages /\ c.seq \in Nat
  BY <1>2 DEF ChunkSet
<1>4. CASE frames' = frames
  BY <1>1, <1>4 DEF Link!vars, LinkGot, LinkPassed, PositionOf, FrameValue, Intact, Whole, Chunks
<1>5. CASE frames' = Append(frames, Whole(c.msg))
  <2>1. HasBegun(c.msg)
    <3>1. c.seq < next[c.msg] /\ next[c.msg] \in Nat
      BY <1>1, <1>2, <1>3 DEF Stream
    <3>2. next[c.msg] > 0
      BY <1>3, <3>1
    <3>. QED BY <1>1, <1>3, <3>2 DEF BegunOnce
  <2>2. PICK k \in DOMAIN begun : begun[k] = c.msg
    BY <2>1 DEF HasBegun
  <2>3. /\ Len(frames) \in Nat /\ Len(frames') = Len(frames) + 1 /\ frames' # << >>
        /\ \A i \in 1..Len(frames) : frames'[i] = frames[i]
        /\ frames'[Len(frames')] = Whole(c.msg)
    <3>. PICK w : w = Whole(c.msg)
      OBVIOUS
    <3>1. frames' = Append(frames, w)
      BY <1>5
    <3>2. Len(frames) \in Nat
      BY <1>1
    <3>3. Len(frames') = Len(frames) + 1
      BY <1>1, <3>1
    <3>4. \A i \in 1..Len(frames) : frames'[i] = frames[i]
      BY <1>1, <3>1
    <3>5. frames'[Len(frames) + 1] = w /\ frames' # << >>
      BY <1>1, <3>1
    <3>. QED BY <3>2, <3>3, <3>4, <3>5
  <2>4. /\ LinkGot \in Seq(Messages) /\ Len(LinkGot) = Len(frames)
        /\ DOMAIN LinkGot = 1..Len(frames)
        /\ \A i \in DOMAIN LinkGot : LinkGot[i] = FrameValue(frames[i])
    BY GotAndPassed
  <2>5. LinkGot' = Append(LinkGot, begun[k])
    <3>1. LinkGot' = [i \in 1..(Len(frames) + 1) |-> FrameValue(frames'[i])]
      <4>1. DOMAIN frames' = 1..(Len(frames) + 1)
        BY <1>1, <1>5
      <4>. QED BY <4>1 DEF LinkGot, FrameValue, Intact, Whole, Chunks
    <3>2. \A i \in 1..Len(frames) : FrameValue(frames'[i]) = LinkGot[i]
      BY <2>3, <2>4
    <3>3. FrameValue(frames'[Len(frames) + 1]) = begun[k]
      BY <1>3, <2>2, <2>3, WholeFrame
    <3>4. Append(LinkGot, begun[k])
            = [i \in 1..(Len(frames) + 1) |->
                  IF i = Len(frames) + 1 THEN begun[k] ELSE LinkGot[i]]
      BY <1>3, <2>2, <2>4
    <3>5. \A i \in 1..(Len(frames) + 1) :
             FrameValue(frames'[i]) =
                IF i = Len(frames) + 1 THEN begun[k] ELSE LinkGot[i]
      BY <2>3, <3>2, <3>3
    <3>. QED BY <3>1, <3>4, <3>5
  <2>6. LinkPassed' = k
    <3>1. LinkPassed' = PositionIn(begun', FrameValue(frames[Len(frames)])')
      BY <2>3 DEF LinkPassed, PositionOf, PositionIn
    <3>2. FrameValue(frames[Len(frames)])' = FrameValue(Whole(c.msg))
      <4>1. PICK f : f = frames'[Len(frames')]
        OBVIOUS
      <4>2. FrameValue(frames[Len(frames)])' = FrameValue(f)
        BY <4>1 DEF FrameValue, Intact, Whole, Chunks
      <4>. QED BY <2>3, <4>1, <4>2
    <3>3. LinkPassed' = PositionIn(begun, begun[k])
      BY <1>1, <1>3, <2>2, <3>1, <3>2, WholeFrame
    <3>. QED BY <1>1, <2>2, <3>3, FoundAt DEF BegunOnce
  <2>7. LinkPassed < k
    <3>1. k \in Nat /\ k > 0
      <4>1. begun \in Seq(Messages)
        BY DEF LinkInv, ReassemblyInv, TransportTypeOK
      <4>. QED BY <2>2, <4>1
    <3>2. CASE frames = << >>
      BY <3>1, <3>2, GotAndPassed
    <3>3. CASE frames # << >>
      <4>0. Len(frames) \in DOMAIN frames
        BY <1>1, <3>3
      <4>1. PICK n \in Messages : frames[Len(frames)] = Whole(n)
        BY <1>1, <4>0 DEF Delivered
      <4>2. FrameValue(frames[Len(frames)]) = n
        BY <4>1, WholeFrame
      <4>3. frames[Len(frames)][1].msg = n
        <5>1. 1 \in 1..Chunks(n)
          BY ChunkCount
        <5>. QED BY <4>1, <5>1 DEF Whole, Chunk
      <4>4. Earlier(begun, n, c.msg)
        BY <1>1, <1>2, <3>3, <4>3 DEF Delivered
      <4>5. PICK i, j \in DOMAIN begun : i < j /\ begun[i] = n /\ begun[j] = c.msg
        BY <4>4 DEF Earlier
      <4>6. j = k
        BY <1>1, <2>2, <4>5 DEF BegunOnce
      <4>7. LinkPassed = PositionIn(begun, n)
        BY <3>3, <4>2, GotAndPassed, <2>4, <4>0, <1>1
      <4>8. PositionIn(begun, n) = i
        BY <1>1, <4>5, FoundAt DEF BegunOnce
      <4>. QED BY <4>5, <4>6, <4>7, <4>8
    <3>. QED BY <3>2, <3>3
  <2>8. Link!Recv(k)
    BY <1>1, <2>5, <2>6, <2>7 DEF Link!Recv
  <2>. QED BY <2>2, <2>8 DEF Link!Next
<1>. QED BY <1>4, <1>5, OnlySenderRecv

LEMMA LinkInvNext ==
    ASSUME LinkInv, [TransportNext]_transportVars
    PROVE  /\ LinkInv'
           /\ OnlySender' => Link!Next \/ UNCHANGED Link!vars
<1>0. ReassemblyInv'
  BY NextInv DEF LinkInv
<1>1. ASSUME NEW m \in Messages, Transmit(m) \/ TransmitLost(m) \/ TransmitFails(m)
      PROVE  /\ LinkInv'
             /\ OnlySender' => Link!Next \/ UNCHANGED Link!vars
  <2>1. /\ Advances(m) /\ UNCHANGED receiver /\ frames' = frames
        /\ Transmit(m) \/ (ChunkLost /\ UNCHANGED bus)
        /\ burst' = burst \/ burst' = (burst \/ lastLost)
    BY <1>1 DEF Transmit, TransmitLost, TransmitFails, Advances, receiver, ChunkLost
  <2>2. LinkInv'
    BY <1>0, <2>1, TransmitKeepsLink, LossKeepsLink
  <2>3. OnlySender' => OnlySender
    BY <2>1, BeginsOnce DEF OnlySender, LinkInv, ReassemblyInv
  <2>. QED BY <2>1, <2>2, <2>3, SendIsSent
<1>2. ASSUME Recv
      PROVE  /\ LinkInv'
             /\ OnlySender' => Link!Next \/ UNCHANGED Link!vars
  <2>1. LinkInv'
    BY <1>0, <1>2, RecvKeepsLink
  <2>2. OnlySender' => OnlySender
    BY <1>2 DEF Recv, sender, OnlySender, Alone
  <2>. QED BY <1>2, <2>1, <2>2, RecvIsRecv
<1>3. ASSUME UNCHANGED transportVars
      PROVE  /\ LinkInv'
             /\ OnlySender' => Link!Next \/ UNCHANGED Link!vars
  <2>1. /\ next' = next /\ begun' = begun /\ gaveUp' = gaveUp /\ bus' = bus
        /\ lastLost' = lastLost /\ burst' = burst /\ buf' = buf /\ size' = size
        /\ frames' = frames
    BY <1>3 DEF transportVars
  <2>2. LinkInv'
    BY <1>0, <2>1 DEF LinkInv, BegunOnce, HasBegun, OnlySender, Alone, OneAtATime, Sending,
       Latest, Chunks, Stream, Ordered, Earlier, FollowsOn, More, LastSent, Buffered, Chunk,
       FirstChunks, Delivered, Whole
  <2>3. UNCHANGED Link!vars
    BY <2>1 DEF Link!vars, LinkGot, LinkPassed, PositionOf, FrameValue, Intact, Whole, Chunks
  <2>. QED BY <2>2, <2>3
<1>. QED BY <1>1, <1>2, <1>3 DEF TransportNext

(* While one sender has the bus and no two chunks in a row are lost, every *)
(* step of a transport is a step of FrameLink or leaves it alone: what it  *)
(* hands over are whole frames, in the order in which they were sent, and  *)
(* none twice (can.rs, lin.rs, pmbus.rs recv).                             *)
THEOREM ReassemblyIsLink == TransportSpec => LinkWhileAlone
<1>1. LinkInv /\ [TransportNext]_transportVars =>
        LinkInv' /\ [(Alone /\ ~burst)' => Link!Next]_(Link!vars)
  BY LinkInvNext DEF OnlySender
<1>2. TransportInit => LinkInv /\ Link!Init
  BY InitLink, LinkStart
<1>. QED BY <1>1, <1>2, PTL DEF TransportSpec, LinkWhileAlone

-------------------------------------------------------------------------------
(* The broker: its table of subscriptions, and poll.                       *)

\* What the table's own invariant needs of the types.
TableTyped ==
    /\ subs \in [Handles -> [active : BOOLEAN, topic : Topics,
                             client : Clients]]
    /\ live \subseteq [id : Nat, client : Clients, topic : Topics,
                       handle : Handles]
    /\ calls \in Nat

TableInv == TableTyped /\ TableIsLive

LEMMA InitTableInv == Init => TableInv
<1>. SUFFICES ASSUME Init PROVE TableInv
  OBVIOUS
<1>. PICK c \in Clients, t \in Topics : subs = [h \in Handles |-> Empty(c, t)]
  BY DEF Init
<1>1. /\ \A h \in Handles : /\ subs[h] = Empty(c, t)
                            /\ ~subs[h].active
      /\ live = {} /\ calls = 0
  BY DEF Init, Empty
<1>2. TableTyped
  BY <1>1 DEF TableTyped, Empty
<1>3. ActiveIsLive /\ LiveIsActive
  BY <1>1 DEF ActiveIsLive, LiveIsActive
<1>. QED BY <1>2, <1>3 DEF TableInv, TableIsLive

\* A new subscription takes a slot that no subscription occupied.
LEMMA SubscribeKeepsTable ==
    ASSUME TableInv, NEW c \in Clients, NEW t \in Topics, Subscribe(c, t)
    PROVE  TableInv'
<1>. PICK h \in Handles :
        /\ Free(h)
        /\ subs' = [subs EXCEPT ![h] =
                       [active |-> TRUE, topic |-> t, client |-> c]]
        /\ live' = live \union
               {[id |-> calls, client |-> c, topic |-> t, handle |-> h]}
  BY DEF Subscribe
\* A rigid name: new keeps denoting this subscription under a prime.
<1>. PICK new : new = [id |-> calls, client |-> c, topic |-> t, handle |-> h]
  OBVIOUS
<1>1. \A s \in live : s.handle \in Handles
  BY DEF TableInv, TableTyped
<1>2. \A s \in live : Occupies(s) => s.handle # h
  BY <1>1 DEF Free, Occupies
<1>3. TableTyped'
  <2>1. calls' \in Nat
    BY DEF TableInv, TableTyped, Subscribe
  <2>2. new \in [id : Nat, client : Clients, topic : Topics, handle : Handles]
    BY DEF TableInv, TableTyped
  <2>3. subs' \in [Handles -> [active : BOOLEAN, topic : Topics,
                               client : Clients]]
    BY DEF TableInv, TableTyped
  <2>. QED BY <2>1, <2>2, <2>3 DEF TableInv, TableTyped
<1>4. /\ live' = live \union {new}
      /\ new.handle = h /\ new.topic = t /\ new.client = c
  OBVIOUS
<1>5. /\ subs'[h] = [active |-> TRUE, topic |-> t, client |-> c]
      /\ \A g \in Handles \ {h} : subs'[g] = subs[g]
  BY DEF TableInv, TableTyped
<1>6. Occupies(new)' /\ \A s \in live : Occupies(s) => Occupies(s)'
  <2>1. subs'[new.handle] = [active |-> TRUE, topic |-> new.topic,
                             client |-> new.client]
    BY <1>4, <1>5
  <2>2. \A s \in live : Occupies(s) => subs'[s.handle] = subs[s.handle]
    BY <1>1, <1>2, <1>5
  <2>. QED BY <2>1, <2>2 DEF Occupies
<1>7. ActiveIsLive'
  <2>. SUFFICES ASSUME NEW g \in Handles, subs'[g].active
                PROVE  \E s \in live' : s.handle = g /\ Occupies(s)'
    BY DEF ActiveIsLive
  <2>1. CASE g = h
    BY <1>4, <1>6, <2>1
  <2>2. CASE g # h
    <3>1. subs[g].active
      BY <1>5, <2>2
    <3>2. PICK s \in live : s.handle = g /\ Occupies(s)
      BY <3>1 DEF TableInv, TableIsLive, ActiveIsLive
    <3>. QED BY <1>4, <1>6, <3>2
  <2>. QED BY <2>1, <2>2
<1>8. ASSUME ~reused' PROVE LiveIsActive'
  <2>1. LiveIsActive
    BY <1>8 DEF Subscribe, TableInv, TableIsLive
  <2>2. \A s \in live' : Occupies(s)'
    BY <1>4, <1>6, <2>1 DEF LiveIsActive
  <2>3. \A r, s \in live' : r.handle = s.handle => r = s
    BY <1>2, <1>4, <2>1 DEF LiveIsActive
  <2>. QED BY <2>2, <2>3 DEF LiveIsActive
<1>. QED BY <1>3, <1>7, <1>8 DEF TableInv, TableIsLive

\* unsubscribe leaves its slot inactive and every other as it was.
LEMMA ReleaseFrees ==
    ASSUME TableTyped, NEW h \in Handles, Release(h)
    PROVE  /\ subs' \in [Handles -> [active : BOOLEAN, topic : Topics,
                                     client : Clients]]
           /\ ~subs'[h].active
           /\ \A g \in Handles \ {h} : subs'[g] = subs[g]
<1>1. CASE subs[h].active
  <2>1. subs' = [subs EXCEPT ![h].active = FALSE]
    BY <1>1 DEF Release
  <2>. QED BY <2>1 DEF TableTyped
<1>2. CASE ~subs[h].active
  BY <1>2 DEF Release, TableTyped
<1>. QED BY <1>1, <1>2

\* Ending a subscription frees its slot and no other.
LEMMA UnsubscribeKeepsTable ==
    ASSUME TableInv, NEW s \in live, Unsubscribe(s)
    PROVE  TableInv'
<1>1. /\ s.handle \in Handles
      /\ live' = live \ {s}
      /\ calls' = calls /\ reused' = reused
      /\ Release(s.handle)
  BY DEF Unsubscribe, TableInv, TableTyped
<1>2. /\ subs' \in [Handles -> [active : BOOLEAN, topic : Topics,
                                client : Clients]]
      /\ ~subs'[s.handle].active
      /\ \A g \in Handles \ {s.handle} : subs'[g] = subs[g]
  BY <1>1, ReleaseFrees DEF TableInv
<1>3. TableTyped'
  BY <1>1, <1>2 DEF TableInv, TableTyped
<1>4. ActiveIsLive'
  <2>. SUFFICES ASSUME NEW g \in Handles, subs'[g].active
                PROVE  \E r \in live' : r.handle = g /\ Occupies(r)'
    BY DEF ActiveIsLive
  <2>1. g # s.handle /\ subs[g].active
    BY <1>2
  <2>2. PICK r \in live : r.handle = g /\ Occupies(r)
    BY <2>1 DEF TableInv, TableIsLive, ActiveIsLive
  <2>3. Occupies(r)'
    BY <1>2, <2>1, <2>2 DEF Occupies
  <2>. QED BY <1>1, <2>1, <2>2, <2>3
<1>5. ASSUME ~reused' PROVE LiveIsActive'
  <2>1. LiveIsActive
    BY <1>1, <1>5 DEF TableInv, TableIsLive
  <2>2. \A r \in live' : r \in live /\ r.handle \in Handles \ {s.handle}
    BY <1>1, <2>1 DEF TableInv, TableTyped, LiveIsActive
  <2>3. \A r \in live' : Occupies(r)'
    BY <1>2, <2>1, <2>2 DEF Occupies, LiveIsActive
  <2>. QED BY <2>1, <2>2, <2>3 DEF LiveIsActive
<1>. QED BY <1>3, <1>4, <1>5 DEF TableInv, TableIsLive

\* A handle used again may end somebody's subscription, but starts none.
LEMMA UnsubscribeAgainKeepsTable ==
    ASSUME TableInv, NEW h \in Handles, UnsubscribeAgain(h)
    PROVE  TableInv'
<1>1. live' = live /\ calls' = calls /\ reused' = TRUE /\ Release(h)
  BY DEF UnsubscribeAgain
<1>2. /\ subs' \in [Handles -> [active : BOOLEAN, topic : Topics,
                                client : Clients]]
      /\ ~subs'[h].active
      /\ \A g \in Handles \ {h} : subs'[g] = subs[g]
  BY <1>1, ReleaseFrees DEF TableInv
<1>3. TableTyped'
  BY <1>1, <1>2 DEF TableInv, TableTyped
<1>4. ActiveIsLive'
  <2>. SUFFICES ASSUME NEW g \in Handles, subs'[g].active
                PROVE  \E r \in live' : r.handle = g /\ Occupies(r)'
    BY DEF ActiveIsLive
  <2>1. g # h /\ subs[g].active
    BY <1>2
  <2>2. PICK r \in live : r.handle = g /\ Occupies(r)
    BY <2>1 DEF TableInv, TableIsLive, ActiveIsLive
  <2>. QED BY <1>1, <1>2, <2>1, <2>2 DEF Occupies
<1>. QED BY <1>1, <1>3, <1>4 DEF TableInv, TableIsLive

LEMMA NextTableInv == TableInv /\ [Next]_vars => TableInv'
<1>. SUFFICES ASSUME TableInv, [Next]_vars PROVE TableInv'
  OBVIOUS
<1>1. CASE UNCHANGED table
  BY <1>1 DEF table, TableInv, TableTyped, TableIsLive, ActiveIsLive,
             LiveIsActive, Occupies
<1>2. ASSUME NEW c \in Clients, NEW t \in Topics, Subscribe(c, t)
      PROVE  TableInv'
  BY <1>2, SubscribeKeepsTable
<1>3. ASSUME NEW s \in live, Unsubscribe(s)
      PROVE  TableInv'
  BY <1>3, UnsubscribeKeepsTable
<1>4. ASSUME NEW h \in Handles, UnsubscribeAgain(h)
      PROVE  TableInv'
  BY <1>4, UnsubscribeAgainKeepsTable
<1>5. ASSUME NEW side \in Buses, NEW i \in Inputs, Arrive(side, i)
      PROVE  UNCHANGED table
  BY <1>5 DEF Arrive
<1>6. ASSUME NEW side \in Buses, Break(side)
      PROVE  UNCHANGED table
  BY <1>6 DEF Break
<1>7. CASE BeginPoll
  BY <1>1, <1>7 DEF BeginPoll
<1>8. CASE PollStep
  BY <1>1, <1>8 DEF PollStep, PollFrame, PollEnds
<1>9. CASE UNCHANGED vars
  BY <1>1, <1>9 DEF vars, table
<1>. QED BY <1>1, <1>2, <1>3, <1>4, <1>5, <1>6, <1>7, <1>8, <1>9 DEF Next

(* No call of one client ends or overwrites another's subscription until a *)
(* handle is used twice, and no subscription outlives its unsubscribe.     *)
THEOREM BrokerTableIsLive == Spec => []TableIsLive
<1>1. TableInv => TableIsLive
  BY DEF TableInv
<1>. QED BY <1>1, NextTableInv, InitTableInv, PTL DEF Spec

-------------------------------------------------------------------------------
(* Types.                                                                  *)

LEMMA NobodyTyped == Nobody \in [clients : SUBSET Clients, times : 0..MaxSubs]
<1>1. 0 \in 0..MaxSubs
  BY MaxSubsAssumption
<1>. QED BY <1>1 DEF Nobody

LEMMA InitTypeOK == Init => TypeOK
<1>. SUFFICES ASSUME Init PROVE TypeOK
  OBVIOUS
<1>1. PICK c \in Clients, t \in Topics : subs = [h \in Handles |-> Empty(c, t)]
  BY DEF Init
<1>2. subs \in [Handles -> [active : BOOLEAN, topic : Topics, client : Clients]]
  BY <1>1 DEF Empty
<1>3. inbox \in [Buses -> Seq(Inputs)]
  BY DEF Init
<1>4. 0 \in 0..MaxSubscribes
  BY BoundsAssumption
<1>5. old \in [Buses -> Nat]
  BY DEF Init
<1>6. Nobody \in [clients : SUBSET Clients, times : 0..MaxSubs]
  BY NobodyTyped
<1>. QED BY <1>2, <1>3, <1>4, <1>5, <1>6 DEF Init, TypeOK

LEMMA SubscribeTyped ==
    ASSUME TypeOK, NEW c \in Clients, NEW t \in Topics, Subscribe(c, t)
    PROVE  TypeOK'
<1>1. PICK h \in Handles :
        /\ subs' = [subs EXCEPT ![h] = [active |-> TRUE, topic |-> t, client |-> c]]
        /\ live' = live \union
               {[id |-> calls, client |-> c, topic |-> t, handle |-> h]}
  BY DEF Subscribe
<1>2. subs' \in [Handles -> [active : BOOLEAN, topic : Topics, client : Clients]]
  BY <1>1 DEF TypeOK
<1>3. calls \in 0..MaxSubscribes /\ calls' \in 0..MaxSubscribes
  BY BoundsAssumption DEF TypeOK, Subscribe
<1>4. [id |-> calls, client |-> c, topic |-> t, handle |-> h]
        \in [id : 0..MaxSubscribes, client : Clients, topic : Topics, handle : Handles]
  BY <1>3
<1>5. live' \subseteq [id : 0..MaxSubscribes, client : Clients, topic : Topics,
                       handle : Handles]
  BY <1>1, <1>4 DEF TypeOK
<1>. QED BY <1>2, <1>3, <1>5 DEF TypeOK, Subscribe, poll

LEMMA ReleaseTyped ==
    ASSUME subs \in [Handles -> [active : BOOLEAN, topic : Topics, client : Clients]],
           NEW h \in Handles, Release(h)
    PROVE  subs' \in [Handles -> [active : BOOLEAN, topic : Topics, client : Clients]]
<1>1. CASE subs[h].active
  <2>1. subs' = [subs EXCEPT ![h].active = FALSE]
    BY <1>1 DEF Release
  <2>. QED BY <2>1
<1>2. CASE ~subs[h].active
  BY <1>2 DEF Release
<1>. QED BY <1>1, <1>2

LEMMA UnsubscribeTyped ==
    ASSUME TypeOK, NEW s \in live, Unsubscribe(s)
    PROVE  TypeOK'
<1>1. s.handle \in Handles
  BY DEF TypeOK
<1>2. subs' \in [Handles -> [active : BOOLEAN, topic : Topics, client : Clients]]
  BY <1>1, ReleaseTyped DEF TypeOK, Unsubscribe
<1>. QED BY <1>1, <1>2 DEF TypeOK, Unsubscribe, poll

LEMMA UnsubscribeAgainTyped ==
    ASSUME TypeOK, NEW h \in Handles, UnsubscribeAgain(h)
    PROVE  TypeOK'
<1>1. subs' \in [Handles -> [active : BOOLEAN, topic : Topics, client : Clients]]
  BY ReleaseTyped DEF TypeOK, UnsubscribeAgain
<1>. QED BY <1>1 DEF TypeOK, UnsubscribeAgain, poll

LEMMA ArriveTyped ==
    ASSUME TypeOK, NEW side \in Buses, NEW i \in Inputs, Arrive(side, i)
    PROVE  TypeOK'
<1>1. Append(inbox[side], i) \in Seq(Inputs)
  BY DEF TypeOK
<1>2. inbox' \in [Buses -> Seq(Inputs)]
  BY <1>1 DEF TypeOK, Arrive
<1>. QED BY <1>2 DEF TypeOK, Arrive, table, poll

\* recv leaves inboxes of the same inputs.
LEMMA RecvTyped ==
    ASSUME TypeOK, inbox' = InboxAfterRecv
    PROVE  inbox' \in [Buses -> Seq(Inputs)]
<1>1. ASSUME NEW side \in Buses PROVE Rest(side) \in Seq(Inputs)
  <2>1. inbox[side] \in Seq(Inputs)
    BY DEF TypeOK
  <2>2. inbox[side] # << >> => Tail(inbox[side]) \in Seq(Inputs)
    BY <2>1
  <2>. QED BY <2>1, <2>2 DEF Rest
<1>2. ASSUME NEW side \in Buses PROVE InboxAfterRecv[side] \in Seq(Inputs)
  BY <1>1 DEF InboxAfterRecv, TypeOK
<1>. QED BY <1>2 DEF InboxAfterRecv

\* What recv answers with is a frame.
LEMMA AnswerIsFrame ==
    ASSUME TypeOK, Answer = "frame"
    PROVE  AnswerFrom \in Buses /\ Head(inbox[AnswerFrom]) \in Frames
<1>1. AnswerFrom \in Buses
  BY DEF AnswerFrom, Buses
<1>2. Outcome(AnswerFrom) = "frame"
  BY DEF Answer, AnswerFrom
<1>3. AnswerFrom \notin broken /\ inbox[AnswerFrom] # << >>
      /\ Head(inbox[AnswerFrom]).kind = "frame"
  BY <1>2 DEF Outcome
<1>4. Head(inbox[AnswerFrom]) \in Inputs
  <2>1. inbox[AnswerFrom] \in Seq(Inputs)
    BY <1>1 DEF TypeOK
  <2>. QED BY <1>3, <2>1
<1>. QED BY <1>1, <1>3, <1>4 DEF Inputs

\* A frame is dispatched at most once per slot.
LEMMA CalledBounded ==
    ASSUME NEW frame
    PROVE  Cardinality(Called(frame)) \in 0..MaxSubs
<1>1. IsFiniteSet(Handles) /\ Cardinality(Handles) = MaxSubs
  BY FS_Interval, MaxSubsAssumption DEF Handles
<1>2. Called(frame) \subseteq Handles
  BY DEF Called
<1>3. IsFiniteSet(Called(frame)) /\ Cardinality(Called(frame)) <= MaxSubs
  BY <1>1, <1>2, FS_Subset
<1>. QED BY <1>3, FS_CardinalityType, MaxSubsAssumption

\* A turn of the loop takes at most what was there.
LEMMA OldTyped == TypeOK => OldAfterRecv \in [Buses -> Nat]
<1>. SUFFICES ASSUME TypeOK, NEW side \in Buses PROVE OldAfterRecv[side] \in Nat
  BY DEF OldAfterRecv
<1>1. old[side] \in Nat
  BY DEF TypeOK
<1>. QED BY <1>1 DEF OldAfterRecv

LEMMA PollFrameTyped ==
    ASSUME TypeOK, PollFrame
    PROVE  TypeOK'
<1>. DEFINE frame == Head(inbox[AnswerFrom])
            Calls == [clients : SUBSET Clients, times : 0..MaxSubs]
<1>1. [clients |-> { subs[h].client : h \in Called(frame) },
       times |-> Cardinality(Called(frame))] \in Calls
  <2>1. { subs[h].client : h \in Called(frame) } \in SUBSET Clients
    BY DEF Called, TypeOK
  <2>. QED BY <2>1, CalledBounded
<1>2. Dispatch(frame) \in Calls
  <2>. HIDE DEF frame, Calls
  <2>1. Nobody \in Calls
    BY NobodyTyped DEF Calls
  <2>. QED BY <1>1, <2>1 DEF Dispatch
<1>3. inbox' \in [Buses -> Seq(Inputs)]
  BY RecvTyped DEF PollFrame
<1>4. old' \in [Buses -> Nat]
  BY OldTyped DEF PollFrame
<1>. QED BY <1>2, <1>3, <1>4 DEF TypeOK, PollFrame, table

LEMMA NextTypeOK == TypeOK /\ [Next]_vars => TypeOK'
<1>. SUFFICES ASSUME TypeOK, [Next]_vars PROVE TypeOK'
  OBVIOUS
<1>1. ASSUME NEW side \in Buses, Break(side) PROVE TypeOK'
  BY <1>1 DEF TypeOK, Break, table, poll
<1>2. CASE BeginPoll
  <2>1. old' \in [Buses -> Nat]
    BY <1>2 DEF TypeOK, BeginPoll
  <2>. QED BY <1>2, <2>1 DEF TypeOK, BeginPoll, table
<1>3. CASE PollEnds
  <2>1. inbox' \in [Buses -> Seq(Inputs)]
    BY <1>3, RecvTyped DEF PollEnds
  <2>2. old' \in [Buses -> Nat]
    BY <1>3 DEF PollEnds
  <2>3. dispatch' \in [clients : SUBSET Clients, times : 0..MaxSubs]
    BY <1>3, NobodyTyped DEF PollEnds
  <2>. QED BY <1>3, <2>1, <2>2, <2>3 DEF TypeOK, PollEnds, table
<1>4. CASE UNCHANGED vars
  BY <1>4 DEF TypeOK, vars
<1>. QED BY <1>1, <1>2, <1>3, <1>4, SubscribeTyped, UnsubscribeTyped,
            UnsubscribeAgainTyped, ArriveTyped, PollFrameTyped DEF Next, PollStep

\* The type of every variable, with whatever the buses bring.
THEOREM BrokerTypeCorrect == Spec => []TypeOK
<1>. QED BY InitTypeOK, NextTypeOK, PTL DEF Spec

-------------------------------------------------------------------------------
(* Dispatch.                                                               *)

\* A subscription's slot: what dispatch calls, one to one.
LEMMA DueIsCalled ==
    ASSUME TableInv, ~reused, NEW frame
    PROVE  /\ { subs[h].client : h \in Called(frame) }
                = { s.client : s \in Due(frame.topic) }
           /\ Cardinality(Called(frame)) = Cardinality(Due(frame.topic))
<1>. DEFINE C == Called(frame)
            D == Due(frame.topic)
<1>1. \A s \in live : s.handle \in Handles /\ Occupies(s)
  BY DEF TableInv, TableTyped, TableIsLive, LiveIsActive
<1>2. \A s, t \in live : s.handle = t.handle => s = t
  BY DEF TableInv, TableIsLive, LiveIsActive
<1>3. \A s \in D : /\ s \in live /\ s.topic = frame.topic
                   /\ s.handle \in C /\ subs[s.handle].client = s.client
  <2>. SUFFICES ASSUME NEW s \in D
                PROVE  /\ s \in live /\ s.topic = frame.topic
                       /\ s.handle \in C /\ subs[s.handle].client = s.client
    OBVIOUS
  <2>1. s \in live /\ s.topic = frame.topic
    BY DEF Due
  <2>2. s.handle \in Handles
        /\ subs[s.handle] = [active |-> TRUE, topic |-> s.topic, client |-> s.client]
    BY <1>1, <2>1 DEF Occupies
  <2>. QED BY <2>1, <2>2 DEF Called
<1>4. \A h \in C : \E s \in D : s.handle = h
  <2>. SUFFICES ASSUME NEW h \in C PROVE \E s \in D : s.handle = h
    OBVIOUS
  <2>1. h \in Handles /\ subs[h].active /\ subs[h].topic = frame.topic
    BY DEF Called
  <2>2. PICK s \in live : s.handle = h /\ Occupies(s)
    BY <2>1 DEF TableInv, TableIsLive, ActiveIsLive
  <2>3. s.topic = frame.topic
    BY <2>1, <2>2 DEF Occupies
  <2>. QED BY <2>2, <2>3 DEF Due
<1>5. { subs[h].client : h \in C } = { s.client : s \in D }
  BY <1>3, <1>4
<1>6. Cardinality(C) = Cardinality(D)
  <2>. DEFINE f == [s \in D |-> s.handle]
  <2>1. f \in [D -> C]
    BY <1>3
  <2>2. \A s, t \in D : f[s] = f[t] => s = t
    BY <1>2, <1>3
  <2>3. \A h \in C : \E s \in D : f[s] = h
    BY <1>4
  <2>4. f \in Injection(D, C)
    BY <2>1, <2>2 DEF Injection, IsInjective
  <2>5. f \in Surjection(D, C)
    BY <2>1, <2>3 DEF Surjection
  <2>6. IsFiniteSet(C)
    <3>1. IsFiniteSet(Handles)
      BY FS_Interval, MaxSubsAssumption DEF Handles
    <3>2. C \subseteq Handles
      BY DEF Called
    <3>. QED BY <3>1, <3>2, FS_Subset
  <2>. HIDE DEF f, C, D
  <2>. QED BY <2>4, <2>5, <2>6, FS_Injection
<1>. QED BY <1>5, <1>6

(* A frame reaches the handlers of the subscriptions in force for its      *)
(* topic, each as often as it subscribed, and nobody else, for tables and  *)
(* sets of clients of any size.                                            *)
THEOREM BrokerDispatchIsExact == Spec => DispatchIsExact
<1>1. TableInv
        => [PollFrame /\ ~reused =>
               LET frame == Head(inbox[AnswerFrom])
               IN  dispatch' = IF Accepted(frame) THEN Dispatched(frame.topic)
                               ELSE Nobody]_vars
  <2>. SUFFICES ASSUME TableInv, PollFrame, ~reused, NEW frame,
                       frame = Head(inbox[AnswerFrom])
                PROVE  dispatch' = IF Accepted(frame) THEN Dispatched(frame.topic)
                                   ELSE Nobody
    OBVIOUS
  <2>1. dispatch' = Dispatch(frame)
    BY DEF PollFrame
  <2>. QED BY <2>1, DueIsCalled DEF Dispatch, Dispatched
<1>. QED BY <1>1, InitTableInv, NextTableInv, PTL DEF Spec, DispatchIsExact

-------------------------------------------------------------------------------
(* Draining.                                                               *)

\* What was there when the poll began is part of what waits.
OldInv == \A side \in Buses : old[side] <= Len(inbox[side])

LEMMA NextOldInv == TypeOK /\ OldInv /\ [Next]_vars => OldInv'
<1>. SUFFICES ASSUME TypeOK, OldInv, [Next]_vars, NEW side \in Buses
              PROVE  old'[side] <= Len(inbox'[side])
  BY DEF OldInv
<1>1. old[side] \in Nat /\ inbox[side] \in Seq(Inputs)
      /\ old[side] <= Len(inbox[side])
  BY DEF TypeOK, OldInv
<1>2. CASE UNCHANGED <<inbox, old>>
  BY <1>1, <1>2
<1>3. ASSUME NEW other \in Buses, NEW i \in Inputs, Arrive(other, i)
      PROVE  old'[side] <= Len(inbox'[side])
  <2>1. inbox'[side] = IF side = other THEN Append(inbox[side], i) ELSE inbox[side]
    BY <1>3 DEF Arrive, TypeOK
  <2>2. old' = old
    BY <1>3 DEF Arrive, poll
  <2>. QED BY <1>1, <2>1, <2>2
<1>4. CASE BeginPoll
  BY <1>1, <1>4 DEF BeginPoll
<1>5. CASE PollFrame
  <2>1. /\ old'[side] = IF Takes(side) /\ old[side] > 0 THEN old[side] - 1 ELSE old[side]
        /\ inbox'[side] = IF side \in Asked THEN Rest(side) ELSE inbox[side]
    BY <1>5 DEF PollFrame, OldAfterRecv, InboxAfterRecv
  <2>2. CASE Takes(side)
    <3>1. inbox'[side] = Tail(inbox[side]) /\ inbox[side] # << >>
      BY <2>1, <2>2 DEF Takes, Rest
    <3>2. Len(inbox'[side]) = Len(inbox[side]) - 1 /\ Len(inbox[side]) \in Nat
      BY <1>1, <3>1
    <3>. QED BY <1>1, <2>1, <2>2, <3>2
  <2>3. CASE ~Takes(side)
    <3>1. inbox'[side] = inbox[side]
      BY <2>1, <2>3 DEF Takes, Rest
    <3>. QED BY <1>1, <2>1, <2>3, <3>1
  <2>. QED BY <2>2, <2>3
<1>6. CASE PollEnds
  <2>1. old'[side] = 0
    BY <1>6 DEF PollEnds
  <2>2. inbox'[side] \in Seq(Inputs)
    BY <1>6, RecvTyped DEF PollEnds
  <2>. QED BY <2>1, <2>2
<1>. QED BY <1>2, <1>3, <1>4, <1>5, <1>6 DEF Next, vars, poll, Subscribe, Unsubscribe,
            UnsubscribeAgain, Break, PollStep

\* What waits on a bus is a frame, a part of one or a fault.
LEMMA HeadKinds ==
    ASSUME TypeOK, NEW side \in Buses, inbox[side] # << >>
    PROVE  Head(inbox[side]).kind \in {"frame", "part", "fault"}
<1>1. inbox[side] \in Seq(Inputs)
  BY DEF TypeOK
<1>2. Head(inbox[side]) \in Inputs
  BY <1>1
<1>. QED BY <1>2 DEF Inputs, Frames

(* A poll that returns Ok has left nothing on either bus of what had come  *)
(* before it began, unless it ended on a part of a frame.                  *)
THEOREM BrokerPollDrainsBoth == Spec => PollDrainsBoth
<1>1. TypeOK /\ OldInv /\ [Next]_vars
        => [PollReturnsOk => Drained]_vars
  <2>. SUFFICES ASSUME TypeOK, OldInv, [Next]_vars, PollReturnsOk, NEW side \in Buses
                PROVE  ~Leftover(side)
    BY DEF Drained
  <2>1. PollEnds
    BY DEF PollReturnsOk, Next, vars, table, poll, Subscribe, Unsubscribe,
           UnsubscribeAgain, Arrive, Break, BeginPoll, PollStep, PollFrame
  <2>2. \A b \in Buses : Outcome(b) \in {"fault", "nothing", "frame"}
    <3>. SUFFICES ASSUME NEW b \in Buses
                  PROVE  Outcome(b) \in {"fault", "nothing", "frame"}
      OBVIOUS
    <3>1. CASE b \in broken \/ inbox[b] = << >>
      BY <3>1 DEF Outcome
    <3>2. CASE b \notin broken /\ inbox[b] # << >>
      BY <3>2, HeadKinds DEF Outcome
    <3>. QED BY <3>1, <3>2
  <2>3. Asked = Buses /\ Outcome("a") = "nothing" /\ Outcome("b") = "nothing"
    BY <2>1, <2>2 DEF PollReturnsOk, PollEnds, Answer, Asked, Buses
  <2>4. side \notin broken /\ inbox[side] = << >>
    <3>1. Outcome(side) = "nothing"
      BY <2>3 DEF Buses
    <3>2. side \notin broken
      BY <3>1 DEF Outcome
    <3>3. ASSUME inbox[side] # << >> PROVE FALSE
      <4>1. Head(inbox[side]).kind \in {"frame", "part", "fault"}
        BY <3>3, HeadKinds
      <4>2. Head(inbox[side]).kind = "part"
        BY <3>1, <3>2, <3>3, <4>1 DEF Outcome
      <4>3. TakesPart
        BY <2>3, <3>2, <3>3, <4>2 DEF TakesPart, Takes
      <4>. QED BY <4>3 DEF PollReturnsOk
    <3>. QED BY <3>2, <3>3
  <2>5. inbox'[side] = << >>
    BY <2>1, <2>3, <2>4 DEF PollEnds, InboxAfterRecv, Rest
  <2>6. old[side] \in Nat /\ old[side] <= Len(inbox[side]) /\ Len(inbox[side]) = 0
    BY <2>4 DEF TypeOK, OldInv
  <2>. QED BY <2>5, <2>6 DEF Leftover
<1>2. Init => OldInv
  BY DEF Init, OldInv
<1>. QED BY <1>1, <1>2, InitTypeOK, NextTypeOK, NextOldInv, PTL
         DEF Spec, PollDrainsBoth
================================================================================
