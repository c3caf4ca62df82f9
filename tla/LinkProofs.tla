----------------------------- MODULE LinkProofs -----------------------------
(***************************************************************************)
(* Proofs about the decoder of a line.  For every buffer size, every line, *)
(* every timing and every reset, the bytes stored are those of one         *)
(* uninterrupted stretch of the line, and what unpack_cb receives is a     *)
(* frame of it; the same holds behind the read loop of a port, where a     *)
(* frame that comes in time is delivered.                                  *)
(***************************************************************************)
EXTENDS Link, DefaultPackagerProofs


\* The last byte is awaited behind exactly the bytes before it.
LastAwaited == waiting_byte = 14 => Len(unpack_buf) = 13 + unpacked_pkg.data_len

\* The stored bytes are the last bytes of the line.
Contiguous ==
  /\ Len(unpack_buf) <= pos
  /\ \A i \in 1..Len(unpack_buf) : unpack_buf[i] = line[pos - Len(unpack_buf) + i]

\* No stored byte belongs to a package already delivered.
SpansBehind ==
  \A k \in DOMAIN spans : spans[k].last <= pos - Len(unpack_buf)

\* The inductive invariant of the buffer, and the one of the whole module.
BufferInv == TypeOK /\ DecoderInv /\ LastAwaited /\ Contiguous
StreamInv == BufferInv /\ SpansBehind /\ DeliveredOnce

-----------------------------------------------------------------------------
\* The enumerators and the sizes are numbers here too.
USE DEF PACK_BYTE_MAGIC_HEAD_1, PACK_BYTE_MAGIC_HEAD_2, PACK_BYTE_SENDER_HOST_ID,
        PACK_BYTE_TARGET_HOST_ID, PACK_BYTE_MSG_ID_HIGH, PACK_BYTE_MSG_ID_LOW,
        PACK_BYTE_DATA_LEN_HIGH, PACK_BYTE_DATA_LEN_LOW, PACK_BYTE_SEQ,
        PACK_BYTE_EX_FLAG, PACK_BYTE_RSVD1, PACK_BYTE_RSVD2, PACK_BYTE_DATA,
        PACK_BYTE_CRC16_HIGH, PACK_BYTE_CRC16_LOW, HeaderSize, CrcSize

\* What the proofs use of the types, with ranges as inequalities.
LEMMA LineFacts ==
  ASSUME BufferInv
  PROVE  /\ line \in Seq(Byte) /\ Len(line) \in Nat
         /\ pos \in Nat /\ pos <= Len(line)
         /\ pos < Len(line) => line[pos + 1] \in Byte
         /\ Len(unpack_buf) \in Nat /\ Len(unpack_buf) <= pos
<1>1. line \in Seq(Byte)  BY LinesAssumption DEF BufferInv, TypeOK
<1>2. pos \in 0..Len(line)  BY DEF BufferInv, TypeOK
<1>3. Len(unpack_buf) \in Nat /\ Len(unpack_buf) <= pos
  BY DecoderFacts DEF BufferInv, Contiguous
<1>. QED  BY <1>1, <1>2, <1>3

\* The buffer as the run's invariant states it.
LEMMA PositionKnown ==
  ASSUME BufferInv
  PROVE  BufferPosition
<1>1. DecoderInv /\ LastAwaited  BY DEF BufferInv
<1>2. CASE waiting_byte <= 11
  BY <1>1, <1>2, DecoderFacts, BufSizeAssumption DEF DecoderInv, Position, BufferPosition
<1>3. CASE waiting_byte = 12
  BY <1>1, <1>3, DecoderFacts, BufSizeAssumption DEF DecoderInv, Position, BufferPosition
<1>4. CASE waiting_byte = 13
  BY <1>1, <1>4, DecoderFacts, BufSizeAssumption DEF DecoderInv, Position, BufferPosition
<1>5. CASE waiting_byte = 14
  BY <1>1, <1>5, DecoderFacts, BufSizeAssumption
     DEF DecoderInv, Position, BufferPosition, LastAwaited
<1>. QED  BY <1>1, <1>2, <1>3, <1>4, <1>5, DecoderFacts

-----------------------------------------------------------------------------
(* A byte arrives.                                                         *)
ByteArrives == BufferInv /\ pos < Len(line) /\ pos' = pos + 1 /\ line' = line

LEMMA StoredAppends ==
  ASSUME ByteArrives
  PROVE  /\ line[pos + 1] \in Byte
         /\ Stored(line[pos + 1]) \in Seq(Byte)
         /\ Len(Stored(line[pos + 1])) = Len(unpack_buf) + 1
         /\ \A i \in 1..Len(unpack_buf) : Stored(line[pos + 1])[i] = unpack_buf[i]
         /\ Stored(line[pos + 1])[Len(unpack_buf) + 1] = line[pos + 1]
<1>1. DecoderInv /\ line[pos + 1] \in Byte
  BY LineFacts DEF ByteArrives, BufferInv
<1>2. waiting_byte < 14 \/ Len(unpack_buf) = 13 + unpacked_pkg.data_len
  BY <1>1, DecoderFacts DEF ByteArrives, BufferInv, LastAwaited
<1>. QED  BY <1>1, <1>2, DecoderStores

LEMMA ContiguousGivenUp ==
  ASSUME GivenUp, pos' \in Nat
  PROVE  Contiguous'
  BY DEF GivenUp, Contiguous

LEMMA ContiguousAppended ==
  ASSUME ByteArrives, unpack_buf' = Stored(line[pos + 1])
  PROVE  Contiguous'
<1> DEFINE n == Len(unpack_buf)
<1>1. /\ Len(unpack_buf') = n + 1
      /\ \A i \in 1..n : unpack_buf'[i] = unpack_buf[i]
      /\ unpack_buf'[n + 1] = line[pos + 1]
  BY StoredAppends
<1>2. n \in Nat /\ n <= pos /\ pos \in Nat
  BY LineFacts DEF ByteArrives
<1>3. \A i \in 1..n : unpack_buf[i] = line[pos - n + i]
  BY DEF ByteArrives, BufferInv, Contiguous
<1>4. ASSUME NEW i \in 1..(n + 1)
      PROVE  unpack_buf'[i] = line'[pos' - (n + 1) + i]
  <2>1. CASE i = n + 1  BY <2>1, <1>1, <1>2 DEF ByteArrives
  <2>2. CASE i \in 1..n  BY <2>2, <1>1, <1>2, <1>3 DEF ByteArrives
  <2>. QED  BY <1>2, <2>1, <2>2
<1>. QED  BY <1>1, <1>2, <1>4 DEF Contiguous, ByteArrives

LEMMA ContiguousStays ==
  ASSUME ByteArrives, Stays(line[pos + 1])
  PROVE  Contiguous'
<1>1. /\ unpack_buf' = unpack_buf /\ Len(unpack_buf) = 1 /\ unpack_buf[1] = MAGIC_1
      /\ line[pos + 1] = MAGIC_1
  BY DEF ByteArrives, BufferInv, DecoderInv, Position, HeaderIs, Stays
<1>. QED  BY <1>1, LineFacts DEF ByteArrives, Contiguous

LEMMA RunShape ==
  ASSUME ByteArrives, unpack_run(line[pos + 1])
  PROVE  /\ (DecoderInv /\ LastAwaited /\ Contiguous)'
         /\ Len(unpack_buf') \in Nat /\ Len(unpack_buf') <= Len(unpack_buf) + 1
<1> DEFINE byte == line[pos + 1]
<1>1. DecoderInv /\ byte \in Byte
  BY StoredAppends DEF ByteArrives, BufferInv
<1>2. /\ (DecoderInv /\ LastAwaited)'
      /\ GivenUp \/ Stores(byte) \/ Stays(byte)
  BY <1>1, DecoderStep DEF LastAwaited
<1>3. pos' \in Nat /\ Len(unpack_buf) \in Nat
  BY LineFacts DEF ByteArrives
<1>4. CASE GivenUp
  BY <1>2, <1>3, <1>4, ContiguousGivenUp DEF GivenUp
<1>5. CASE Stores(byte)
  BY <1>2, <1>3, <1>5, ContiguousAppended, StoredAppends DEF Stores
<1>6. CASE Stays(byte)
  BY <1>2, <1>3, <1>6, ContiguousStays DEF Stays
<1>. QED  BY <1>2, <1>4, <1>5, <1>6

-----------------------------------------------------------------------------
(* Types.                                                                  *)
\* The start time is one the clock has shown.
LEMMA StartTimeType ==
  ASSUME TypeOK, NEW byte, unpack_run(byte)
  PROVE  wait_start_time_ms' \in 0..(TimeMod - 1)
<1>1. wait_start_time_ms \in 0..(TimeMod - 1) /\ now \in 0..(TimeMod - 1)
  BY DEF TypeOK
<1>2. \A next, bytes, since : Advance(next, bytes, since) => wait_start_time_ms' \in {now, since}
  BY DEF Advance
<1>3. wait_start_time_ms' \in {now, wait_start_time_ms}
  BY <1>2 DEF unpack_run, AwaitMagic1, AwaitMagic2, AwaitHeaderByte,
     AwaitDataLenLow, AwaitRsvd2, AwaitData, AwaitCrcHigh, AwaitCrcLow
<1>. QED  BY <1>1, <1>3

-----------------------------------------------------------------------------
(* Delivery: the last byte of a packet whose checksum is right.            *)
LEMMA StoredIsSpan ==
  ASSUME ByteArrives, AwaitCrcLow(line[pos + 1])
  PROVE  /\ pos + 1 - Len(unpack_buf) \in 1..(pos + 1)
         /\ SubSeq(line, pos + 1 - Len(unpack_buf), pos + 1) = Stored(line[pos + 1])
<1> DEFINE n == Len(unpack_buf)
           f == SubSeq(line, pos + 1 - n, pos + 1)
           b == Stored(line[pos + 1])
<1>1. /\ n \in Nat /\ pos \in Nat /\ n <= pos
      /\ \A i \in 1..n : unpack_buf[i] = line[pos - n + i]
  BY LineFacts DEF ByteArrives, BufferInv, Contiguous
<1>2. line \in Seq(Byte) /\ pos + 1 <= Len(line) /\ Len(line) \in Nat
  BY LineFacts DEF ByteArrives
<1>3. /\ b \in Seq(Byte) /\ Len(b) = n + 1 /\ b[n + 1] = line[pos + 1]
      /\ \A i \in 1..n : b[i] = unpack_buf[i]
  BY StoredAppends
<1>4. /\ f \in Seq(Byte) /\ Len(f) = n + 1
      /\ \A i \in 1..(n + 1) : f[i] = line[pos - n + i]
  BY ONLY <1>1, <1>2
<1>5. \A i \in 1..(n + 1) : f[i] = b[i]
  <2>1. ASSUME NEW i \in 1..(n + 1) PROVE f[i] = b[i]
    <3>1. CASE i = n + 1
      <4>1. pos - n + i = pos + 1 /\ f[i] = line[pos - n + i]
        BY <3>1, <1>1, <1>4
      <4>. QED  BY ONLY <3>1, <4>1, <1>3
    <3>2. CASE i \in 1..n  BY <3>2, <1>1, <1>3, <1>4
    <3>. QED  BY <1>1, <3>1, <3>2
  <2>. QED  BY <2>1
<1>6. f = b
  <2> HIDE DEF f, b
  <2>. QED  BY <1>1, <1>3, <1>4, <1>5
<1>. QED  BY <1>1, <1>6

LEMMA DeliveredIsFrame ==
  ASSUME ByteArrives, AwaitCrcLow(line[pos + 1]), CrcMatches(Stored(line[pos + 1])),
         UnpackBufSize <= 65537
  PROVE  /\ IsFrame(Stored(line[pos + 1]))
         /\ PkgWithData(unpacked_pkg, Stored(line[pos + 1])) = FramePkg(Stored(line[pos + 1]))
<1> DEFINE b == Stored(line[pos + 1])
<1>1. /\ DecoderInv /\ waiting_byte = 14 /\ line[pos + 1] \in Byte
      /\ Len(unpack_buf) = 13 + unpacked_pkg.data_len
  BY StoredAppends DEF ByteArrives, BufferInv, LastAwaited, AwaitCrcLow
<1>2. /\ b \in Seq(Byte) /\ unpacked_pkg.data_len \in Nat
  BY <1>1, StoredAppends, DecoderFacts
<1>3. IsFrame(b) /\ Len(b) = 14 + unpacked_pkg.data_len /\ HeaderIs(b, unpacked_pkg, 14)
  BY <1>1, CompleteIsFrame
<1> HIDE DEF b
<1>4. /\ unpacked_pkg.sender_host_id = b[3] /\ unpacked_pkg.target_host_id = b[4]
      /\ unpacked_pkg.msg_id = 256 * b[5] + b[6]
      /\ unpacked_pkg.data_len = 256 * b[7] + b[8]
      /\ unpacked_pkg.seq = b[9]
  BY <1>3 DEF HeaderIs
<1>5. /\ unpacked_pkg.need_ack = b[10] % 2
      /\ unpacked_pkg.is_ack = (b[10] \div 2) % 2
      /\ unpacked_pkg.forword_cnt = (b[10] \div 4) % 16
  BY <1>3 DEF HeaderIs
<1>6. SubSeq(b, HeaderSize + 1, HeaderSize + unpacked_pkg.data_len)
        = SubSeq(b, 13, 12 + 256 * b[7] + b[8])
  <2>1. b[7] \in Nat /\ b[8] \in Nat
    <3>1. 7 \in 1..Len(b) /\ 8 \in 1..Len(b)
      BY ONLY <1>2, <1>3
    <3>2. b[7] \in Byte /\ b[8] \in Byte
      BY ONLY <1>2, <3>1
    <3>. QED  BY <3>2, ByteRange
  <2>2. HeaderSize + 1 = 13 /\ HeaderSize + unpacked_pkg.data_len = 12 + 256 * b[7] + b[8]
    BY <1>4, <2>1
  <2>. QED  BY ONLY <2>2
<1>7. PkgWithData(unpacked_pkg, b) = FramePkg(b)
  BY ONLY <1>4, <1>5, <1>6, Zenon DEF PkgWithData, FramePkg
<1>. QED  BY <1>3, <1>7 DEF b

LEMMA DeliveredType ==
  ASSUME ByteArrives, AwaitCrcLow(line[pos + 1])
  PROVE  PkgWithData(unpacked_pkg, Stored(line[pos + 1])) \in Packages
<1>1. /\ unpacked_pkg \in PkgFields /\ unpacked_pkg.data_len \in Nat
      /\ Len(unpack_buf) = 13 + unpacked_pkg.data_len
  BY DecoderFacts DEF ByteArrives, BufferInv, LastAwaited, AwaitCrcLow
<1>2. /\ Stored(line[pos + 1]) \in Seq(Byte)
      /\ Len(Stored(line[pos + 1])) = Len(unpack_buf) + 1
  BY StoredAppends
<1>. QED  BY <1>1, <1>2, PkgWithDataType

\* What Feed does to out and spans.
Delivers ==
  /\ AwaitCrcLow(line[pos + 1])
  /\ CrcMatches(Stored(line[pos + 1]))
  /\ out' = Append(out, PkgWithData(unpacked_pkg, Stored(line[pos + 1])))
  /\ spans' = Append(spans, [first |-> pos + 1 - Len(unpack_buf), last |-> pos + 1])

LEMMA FeedOutput ==
  ASSUME BufferInv, Feed
  PROVE  Delivers \/ (out' = out /\ spans' = spans)
<1>1. CASE out' = out  BY <1>1 DEF Feed
<1>2. CASE out' # out
  <2>1. spans' = Append(spans, [first |-> pos + 1 - Len(unpack_buf), last |-> pos + 1])
    BY <1>2 DEF Feed
  <2>2. AwaitCrcLow(line[pos + 1])
    BY <1>2 DEF Feed, unpack_run, AwaitMagic1, AwaitMagic2, AwaitHeaderByte,
                AwaitDataLenLow, AwaitRsvd2, AwaitData, AwaitCrcHigh
  <2>. QED  BY <2>1, <2>2, <1>2 DEF Delivers, AwaitCrcLow
<1>. QED  BY <1>1, <1>2

LEMMA FeedArrives ==
  ASSUME BufferInv, Feed
  PROVE  ByteArrives
  BY DEF Feed, ByteArrives

LEMMA FeedBuffer ==
  ASSUME BufferInv, Feed
  PROVE  BufferInv'
<1>1. ByteArrives /\ unpack_run(line[pos + 1])
  BY FeedArrives DEF Feed
<1>2. (DecoderInv /\ LastAwaited /\ Contiguous)'
  BY <1>1, RunShape
<1>3. /\ out \in Seq(Packages) /\ spans \in Seq(Spans) /\ Len(out) = Len(spans)
      /\ now \in 0..(TimeMod - 1) /\ line \in Lines /\ pos \in 0..Len(line)
  BY DEF BufferInv, TypeOK
<1>4. out' \in Seq(Packages) /\ spans' \in Seq(Spans) /\ Len(out') = Len(spans')
  <2>1. CASE Delivers
    <3>1. pos + 1 - Len(unpack_buf) \in 1..(pos + 1) /\ pos + 1 \in Nat
      BY <1>1, <1>3, <2>1, StoredIsSpan DEF Delivers
    <3>2. [first |-> pos + 1 - Len(unpack_buf), last |-> pos + 1] \in Spans
      BY <3>1 DEF Spans
    <3>3. PkgWithData(unpacked_pkg, Stored(line[pos + 1])) \in Packages
      BY <1>1, <2>1, DeliveredType DEF Delivers
    <3>. QED  BY <1>3, <2>1, <3>2, <3>3 DEF Delivers
  <2>. QED  BY <1>3, <2>1, FeedOutput
<1>5. now' = now /\ line' = line /\ pos' \in 0..Len(line)
  BY <1>3, LinesAssumption DEF Feed, unpack_run
<1>6. wait_start_time_ms' \in 0..(TimeMod - 1)
  BY <1>1, StartTimeType DEF BufferInv
<1>7. TypeOK'
  BY <1>2, <1>3, <1>4, <1>5, <1>6 DEF TypeOK, DecoderInv
<1>. QED  BY <1>2, <1>7 DEF BufferInv

LEMMA ResetBuffer ==
  ASSUME BufferInv, Reset
  PROVE  BufferInv' /\ Len(unpack_buf') = 0
<1>1. GivenUp /\ pos' = pos /\ line' = line
  BY DEF Reset, reset, GivenUp
<1>2. wait_unpack_data_len' \in Word16 /\ unpacked_pkg' \in PkgFields
  BY DEF BufferInv, DecoderInv, Reset, reset
<1>3. (DecoderInv /\ LastAwaited /\ Contiguous)'
  BY <1>1, <1>2, DecoderGivenUp, ContiguousGivenUp, LineFacts
     DEF BufferInv, LastAwaited, GivenUp
<1>4. TypeOK'
  BY DEF BufferInv, TypeOK, Reset, reset
<1>. QED  BY <1>1, <1>3, <1>4 DEF BufferInv, GivenUp

LEMMA TickBuffer ==
  ASSUME BufferInv, Tick
  PROVE  BufferInv'
<1>1. now' \in 0..(TimeMod - 1)
  BY TimeAssumption DEF BufferInv, TypeOK, Tick
<1>2. TypeOK'
  BY <1>1 DEF BufferInv, TypeOK, Tick, implVars
<1>3. (DecoderInv /\ LastAwaited /\ Contiguous)'
  BY DEF BufferInv, DecoderInv, Position, HeaderIs, LastAwaited, Contiguous, Tick, implVars
<1>. QED  BY <1>2, <1>3 DEF BufferInv

-----------------------------------------------------------------------------
(* The spans.                                                              *)
LEMMA SpanTypes ==
  ASSUME spans \in Seq(Spans)
  PROVE  \A k \in DOMAIN spans : spans[k].first \in Nat /\ spans[k].last \in Nat
<1>1. \A k \in DOMAIN spans : spans[k] \in Spans
  OBVIOUS
<1>2. \A sp \in Spans : sp.first \in Nat /\ sp.last \in Nat
  BY DEF Spans
<1>. QED  BY ONLY <1>1, <1>2

LEMMA FeedSpans ==
  ASSUME StreamInv, Feed
  PROVE  SpansBehind' /\ DeliveredOnce'
<1>1. BufferInv /\ ByteArrives /\ unpack_run(line[pos + 1])
  BY FeedArrives DEF StreamInv, Feed
<1>2. /\ spans \in Seq(Spans) /\ pos \in Nat /\ pos' = pos + 1
      /\ Len(unpack_buf) \in Nat /\ Len(unpack_buf) <= pos
  BY <1>1, LineFacts DEF BufferInv, TypeOK, ByteArrives
<1>3. \A k \in DOMAIN spans : /\ spans[k].first \in Nat /\ spans[k].last \in Nat
                             /\ spans[k].last <= pos - Len(unpack_buf)
  BY <1>2, SpanTypes DEF StreamInv, SpansBehind
<1>4. CASE Delivers
  <2> DEFINE n == Len(spans)
             new == [first |-> pos + 1 - Len(unpack_buf), last |-> pos + 1]
  <2>1. /\ spans' = Append(spans, new) /\ n \in Nat /\ DOMAIN spans = 1..n
        /\ DOMAIN spans' = 1..(n + 1) /\ spans'[n + 1] = new
        /\ \A k \in 1..n : spans'[k] = spans[k]
    BY <1>2, <1>4 DEF Delivers
  <2>2. Len(unpack_buf') = 0
    BY <1>1, <1>4, CrcLowStep DEF Delivers, GivenUp, BufferInv
  <2>3. SpansBehind'
    <3>1. ASSUME NEW k \in 1..(n + 1) PROVE spans'[k].last <= pos + 1
      BY <2>1, <1>2, <1>3
    <3>. QED  BY <3>1, <2>1, <2>2, <1>2 DEF SpansBehind
  <2>4. DeliveredOnce'
    <3>1. ASSUME NEW k \in 1..(n + 1), NEW m \in 1..(n + 1), k < m
          PROVE  spans'[k].last < spans'[m].first
      <4>1. k \in 1..n  BY <3>1, <2>1
      <4>2. CASE m = n + 1
        BY <4>1, <4>2, <2>1, <1>2, <1>3
      <4>3. CASE m \in 1..n
        BY <4>1, <4>3, <3>1, <2>1 DEF StreamInv, DeliveredOnce
      <4>. QED  BY <4>2, <4>3, <2>1
    <3>. QED  BY <3>1, <2>1 DEF DeliveredOnce
  <2>. QED  BY <2>3, <2>4
<1>5. CASE spans' = spans
  <2>1. Len(unpack_buf') \in Nat /\ pos' - Len(unpack_buf') >= pos - Len(unpack_buf)
    <3>1. Len(unpack_buf') <= Len(unpack_buf) + 1 /\ Len(unpack_buf') \in Nat
      BY <1>1, RunShape
    <3>. QED  BY <3>1, <1>2
  <2>2. SpansBehind'
    BY <2>1, <1>2, <1>3, <1>5 DEF SpansBehind
  <2>3. DeliveredOnce'
    BY <1>5 DEF StreamInv, DeliveredOnce
  <2>. QED  BY <2>2, <2>3
<1>. QED  BY <1>1, <1>4, <1>5, FeedOutput

LEMMA StreamStep ==
  ASSUME StreamInv, [Next]_vars
  PROVE  StreamInv'
<1>1. CASE Feed
  BY <1>1, FeedBuffer, FeedSpans DEF StreamInv
<1>2. CASE Reset
  <2>1. BufferInv' /\ Len(unpack_buf') = 0 /\ pos' = pos /\ spans' = spans
    BY <1>2, ResetBuffer DEF StreamInv, Reset
  <2>2. Len(unpack_buf) \in Nat /\ pos \in Nat
    BY LineFacts DEF StreamInv
  <2>3. \A k \in DOMAIN spans : spans[k].last \in Nat /\ spans[k].last <= pos - Len(unpack_buf)
    BY SpanTypes DEF StreamInv, BufferInv, TypeOK, SpansBehind
  <2>4. SpansBehind'
    BY <2>1, <2>2, <2>3 DEF SpansBehind
  <2>5. DeliveredOnce'
    BY <2>1 DEF StreamInv, DeliveredOnce
  <2>. QED  BY <2>1, <2>4, <2>5 DEF StreamInv
<1>3. CASE Tick
  <2>1. BufferInv'  BY <1>3, TickBuffer DEF StreamInv
  <2>2. (SpansBehind /\ DeliveredOnce)'
    BY <1>3 DEF StreamInv, SpansBehind, DeliveredOnce, Tick, implVars
  <2>. QED  BY <2>1, <2>2 DEF StreamInv
<1>4. CASE UNCHANGED vars
  BY <1>4 DEF StreamInv, BufferInv, TypeOK, DecoderInv, Position, HeaderIs, LastAwaited,
              Contiguous, SpansBehind, DeliveredOnce, vars, implVars
<1>. QED  BY <1>1, <1>2, <1>3, <1>4 DEF Next

LEMMA StreamInit == Init => StreamInv
<1> SUFFICES ASSUME Init PROVE StreamInv
  OBVIOUS
<1>1. Len(unpack_buf) = 0 /\ waiting_byte = 0 /\ pos = 0
  BY DEF Init, ImplInit
<1>2. line \in Lines /\ line \in Seq(Byte)
  BY LinesAssumption DEF Init
<1>3. unpacked_pkg \in PkgFields
  BY ByteRange, WordRange DEF Init, ImplInit, PkgFields
<1>4. wait_unpack_data_len \in Word16
  BY WordRange DEF Init, ImplInit
<1>5. TypeOK
  BY <1>1, <1>2, <1>3, <1>4, TimeAssumption DEF TypeOK, Init, ImplInit
<1>6. DecoderInv /\ LastAwaited /\ Contiguous
  BY <1>1, <1>5 DEF TypeOK, DecoderInv, Position, HeaderIs, LastAwaited, Contiguous
<1>7. SpansBehind /\ DeliveredOnce
  BY DEF SpansBehind, DeliveredOnce, Init
<1>. QED  BY <1>5, <1>6, <1>7 DEF StreamInv, BufferInv

(* For every buffer of at least 14 bytes, every line and every timing: the *)
(* decoder's state is of the right type, what it has stored is what the    *)
(* awaited byte says, with room for the rest (nano_net_default_packager.c, *)
(* unpack_run), and no byte of the line serves two packages.               *)
THEOREM StreamSafe == Spec => [](TypeOK /\ BufferPosition /\ DeliveredOnce)
<1>1. StreamInv => TypeOK /\ BufferPosition /\ DeliveredOnce
  BY PositionKnown DEF StreamInv, BufferInv
<1>. QED  BY <1>1, StreamInit, StreamStep, PTL DEF Spec

(* The two parts of StreamSafe that say what the decoder's state is.       *)
THEOREM StreamTypes == Spec => []TypeOK
  BY StreamSafe, PTL

(* However the line, the clock and the resets fall: what is stored follows *)
(* from what is awaited (unpack_run), so no byte is dropped for want of    *)
(* room and the count of data bytes never wraps.                           *)
THEOREM StreamPosition == Spec => []BufferPosition
  BY StreamSafe, PTL

-----------------------------------------------------------------------------
LEMMA FeedFrames ==
  ASSUME StreamInv, DeliveredAreFrames, Feed, UnpackBufSize <= 65537
  PROVE  DeliveredAreFrames'
<1>1. BufferInv /\ ByteArrives
  BY FeedArrives DEF StreamInv
<1>2. /\ out \in Seq(Packages) /\ spans \in Seq(Spans) /\ Len(out) = Len(spans)
      /\ pos \in Nat /\ pos' = pos + 1 /\ line' = line
  BY <1>1, LineFacts DEF BufferInv, TypeOK, ByteArrives
<1> DEFINE Good(s, p) ==
      LET f == SubSeq(line, s.first, s.last)
      IN  s.first \in 1..s.last /\ IsFrame(f) /\ p = FramePkg(f)
<1>3. \A k \in DOMAIN out : Good(spans[k], out[k]) /\ spans[k].last <= pos
  BY DEF DeliveredAreFrames
<1>4. ASSUME \A k \in DOMAIN out' : Good(spans'[k], out'[k]) /\ spans'[k].last <= pos + 1
      PROVE  DeliveredAreFrames'
  BY <1>2, <1>4 DEF DeliveredAreFrames
<1>5. \A k \in DOMAIN spans : spans[k].last \in Nat
  BY <1>2, SpanTypes
<1>6. CASE Delivers
  <2> DEFINE n == Len(out)
             new == [first |-> pos + 1 - Len(unpack_buf), last |-> pos + 1]
             pkg == PkgWithData(unpacked_pkg, Stored(line[pos + 1]))
  <2>1. /\ n \in Nat /\ DOMAIN out = 1..n /\ DOMAIN spans = 1..n
        /\ DOMAIN out' = 1..(n + 1)
        /\ out'[n + 1] = pkg /\ spans'[n + 1] = new
        /\ \A k \in 1..n : out'[k] = out[k] /\ spans'[k] = spans[k]
    BY <1>2, <1>6 DEF Delivers
  <2>2. /\ pos + 1 - Len(unpack_buf) \in 1..(pos + 1)
        /\ SubSeq(line, pos + 1 - Len(unpack_buf), pos + 1) = Stored(line[pos + 1])
    BY <1>1, <1>6, StoredIsSpan DEF Delivers
  <2>3. /\ IsFrame(Stored(line[pos + 1]))
        /\ pkg = FramePkg(Stored(line[pos + 1]))
    BY <1>1, <1>6, DeliveredIsFrame DEF Delivers
  <2>4. Good(new, pkg) /\ new.last <= pos + 1
    <3>1. new.first \in 1..new.last /\ new.last <= pos + 1
      BY <1>2, <2>2
    <3> DEFINE f == SubSeq(line, new.first, new.last)
               b == Stored(line[pos + 1])
    <3>2. f = b
      BY <2>2
    <3> HIDE DEF f, b, pkg
    <3>3. IsFrame(f) /\ pkg = FramePkg(f)
      BY ONLY <2>3, <3>2 DEF b
    <3>. QED  BY ONLY <3>1, <3>3 DEF f
  <2> HIDE DEF Good, new, pkg
  <2>5. ASSUME NEW k \in 1..(n + 1)
        PROVE  Good(spans'[k], out'[k]) /\ spans'[k].last <= pos + 1
    <3>1. CASE k = n + 1  BY <3>1, <2>1, <2>4
    <3>2. CASE k \in 1..n  BY <3>2, <2>1, <1>2, <1>3, <1>5, SMTT(30)
    <3>. QED  BY <3>1, <3>2, <2>1
  <2>. QED  BY <2>1, <2>5, <1>4
<1>7. CASE out' = out /\ spans' = spans
  <2> HIDE DEF Good
  <2>1. \A k \in DOMAIN out : spans[k].last \in Nat
    BY <1>2, <1>5
  <2>. QED  BY <2>1, <1>2, <1>3, <1>4, <1>7
<1>. QED  BY <1>1, <1>6, <1>7, FeedOutput

(* For every buffer size up to 65537 (beyond it the uint16_t length handed *)
(* to nano_net_crc16 wraps): what unpack_cb receives is a well-formed      *)
(* frame of the line, undamaged, with the fields of that frame.            *)
THEOREM StreamDelivers ==
  ASSUME UnpackBufSize <= 65537
  PROVE  Spec => []DeliveredAreFrames
<1>1. Init => DeliveredAreFrames
  BY DEF Init, ImplInit, DeliveredAreFrames
<1>2. StreamInv /\ DeliveredAreFrames /\ [Next]_vars => DeliveredAreFrames'
  <2> SUFFICES ASSUME StreamInv, DeliveredAreFrames, [Next]_vars
               PROVE  DeliveredAreFrames'
    OBVIOUS
  <2>1. CASE Feed  BY <2>1, FeedFrames
  <2>2. CASE Reset
    BY <2>2 DEF Reset, reset, DeliveredAreFrames
  <2>3. CASE Tick
    BY <2>3 DEF Tick, implVars, DeliveredAreFrames
  <2>4. CASE UNCHANGED vars
    BY <2>4 DEF vars, implVars, DeliveredAreFrames
  <2>. QED  BY <2>1, <2>2, <2>3, <2>4 DEF Next
<1>. QED  BY <1>1, <1>2, StreamInit, StreamStep, PTL DEF Spec
-----------------------------------------------------------------------------
(* Behind the read loop of a port.                                         *)


LEMMA LinkStep == [LinkNext]_linkVars => [Next]_vars
<1> SUFFICES ASSUME [LinkNext]_linkVars PROVE [Next]_vars
  OBVIOUS
<1>1. CASE Run  BY <1>1 DEF Run
<1>2. CASE Read  BY <1>2 DEF Read
<1>3. CASE Unpack  BY <1>3 DEF Unpack, Next
<1>4. CASE EndOfChunk  BY <1>4 DEF EndOfChunk
<1>5. CASE CheckSilence  BY <1>5 DEF CheckSilence, Next
<1>6. CASE Arrive  BY <1>6 DEF Arrive
<1>7. CASE Clock  BY <1>7 DEF Clock, Next
<1>8. CASE UNCHANGED linkVars  BY <1>8 DEF linkVars
<1>. QED  BY <1>1, <1>2, <1>3, <1>4, <1>5, <1>6, <1>7, <1>8 DEF LinkNext, Running

(* The read loop of a port drives its decoder only in ways UnpackStream    *)
(* allows: a port's decoder implements it.                                 *)
THEOREM LinkImplementsStream == LinkSpec => Spec
<1>1. LinkInit => Init
  BY DEF LinkInit
<1>. QED  BY <1>1, LinkStep, PTL DEF LinkSpec, Spec

(* Behind a port, whatever the line carries and whenever the host runs:    *)
(* the decoder stays inside its buffer and delivers only packets that were *)
(* received whole, each of them once.                                      *)
THEOREM LinkSafe ==
  ASSUME UnpackBufSize <= 65537
  PROVE  LinkSpec => [](BufferPosition /\ DeliveredOnce /\ DeliveredAreFrames)
<1>1. Spec => [](BufferPosition /\ DeliveredOnce)
  BY StreamSafe, PTL
<1>2. Spec => []DeliveredAreFrames
  BY StreamDelivers
<1>. QED  BY <1>1, <1>2, LinkImplementsStream, PTL
-----------------------------------------------------------------------------
(* Times on a clock that goes round.                                       *)

\* The prover is told about % by name only: the modulus is not a number.
LEMMA ModSmall == ASSUME NEW n \in Nat, NEW m \in Nat, n < m PROVE n % m = n
  OBVIOUS
LEMMA ModNegative ==
  ASSUME NEW n \in Int, NEW m \in Nat, n < 0, n + m >= 0 PROVE n % m = n + m
  OBVIOUS

Time == 0..(TimeMod - 1)

LEMMA Elapsed ==
  ASSUME NEW n \in Time, NEW t \in Time
  PROVE  (n - t) % TimeMod = IF n >= t THEN n - t ELSE n - t + TimeMod
<1>1. TimeMod \in Nat /\ n \in Nat /\ t \in Nat /\ n < TimeMod /\ t < TimeMod
  BY TimeAssumption DEF Time
<1>2. CASE n >= t
  <2>1. n - t \in Nat /\ n - t < TimeMod
    BY <1>1, <1>2
  <2>. QED  BY <1>1, <1>2, <2>1, ModSmall
<1>3. CASE ~(n >= t)
  <2>1. n - t \in Int /\ n - t < 0 /\ n - t + TimeMod >= 0
    BY <1>1, <1>3
  <2>. QED  BY <1>1, <1>3, <2>1, ModNegative
<1>. QED  BY <1>2, <1>3

LEMMA ElapsedRange ==
  ASSUME NEW n \in Time, NEW t \in Time
  PROVE  /\ (n - t) % TimeMod \in Nat /\ (n - t) % TimeMod < TimeMod
         /\ (n - n) % TimeMod = 0
<1>1. TimeMod \in Nat /\ n \in Nat /\ t \in Nat /\ n < TimeMod /\ t < TimeMod
  BY TimeAssumption DEF Time
<1>2. (n - n) % TimeMod = IF n >= n THEN n - n ELSE n - n + TimeMod
  BY Elapsed
<1> DEFINE e == (n - t) % TimeMod
<1>3. e = IF n >= t THEN n - t ELSE n - t + TimeMod
  BY Elapsed
<1> HIDE DEF e
<1>4. e \in Nat /\ e < TimeMod
  BY <1>1, <1>3
<1>5. (n - n) % TimeMod = 0
  BY <1>1, <1>2
<1>. QED  BY <1>4, <1>5 DEF e

\* A tick later one more has passed, or none when the clock has gone round.
LEMMA ElapsedTick ==
  ASSUME NEW n \in Time, NEW t \in Time, NEW n1, n1 = (n + 1) % TimeMod
  PROVE  /\ n1 \in Time
         /\ (n1 - t) % TimeMod = IF (n - t) % TimeMod = TimeMod - 1 THEN 0
                                 ELSE ((n - t) % TimeMod) + 1
<1>1. TimeMod \in Nat /\ n \in Nat /\ t \in Nat /\ n < TimeMod /\ t < TimeMod
  BY TimeAssumption DEF Time
<1>2. n1 = IF n + 1 = TimeMod THEN 0 ELSE n + 1
  <2>1. CASE n + 1 = TimeMod
    <3>1. TimeMod % TimeMod = 0
      BY <1>1, TimeAssumption
    <3>. QED  BY <2>1, <3>1
  <2>2. CASE n + 1 # TimeMod
    <3>1. n + 1 \in Nat /\ n + 1 < TimeMod
      BY <1>1, <2>2
    <3>. QED  BY <1>1, <2>2, <3>1, ModSmall
  <2>. QED  BY <2>1, <2>2
<1>3. n1 \in Time
  BY <1>1, <1>2 DEF Time
<1> DEFINE e == (n - t) % TimeMod
           e1 == (n1 - t) % TimeMod
<1>4. e = IF n >= t THEN n - t ELSE n - t + TimeMod
  BY Elapsed
<1>5. e1 = IF n1 >= t THEN n1 - t ELSE n1 - t + TimeMod
  BY <1>3, Elapsed
<1> HIDE DEF e, e1
<1>6. e1 = IF e = TimeMod - 1 THEN 0 ELSE e + 1
  BY <1>1, <1>2, <1>4, <1>5
<1>. QED  BY <1>3, <1>6 DEF e, e1

-----------------------------------------------------------------------------
(* A frame on its way: the decoder has stored exactly its bytes so far,    *)
(* and neither it nor the port has waited longer than the frame took.      *)
Younger ==
  \/ UnpackTimeout = TimeMod - 1 /\ RecvTimeout = TimeMod - 1
  \/ /\ Waited(wait_start_time_ms) <= Waited(frame.since)
     /\ Waited(last_recv_time) <= Waited(frame.since)

InFrame ==
  /\ frame.first \in Nat /\ frame.last \in Nat /\ frame.since \in Time
  /\ 1 <= frame.first /\ frame.first <= pos
  /\ pos < frame.last /\ frame.last <= Len(line)
  /\ frame.last - frame.first < UnpackBufSize
  /\ IsFrame(SubSeq(line, frame.first, frame.last))
  /\ Len(unpack_buf) = pos + 1 - frame.first
  /\ InTime(frame.since, now)
  /\ Younger

(* When both timeouts are the whole turn of the clock nothing ever times   *)
(* out; otherwise what is younger than the frame stays so while the frame  *)
(* is in time.                                                             *)
LinkInv ==
  /\ StreamInv
  /\ last_recv_time \in Time
  /\ frame = NoFrame \/ InFrame

LEMMA ClockTypes ==
  ASSUME LinkInv
  PROVE  /\ now \in Time /\ wait_start_time_ms \in Time /\ last_recv_time \in Time
         /\ TimeMod \in Nat /\ UnpackTimeout \in Nat /\ RecvTimeout \in Nat
         /\ UnpackTimeout <= TimeMod - 1 /\ RecvTimeout <= TimeMod - 1
BY TimeAssumption, RecvAssumption DEF LinkInv, StreamInv, BufferInv, TypeOK, Time

\* Neither timeout has passed.
LEMMA NotTimedOut ==
  ASSUME LinkInv, InFrame
  PROVE  ~(Waited(wait_start_time_ms) > UnpackTimeout) /\ ~(Waited(last_recv_time) > RecvTimeout)
<1> DEFINE w == Waited(wait_start_time_ms)
           r == Waited(last_recv_time)
           s == Waited(frame.since)
<1>1. /\ w \in Nat /\ w < TimeMod /\ r \in Nat /\ r < TimeMod /\ s \in Nat
  BY ClockTypes, ElapsedRange DEF Waited, InFrame
<1>2. s <= UnpackTimeout /\ s <= RecvTimeout
  BY DEF InFrame, InTime, Waited
<1>3. \/ UnpackTimeout = TimeMod - 1 /\ RecvTimeout = TimeMod - 1
      \/ w <= s /\ r <= s
  BY DEF InFrame, Younger
<1> HIDE DEF w, r, s
<1>4. w <= UnpackTimeout /\ r <= RecvTimeout
  BY <1>1, <1>2, <1>3, ClockTypes
<1>5. ~(w > UnpackTimeout) /\ ~(r > RecvTimeout)
  BY <1>1, <1>4, ClockTypes
<1>. QED  BY <1>5 DEF w, r

LEMMA AdvanceInTime ==
  ASSUME NEW next, NEW bytes, NEW since, Advance(next, bytes, since),
         ~(Waited(since) > UnpackTimeout)
  PROVE  waiting_byte' = next /\ unpack_buf' = bytes /\ wait_start_time_ms' = since
BY DEF Advance

\* The time of a frame is still young when no more than it has passed.
LEMMA TickKeepsFrame ==
  ASSUME LinkInv, InFrame, Clock, frame' # NoFrame
  PROVE  InFrame'
<1>1. /\ now' = (now + 1) % TimeMod
      /\ UNCHANGED <<implVars, line, pos, spans>> /\ last_recv_time' = last_recv_time
  BY DEF Clock, Tick, P!Tick, P!loopVars
<1>2. frame' = frame /\ InTime(frame.since, now')
  BY DEF Clock
<1>3. UNCHANGED <<unpack_buf, wait_start_time_ms>>
  BY <1>1 DEF implVars
<1> DEFINE E(n, t) == (n - t) % TimeMod
           w == wait_start_time_ms
           r == last_recv_time
           s == frame.since
<1>4. s \in Time /\ w \in Time /\ r \in Time /\ now \in Time
  BY ClockTypes DEF InFrame
<1>5. \A t \in Time : E(now', t) = IF E(now, t) = TimeMod - 1 THEN 0 ELSE E(now, t) + 1
  BY <1>1, <1>4, ElapsedTick
<1>6. \A t \in Time : E(now, t) \in Nat /\ E(now, t) < TimeMod
  BY <1>4, ElapsedRange
<1>7. E(now, s) <= UnpackTimeout /\ E(now, s) <= RecvTimeout
  BY DEF InFrame, InTime
<1>8. \/ UnpackTimeout = TimeMod - 1 /\ RecvTimeout = TimeMod - 1
      \/ E(now, w) <= E(now, s) /\ E(now, r) <= E(now, s)
  BY DEF InFrame, Younger, Waited
<1> HIDE DEF E, w, r, s
<1>9. \/ UnpackTimeout = TimeMod - 1 /\ RecvTimeout = TimeMod - 1
      \/ E(now', w) <= E(now', s) /\ E(now', r) <= E(now', s)
  BY <1>4, <1>5, <1>6, <1>7, <1>8, ClockTypes, SMTT(30)
<1>10. Younger'
  BY <1>1, <1>2, <1>3, <1>9 DEF Younger, Waited, E, w, r, s
<1>11. InTime(frame.since, now)'
  BY <1>2
<1>. QED  BY <1>1, <1>2, <1>3, <1>10, <1>11 DEF InFrame

-----------------------------------------------------------------------------
(* The bytes of a frame.                                                   *)

\* How many data bytes the frame declares.
Declared == 256 * line[frame.first + 6] + line[frame.first + 7]

\* What a frame looks like from outside.
LEMMA FrameShape ==
  ASSUME NEW f, IsFrame(f)
  PROVE  /\ Len(f) >= 14 /\ f[1] = MAGIC_1 /\ f[2] = MAGIC_2
         /\ Len(f) = 12 + 256 * f[7] + f[8] + 2
<1>1. Len(f) >= 12 + 2
  BY DEF IsFrame
<1>. QED  BY <1>1 DEF IsFrame

LEMMA FrameBytes ==
  ASSUME LinkInv, NEW i \in Nat, NEW j \in Nat, 1 <= i, i <= j, j <= Len(line),
         IsFrame(SubSeq(line, i, j))
  PROVE  /\ line[i] = MAGIC_1 /\ line[i + 1] = MAGIC_2
         /\ line[i + 6] \in Nat /\ line[i + 7] \in Nat
         /\ j + 1 - i = 14 + 256 * line[i + 6] + line[i + 7]
<1> DEFINE f == SubSeq(line, i, j)
<1>1. line \in Seq(Byte) /\ Len(line) \in Nat
  BY LineFacts DEF LinkInv, StreamInv
<1>2. Len(f) = j + 1 - i /\ \A k \in 1..(j + 1 - i) : f[k] = line[i + k - 1]
  BY <1>1
<1>3. /\ Len(f) >= 14 /\ f[1] = MAGIC_1 /\ f[2] = MAGIC_2
      /\ Len(f) = 12 + 256 * f[7] + f[8] + 2
  BY FrameShape
<1> HIDE DEF f
<1>4. /\ f[1] = line[i] /\ f[2] = line[i + 1]
      /\ f[7] = line[i + 6] /\ f[8] = line[i + 7]
  <2>1. 1 \in 1..(j + 1 - i) /\ 2 \in 1..(j + 1 - i) /\ 7 \in 1..(j + 1 - i) /\ 8 \in 1..(j + 1 - i)
    BY <1>2, <1>3
  <2>2. i + 1 - 1 = i /\ i + 2 - 1 = i + 1 /\ i + 7 - 1 = i + 6 /\ i + 8 - 1 = i + 7
    OBVIOUS
  <2>3. /\ f[1] = line[i + 1 - 1] /\ f[2] = line[i + 2 - 1]
        /\ f[7] = line[i + 7 - 1] /\ f[8] = line[i + 8 - 1]
    BY ONLY <1>2, <2>1
  <2>. QED  BY ONLY <2>2, <2>3
<1>5. line[i + 6] \in Byte /\ line[i + 7] \in Byte
  <2>1. i + 6 \in 1..Len(line) /\ i + 7 \in 1..Len(line)
    BY <1>1, <1>2, <1>3
  <2>. QED  BY <1>1, <2>1
<1>6. line[i + 6] \in Nat /\ line[i + 7] \in Nat
  BY <1>5, ByteRange
<1>7. Len(f) = 14 + 256 * line[i + 6] + line[i + 7]
  BY ONLY <1>3, <1>4, <1>6
<1>. QED  BY <1>2, <1>3, <1>4, <1>6, <1>7

\* What is awaited inside a frame, and what the next byte is.
LEMMA InsideFrame ==
  ASSUME LinkInv, InFrame
  PROVE  /\ Declared \in Nat /\ frame.last = frame.first + 13 + Declared
         /\ 14 + Declared <= UnpackBufSize
         /\ Len(unpack_buf) \in Nat /\ 1 <= Len(unpack_buf)
         /\ Len(unpack_buf) <= 13 + Declared
         /\ pos \in Nat /\ pos + 1 = frame.first + Len(unpack_buf)
         /\ pos < Len(line)
         /\ waiting_byte >= 1
         /\ waiting_byte > 7 => unpacked_pkg.data_len = Declared
         /\ waiting_byte = 1 => line[pos + 1] = MAGIC_2
         /\ waiting_byte = 7 => /\ unpacked_pkg.data_len = 256 * line[frame.first + 6]
                               /\ line[pos + 1] = line[frame.first + 7]
         /\ waiting_byte = 14 <=> pos + 1 = frame.last
<1> DEFINE n == Len(unpack_buf)
           i == frame.first
           d == Declared
           w == waiting_byte
<1>1. BufferInv /\ DecoderInv /\ LastAwaited /\ Contiguous
  BY DEF LinkInv, StreamInv, BufferInv
<1>2. /\ i \in Nat /\ frame.last \in Nat /\ 1 <= i /\ i <= pos /\ pos < frame.last
      /\ frame.last <= Len(line) /\ frame.last - i < UnpackBufSize
      /\ n = pos + 1 - i
  BY DEF InFrame
<1>3. pos \in Nat /\ Len(line) \in Nat /\ n \in Nat
  BY <1>1, LineFacts
<1>4. /\ line[i + 1] = MAGIC_2
      /\ line[i + 6] \in Nat /\ line[i + 7] \in Nat
      /\ frame.last + 1 - i = 14 + 256 * line[i + 6] + line[i + 7]
  <2>1. i <= frame.last /\ IsFrame(SubSeq(line, i, frame.last))
    BY <1>2, <1>3 DEF InFrame
  <2>. QED  BY <1>2, <2>1, FrameBytes
<1>5. /\ d \in Nat /\ d = 256 * line[i + 6] + line[i + 7]
      /\ frame.last + 1 - i = 14 + d
  BY <1>4 DEF Declared
<1>6. \A k \in 1..n : unpack_buf[k] = line[i + k - 1]
  <2>1. \A k \in 1..n : unpack_buf[k] = line[pos - n + k]
    BY <1>1 DEF Contiguous
  <2>2. \A k \in 1..n : pos - n + k = i + k - 1
    BY <1>2, <1>3
  <2>. QED  BY <2>1, <2>2
<1>7. HeaderIs(unpack_buf, unpacked_pkg, w) /\ Position
  BY <1>1 DEF DecoderInv
<1>8. /\ w \in Int /\ 0 <= w /\ w <= 14 /\ unpacked_pkg.data_len \in Nat
      /\ wait_unpack_data_len \in Nat
  BY <1>1, DecoderFacts
<1> HIDE DEF n, i, d, w
<1>9. /\ frame.last = i + 13 + d /\ 14 + d <= UnpackBufSize
      /\ 1 <= n /\ n <= 13 + d /\ pos + 1 = i + n /\ pos < Len(line)
  <2> DEFINE l == frame.last
             B == UnpackBufSize
             N == Len(line)
  <2>1. /\ i \in Nat /\ l \in Nat /\ d \in Nat /\ pos \in Nat /\ N \in Nat /\ B \in Nat
        /\ i <= pos /\ pos < l /\ l <= N /\ l - i < B /\ n = pos + 1 - i
        /\ l + 1 - i = 14 + d
    BY <1>2, <1>3, <1>5, BufSizeAssumption
  <2> HIDE DEF l, B, N
  <2>2. /\ l = i + 13 + d /\ 14 + d <= B
        /\ 1 <= n /\ n <= 13 + d /\ pos + 1 = i + n /\ pos < N
    BY ONLY <2>1
  <2>. QED  BY <2>2 DEF l, B, N
<1>10. /\ w <= 11 => n = w
       /\ w = 12 => n = 12 + unpacked_pkg.data_len - wait_unpack_data_len
       /\ w = 12 => wait_unpack_data_len >= 1 /\ wait_unpack_data_len <= unpacked_pkg.data_len
       /\ w = 13 => n = 12 + unpacked_pkg.data_len
       /\ w = 14 => n = 13 + unpacked_pkg.data_len
  BY <1>1, <1>7 DEF Position, LastAwaited, n, w
<1>11. w >= 1 /\ (w >= 7 => n >= 7) /\ (w > 7 => n >= 8)
  BY <1>3, <1>8, <1>9, <1>10
<1>12. w >= 7 => unpack_buf[7] = line[i + 6]
  <2>1. w >= 7 => 7 \in 1..n
    BY <1>3, <1>11
  <2>2. i + 7 - 1 = i + 6
    BY <1>2
  <2>. QED  BY <1>6, <2>1, <2>2
<1>13. w > 7 => unpack_buf[8] = line[i + 7]
  <2>1. w > 7 => 8 \in 1..n
    BY <1>3, <1>11
  <2>2. i + 8 - 1 = i + 7
    BY <1>2
  <2>. QED  BY <1>6, <2>1, <2>2
<1>14. /\ w > 7 => unpacked_pkg.data_len = 256 * unpack_buf[7] + unpack_buf[8]
       /\ w = 7 => unpacked_pkg.data_len = 256 * unpack_buf[7]
  BY <1>7 DEF HeaderIs
<1>15. w > 7 => unpacked_pkg.data_len = d
  <2>1. ASSUME w > 7 PROVE unpacked_pkg.data_len = d
    <3>1. w >= 7
      BY <1>8, <2>1
    <3>. QED  BY <1>5, <1>12, <1>13, <1>14, <2>1, <3>1
  <2>. QED  BY <2>1
<1>16. w = 1 => line[pos + 1] = MAGIC_2
  BY <1>4, <1>9, <1>10
<1>17. w = 7 => unpacked_pkg.data_len = 256 * line[i + 6] /\ line[pos + 1] = line[i + 7]
  <2>1. ASSUME w = 7 PROVE unpacked_pkg.data_len = 256 * line[i + 6] /\ pos + 1 = i + 7
    BY <1>2, <1>9, <1>10, <1>12, <1>14, <2>1
  <2>. QED  BY <2>1
<1>18. w = 14 <=> pos + 1 = frame.last
  <2> DEFINE l == frame.last
             e == unpacked_pkg.data_len
             u == wait_unpack_data_len
  <2>1. /\ i \in Nat /\ l \in Nat /\ d \in Nat /\ pos \in Nat /\ n \in Nat
        /\ w \in Int /\ e \in Nat /\ u \in Nat
        /\ l = i + 13 + d /\ pos + 1 = i + n /\ w <= 14
        /\ (w > 7 => n >= 8) /\ (w > 7 => e = d)
    BY <1>2, <1>3, <1>5, <1>8, <1>9, <1>11, <1>15
  <2>2. /\ w <= 11 => n = w
        /\ w = 12 => n = 12 + e - u /\ u >= 1
        /\ w = 13 => n = 12 + e
        /\ w = 14 => n = 13 + e
    BY <1>10
  <2> HIDE DEF l, e, u
  <2>3. pos + 1 = l <=> n = 13 + d
    BY ONLY <2>1
  <2>4. w <= 11 => n < 13 + d
    BY ONLY <2>1, <2>2
  <2>5. w = 12 \/ w = 13 => n < 13 + d
    BY ONLY <2>1, <2>2
  <2>6. w = 14 <=> n = 13 + d
    BY ONLY <2>1, <2>2, <2>4, <2>5
  <2>. QED  BY <2>3, <2>6 DEF l
<1>. QED  BY <1>3, <1>5, <1>9, <1>11, <1>15, <1>16, <1>17, <1>18 DEF n, i, d, w

-----------------------------------------------------------------------------
(* A byte of a frame that is not its last is stored.                       *)
LEMMA FrameByte ==
  ASSUME LinkInv, InFrame, Feed, pos + 1 # frame.last
  PROVE  Len(unpack_buf') = Len(unpack_buf) + 1 /\ wait_start_time_ms' = wait_start_time_ms
<1> DEFINE byte == line[pos + 1]
<1>1. BufferInv /\ DecoderInv /\ ByteArrives /\ unpack_run(byte)
  BY FeedArrives DEF LinkInv, StreamInv, BufferInv, Feed
<1>2. /\ waiting_byte >= 1 /\ waiting_byte # 14 /\ 14 + Declared <= UnpackBufSize /\ Declared \in Nat
      /\ waiting_byte = 1 => byte = MAGIC_2
      /\ waiting_byte = 7 => /\ unpacked_pkg.data_len = 256 * line[frame.first + 6]
                            /\ byte = line[frame.first + 7]
  BY InsideFrame
<1>3. ~(Waited(wait_start_time_ms) > UnpackTimeout)
  BY NotTimedOut
<1>4. Len(Stored(byte)) = Len(unpack_buf) + 1
  BY <1>1, StoredAppends
<1> HIDE DEF byte
<1>5. SUFFICES \E next : Advance(next, Stored(byte), wait_start_time_ms)
  BY <1>3, <1>4, AdvanceInTime
<1>6. \/ AwaitMagic2(byte) \/ AwaitHeaderByte(byte) \/ AwaitDataLenLow(byte)
      \/ AwaitRsvd2(byte) \/ AwaitData(byte) \/ AwaitCrcHigh(byte)
  BY <1>1, <1>2, DecoderFacts DEF unpack_run, AwaitMagic1, AwaitCrcLow
<1>7. CASE AwaitMagic2(byte)
  <2>1. byte = MAGIC_2 /\ MAGIC_1 # MAGIC_2
    BY <1>2, <1>7 DEF AwaitMagic2, MAGIC_1, MAGIC_2
  <2>. QED  BY <1>7, <2>1 DEF AwaitMagic2
<1>8. CASE AwaitHeaderByte(byte)
  BY <1>8 DEF AwaitHeaderByte
<1>9. CASE AwaitDataLenLow(byte)
  <2>1. /\ waiting_byte = 7 /\ unpacked_pkg' = WithField(byte)
        /\ IF 12 + unpacked_pkg'.data_len + 2 > UnpackBufSize THEN TRUE
           ELSE Advance(8, Stored(byte), wait_start_time_ms)
    BY <1>9 DEF AwaitDataLenLow
  <2>2. unpacked_pkg'.data_len = unpacked_pkg.data_len + byte
    <3>1. WithField(byte) = [unpacked_pkg EXCEPT !.data_len = OrLowByte(@, byte)]
      BY <2>1, WithFieldCases
    <3>2. unpacked_pkg \in PkgFields
      BY <1>1 DEF DecoderInv
    <3>. QED  BY <2>1, <3>1, <3>2 DEF OrLowByte, PkgFields
  <2>3. unpacked_pkg'.data_len = Declared
    BY <1>2, <2>1, <2>2 DEF Declared
  <2>4. ~(12 + unpacked_pkg'.data_len + 2 > UnpackBufSize)
    BY <1>2, <2>3, BufSizeAssumption
  <2>. QED  BY <2>1, <2>4
<1>10. CASE AwaitRsvd2(byte)
  BY <1>10 DEF AwaitRsvd2
<1>11. CASE AwaitData(byte)
  BY <1>11 DEF AwaitData
<1>12. CASE AwaitCrcHigh(byte)
  BY <1>12 DEF AwaitCrcHigh
<1>. QED  BY <1>6, <1>7, <1>8, <1>9, <1>10, <1>11, <1>12

\* Its last byte delivers it.
LEMMA FrameLast ==
  ASSUME LinkInv, InFrame, Feed, pos + 1 = frame.last, UnpackBufSize <= 65537
  PROVE  out' = Append(out, FramePkg(SubSeq(line, frame.first, frame.last)))
<1> DEFINE byte == line[pos + 1]
           b == Stored(byte)
           n == Len(b)
<1>1. BufferInv /\ DecoderInv /\ ByteArrives /\ unpack_run(byte)
  BY FeedArrives DEF LinkInv, StreamInv, BufferInv, Feed
<1>2. /\ waiting_byte = 14 /\ Declared \in Nat
      /\ 14 + Declared <= UnpackBufSize
      /\ frame.last = frame.first + 13 + Declared
      /\ pos \in Nat /\ pos + 1 = frame.first + Len(unpack_buf) /\ Len(unpack_buf) \in Nat
  BY InsideFrame
<1>3. AwaitCrcLow(byte)
  BY <1>1, <1>2 DEF unpack_run, AwaitMagic1, AwaitMagic2, AwaitHeaderByte,
       AwaitDataLenLow, AwaitRsvd2, AwaitData, AwaitCrcHigh
<1>4. SubSeq(line, pos + 1 - Len(unpack_buf), pos + 1) = b
  BY <1>1, <1>3, StoredIsSpan
<1>5. frame.first \in Nat /\ frame.last \in Nat /\ IsFrame(SubSeq(line, frame.first, frame.last))
  BY DEF InFrame
<1>6. SubSeq(line, frame.first, frame.last) = b /\ IsFrame(b)
  <2>1. pos + 1 - Len(unpack_buf) = frame.first
    BY <1>2, <1>5
  <2> HIDE DEF b
  <2>. QED  BY ONLY <1>4, <1>5, <2>1, pos + 1 = frame.last
<1>7. n = 14 + Declared
  <2>1. n = Len(unpack_buf) + 1
    BY <1>1, StoredAppends
  <2>. QED  BY <1>2, <1>5, <2>1
<1>8. CrcMatches(b)
  <2>1. 256 * b[n - 1] + b[n] = nano_net_crc16(SubSeq(b, 1, n - 2))
    BY <1>6 DEF IsFrame
  <2>2. (n - 2) % 65536 = n - 2
    <3> HIDE DEF n
    <3>1. n - 2 \in Nat /\ n - 2 < 65536
      BY <1>2, <1>7, BufSizeAssumption
    <3>2. \A m \in Nat : m < 65536 => m % 65536 = m
      OBVIOUS
    <3>. QED  BY ONLY <3>1, <3>2
  <2>. QED  BY <2>1, <2>2 DEF CrcMatches
<1>9. out' = Append(out, PkgWithData(unpacked_pkg, b))
  BY <1>3, <1>8 DEF AwaitCrcLow
<1>10. PkgWithData(unpacked_pkg, b) = FramePkg(b)
  BY <1>1, <1>3, <1>8, DeliveredIsFrame
<1>. QED  BY <1>6, <1>9, <1>10

-----------------------------------------------------------------------------
(* A frame begins.                                                         *)
LEMMA OlderFacts ==
  ASSUME NEW a, NEW b, Waited(a) \in Nat, Waited(b) \in Nat
  PROVE  /\ Older(a, b) \in {a, b}
         /\ Waited(a) <= Waited(Older(a, b)) /\ Waited(b) <= Waited(Older(a, b))
BY DEF Older, Waited

LEMMA FrameBegins ==
  ASSUME LinkInv, Feed, last_recv_time' = last_recv_time,
         waiting_byte \in {0, 1}, InTime(Since, now),
         NEW j \in FrameEnds(pos + 1),
         frame' = [first |-> pos + 1, last |-> j, since |-> Since]
  PROVE  InFrame'
<1> DEFINE byte == line[pos + 1]
<1>1. BufferInv /\ DecoderInv /\ ByteArrives /\ unpack_run(byte)
  BY FeedArrives DEF LinkInv, StreamInv, BufferInv, Feed
<1>2. pos \in Nat /\ Len(line) \in Nat /\ pos < Len(line) /\ pos' = pos + 1 /\ line' = line
      /\ now' = now
  BY <1>1, LineFacts DEF Feed, unpack_run
<1>3. /\ byte = MAGIC_1 /\ j \in Nat /\ pos + 1 <= j /\ j <= Len(line)
      /\ j - (pos + 1) < UnpackBufSize /\ IsFrame(SubSeq(line, pos + 1, j))
  BY <1>2 DEF FrameEnds
<1>4. pos + 1 < j
  <2>1. /\ line[pos + 1 + 6] \in Nat /\ line[pos + 1 + 7] \in Nat
        /\ j + 1 - (pos + 1) = 14 + 256 * line[pos + 1 + 6] + line[pos + 1 + 7]
    BY <1>2, <1>3, FrameBytes
  <2>. QED  BY <1>2, <1>3, <2>1
<1>5. /\ \A t \in Time : Waited(t) \in Nat
      /\ Waited(now) = 0
  BY ClockTypes, ElapsedRange DEF Waited
<1>6. Since \in Time /\ Waited(last_recv_time) <= Waited(Since)
      /\ Waited(Since) <= UnpackTimeout
  <2>1. Waited(Since) <= UnpackTimeout
    BY DEF InTime, Waited
  <2>2. CASE waiting_byte = 0
    BY <1>5, <2>1, <2>2, ClockTypes DEF Since
  <2>3. CASE waiting_byte = 1
    <3>1. Since = Older(wait_start_time_ms, last_recv_time)
      BY <2>3 DEF Since
    <3>. QED  BY <1>5, <2>1, <3>1, OlderFacts, ClockTypes
  <2>. QED  BY <2>2, <2>3
<1>7. /\ Len(unpack_buf') = 1
      /\ Waited(wait_start_time_ms') <= Waited(Since)
  <2>1. CASE waiting_byte = 0
    <3>1. Advance(1, Stored(byte), now) /\ Len(unpack_buf) = 0
      BY <1>1, <1>3, <2>1 DEF unpack_run, AwaitMagic1, AwaitMagic2, AwaitHeaderByte,
         AwaitDataLenLow, AwaitRsvd2, AwaitData, AwaitCrcHigh, AwaitCrcLow,
         DecoderInv, Position
    <3>2. ~(Waited(now) > UnpackTimeout)
      BY <1>5, ClockTypes
    <3>3. unpack_buf' = Stored(byte) /\ wait_start_time_ms' = now
      BY <3>1, <3>2, AdvanceInTime
    <3>4. Len(Stored(byte)) = Len(unpack_buf) + 1
      BY <1>1, StoredAppends
    <3>. QED  BY <1>5, <1>6, <3>1, <3>3, <3>4
  <2>2. CASE waiting_byte = 1
    <3>1. Advance(1, unpack_buf, wait_start_time_ms) /\ Len(unpack_buf) = 1
      <4>1. AwaitMagic2(byte)
        BY <1>1, <2>2 DEF unpack_run, AwaitMagic1, AwaitMagic2, AwaitHeaderByte,
           AwaitDataLenLow, AwaitRsvd2, AwaitData, AwaitCrcHigh, AwaitCrcLow
      <4>. QED  BY <1>1, <1>3, <2>2, <4>1 DEF AwaitMagic2, MAGIC_1, MAGIC_2, DecoderInv, Position
    <3>2. Since = Older(wait_start_time_ms, last_recv_time)
      BY <2>2 DEF Since
    <3>3. Waited(wait_start_time_ms) <= Waited(Since)
      BY <1>5, <3>2, OlderFacts, ClockTypes
    <3>4. ~(Waited(wait_start_time_ms) > UnpackTimeout)
      BY <1>5, <1>6, <3>3, ClockTypes
    <3>5. unpack_buf' = unpack_buf /\ wait_start_time_ms' = wait_start_time_ms
      BY <3>1, <3>4, AdvanceInTime
    <3>. QED  BY <3>1, <3>3, <3>5
  <2>. QED  BY <2>1, <2>2
<1>8. frame'.first = pos + 1 /\ frame'.last = j /\ frame'.since = Since
  OBVIOUS
<1>9. Younger'
  <2>1. /\ (now' - wait_start_time_ms') % TimeMod <= (now' - frame'.since) % TimeMod
        /\ (now' - last_recv_time') % TimeMod <= (now' - frame'.since) % TimeMod
    BY <1>2, <1>6, <1>7, <1>8 DEF Waited
  <2>. QED  BY <2>1 DEF Younger, Waited
<1>10. InTime(frame'.since, now')
  BY <1>2, <1>8
<1>11. Len(unpack_buf') = pos' + 1 - frame'.first
  BY <1>2, <1>7, <1>8
<1>. QED  BY <1>2, <1>3, <1>4, <1>6, <1>8, <1>9, <1>10, <1>11 DEF InFrame

\* A byte through the decoder.
LEMMA UnpackKeeps ==
  ASSUME LinkInv, Unpack
  PROVE  frame' = NoFrame \/ InFrame'
<1>1. Feed /\ TrackFrame /\ last_recv_time' = last_recv_time
  BY DEF Unpack, P!Unpack
<1>2. /\ pos \in Nat /\ pos' = pos + 1 /\ line' = line /\ now' = now
  BY <1>1, LineFacts DEF LinkInv, StreamInv, Feed, unpack_run
<1>3. CASE frame = NoFrame /\ frame' # NoFrame
  <2>1. frame.last # pos + 1
    BY <1>2, <1>3 DEF NoFrame
  <2>2. /\ waiting_byte \in {0, 1} /\ InTime(Since, now) /\ FrameEnds(pos + 1) # {}
        /\ frame' = [first |-> pos + 1, last |-> CHOOSE j \in FrameEnds(pos + 1) : TRUE,
                     since |-> Since]
    BY <1>1, <1>3, <2>1 DEF TrackFrame
  <2>3. (CHOOSE j \in FrameEnds(pos + 1) : TRUE) \in FrameEnds(pos + 1)
    BY <2>2
  <2>. QED  BY <1>1, <2>2, <2>3, FrameBegins
<1>4. CASE frame # NoFrame /\ pos + 1 # frame.last
  <2>1. InFrame /\ frame' = frame
    BY <1>1, <1>4 DEF LinkInv, TrackFrame
  <2>2. Len(unpack_buf') = Len(unpack_buf) + 1 /\ wait_start_time_ms' = wait_start_time_ms
    BY <1>1, <1>4, <2>1, FrameByte
  <2>3. /\ frame.first \in Nat /\ frame.last \in Nat /\ Len(unpack_buf) \in Nat
    BY <2>1, InsideFrame DEF InFrame
  <2>4. frame'.first <= pos' /\ pos' < frame'.last /\ Len(unpack_buf') = pos' + 1 - frame'.first
    BY <1>2, <1>4, <2>1, <2>2, <2>3 DEF InFrame
  <2>5. Younger' /\ InTime(frame'.since, now')
    BY <1>1, <1>2, <2>1, <2>2 DEF InFrame, Younger, Waited
  <2>. QED  BY <1>2, <2>1, <2>4, <2>5 DEF InFrame
<1>5. CASE frame # NoFrame /\ pos + 1 = frame.last
  BY <1>1, <1>5 DEF TrackFrame
<1>. QED  BY <1>3, <1>4, <1>5

-----------------------------------------------------------------------------
LEMMA LinkInvStarts == LinkInit => LinkInv
BY StreamInit, TimeAssumption DEF LinkInit, LinkInv, P!Init, Time

\* Steps of the port that leave the decoder and the clock alone.
LEMMA PortKeeps ==
  ASSUME LinkInv, UNCHANGED vars, UNCHANGED frame, last_recv_time' \in {last_recv_time, now}
  PROVE  frame' = NoFrame \/ InFrame'
<1>1. UNCHANGED <<unpack_buf, wait_start_time_ms, now, line, pos>>
  BY DEF vars, implVars
<1>2. CASE frame = NoFrame
  BY <1>2
<1>3. CASE InFrame
  <2>1. Waited(now) = 0 /\ Waited(frame.since) \in Nat
    BY <1>3, ClockTypes, ElapsedRange DEF Waited, InFrame
  <2>2. Younger'
    <3>1. CASE last_recv_time' = last_recv_time
      BY <1>1, <1>3, <3>1 DEF InFrame, Younger, Waited
    <3>2. CASE last_recv_time' = now
      <4>1. (now - now) % TimeMod <= (now - frame.since) % TimeMod
        BY <2>1 DEF Waited
      <4>. QED  BY <1>1, <1>3, <3>2, <4>1 DEF InFrame, Younger, Waited
    <3>. QED  BY <3>1, <3>2
  <2>3. InTime(frame.since, now)'
    BY <1>1, <1>3 DEF InFrame, InTime
  <2>. QED  BY <1>1, <1>3, <2>2, <2>3 DEF InFrame
<1>. QED  BY <1>2, <1>3 DEF LinkInv

LEMMA LinkInvStep == LinkInv /\ [LinkNext]_linkVars => LinkInv'
<1> SUFFICES ASSUME LinkInv, [LinkNext]_linkVars PROVE LinkInv'
  OBVIOUS
<1>1. StreamInv'
  BY LinkStep, StreamStep DEF LinkInv
<1>2. now \in Time /\ last_recv_time \in Time
  BY ClockTypes
<1>3. last_recv_time' \in {last_recv_time, now} /\ (frame' = NoFrame \/ InFrame')
  <2>1. CASE Run
    BY <2>1, PortKeeps DEF Run, P!Run
  <2>2. CASE Read
    BY <2>2, PortKeeps DEF Read, P!Read
  <2>3. CASE Unpack
    BY <2>3, UnpackKeeps DEF Unpack, P!Unpack
  <2>4. CASE EndOfChunk
    BY <2>4, PortKeeps DEF EndOfChunk, P!EndOfChunk
  <2>5. CASE CheckSilence
    <3>1. last_recv_time' = last_recv_time /\ UNCHANGED frame
      BY <2>5 DEF CheckSilence, P!CheckSilence
    <3>2. CASE UNCHANGED vars
      BY <3>1, <3>2, PortKeeps
    <3>3. CASE P!Silent
      <4>1. Waited(last_recv_time) > RecvTimeout
        BY <3>3 DEF P!Silent, Waited
      <4>2. frame = NoFrame
        BY <4>1, NotTimedOut DEF LinkInv
      <4>. QED  BY <3>1, <4>2
    <3>. QED  BY <2>5, <3>2, <3>3 DEF CheckSilence
  <2>6. CASE Arrive
    BY <2>6, PortKeeps DEF Arrive, P!Arrive, P!loopVars
  <2>7. CASE Clock
    <3>1. last_recv_time' = last_recv_time
      BY <2>7 DEF Clock, P!Tick, P!loopVars
    <3>2. CASE frame' = NoFrame
      BY <3>1, <3>2
    <3>3. CASE frame' # NoFrame
      <4>1. InFrame
        BY <2>7, <3>3 DEF Clock, LinkInv
      <4>. QED  BY <2>7, <3>1, <3>3, <4>1, TickKeepsFrame
    <3>. QED  BY <3>2, <3>3
  <2>8. CASE UNCHANGED linkVars
    BY <2>8, PortKeeps DEF linkVars, P!vars, P!loopVars
  <2>. QED  BY <2>1, <2>2, <2>3, <2>4, <2>5, <2>6, <2>7, <2>8 DEF LinkNext, Running
<1>4. last_recv_time' \in Time
  BY <1>2, <1>3
<1>. QED  BY <1>1, <1>3, <1>4 DEF LinkInv

(* A frame that comes in time is delivered at its last byte, for every     *)
(* line, both timeouts, any way its bytes are spread over reads and runs   *)
(* and any idle tests between them (nano_net_port.c:155-178).  Buffers of  *)
(* more than 65537 bytes are left out, where the checksum is cut short.    *)
THEOREM LinkDelivers ==
  ASSUME UnpackBufSize <= 65537
  PROVE  LinkSpec => IntactDelivered
<1> DEFINE Delivery ==
      frame # NoFrame /\ pos' = frame.last =>
        out' = Append(out, FramePkg(SubSeq(line, frame.first, frame.last)))
<1>1. LinkInv /\ [LinkNext]_linkVars => [Delivery]_linkVars
  <2> SUFFICES ASSUME LinkInv, LinkNext, frame # NoFrame, pos' = frame.last
               PROVE  out' = Append(out, FramePkg(SubSeq(line, frame.first, frame.last)))
    OBVIOUS
  <2>1. InFrame /\ pos' # pos
    <3>1. InFrame
      BY DEF LinkInv
    <3>2. pos \in Nat /\ frame.last \in Nat /\ pos < frame.last
      BY <3>1, InsideFrame DEF InFrame
    <3>. QED  BY <3>1, <3>2
  <2>2. CASE Unpack
    <3>1. Feed /\ pos' = pos + 1
      BY <2>2 DEF Unpack, Feed
    <3>. QED  BY <2>1, <3>1, FrameLast
  <2>3. CASE ~Unpack
    <3>1. pos' = pos
      BY <2>3 DEF LinkNext, Running, Run, Read, EndOfChunk, CheckSilence, Reset, Arrive,
                  Clock, Tick, vars
    <3>. QED  BY <2>1, <3>1
  <2>. QED  BY <2>2, <2>3
<1>2. IntactDelivered <=> [][Delivery]_linkVars
  BY PTL DEF IntactDelivered
<1>. QED  BY <1>1, <1>2, LinkInvStarts, LinkInvStep, PTL DEF LinkSpec
=============================================================================
