---------------------------- MODULE ReentryProofs ----------------------------
(***************************************************************************)
(* Proofs about a decoder entered from its own callback: at every depth of *)
(* nested runs it stays inside its buffer and mixes no packages.           *)
(***************************************************************************)
EXTENDS Reentry, DefaultPackagerProofs, SequenceTheorems

\* Every read_buf lies on the line.
RunsInv ==
  /\ line \in Seq(Byte)
  /\ taken \in 0..Len(line)
  /\ runs \in Seq(Run)
  /\ \A i \in DOMAIN runs : runs[i].pos <= runs[i].last /\ runs[i].last <= Len(line)

HistoryTypes ==
  /\ out \in Seq(Packages)
  /\ found \in Seq(Nat)
  /\ Len(found) = Len(out)
  /\ fed \in Seq(Byte)
  /\ start \in Nat
  /\ noted \subseteq Byte

BaseInv == DecoderInv /\ RunsInv /\ HistoryTypes

-----------------------------------------------------------------------------
\* The enumerators and the sizes are numbers here too.
USE DEF PACK_BYTE_MAGIC_HEAD_1, PACK_BYTE_MAGIC_HEAD_2, PACK_BYTE_SENDER_HOST_ID,
        PACK_BYTE_TARGET_HOST_ID, PACK_BYTE_MSG_ID_HIGH, PACK_BYTE_MSG_ID_LOW,
        PACK_BYTE_DATA_LEN_HIGH, PACK_BYTE_DATA_LEN_LOW, PACK_BYTE_SEQ,
        PACK_BYTE_EX_FLAG, PACK_BYTE_RSVD1, PACK_BYTE_RSVD2, PACK_BYTE_DATA,
        PACK_BYTE_CRC16_HIGH, PACK_BYTE_CRC16_LOW, HeaderSize, CrcSize

(* The callback is entered: the last byte is stored, if there is room, and *)
(* still awaited.                                                          *)
LEMMA DecoderEnter ==
  ASSUME DecoderInv, NEW byte \in Byte, EnterCallback(byte)
  PROVE  DecoderInv'
<1>1. /\ waiting_byte = 14 /\ waiting_byte' = 14 /\ unpack_buf' = Stored(byte)
      /\ unpacked_pkg' = unpacked_pkg /\ wait_unpack_data_len' = wait_unpack_data_len
  BY DEF EnterCallback, Completes
<1>2. /\ unpack_buf \in Seq(Byte) /\ Len(unpack_buf) \in Nat /\ unpacked_pkg.data_len \in Nat
      /\ Len(unpack_buf) >= 13 + unpacked_pkg.data_len
      /\ Len(unpack_buf) <= UnpackBufSize
      /\ 14 + unpacked_pkg.data_len <= UnpackBufSize
      /\ wait_unpack_data_len \in Word16
  BY <1>1, DecoderFacts DEF DecoderInv, Position
<1>3. /\ unpack_buf' \in Seq(Byte) /\ Len(unpack_buf') \in Nat
      /\ Len(unpack_buf') >= Len(unpack_buf) /\ Len(unpack_buf') <= UnpackBufSize
  BY <1>1, <1>2, StoredKeeps
<1>4. Position'
  BY <1>1, <1>2, <1>3, BufSizeAssumption DEF Position
<1>5. waiting_byte' \in 12..14 /\ waiting_byte >= 11
  BY <1>1
<1>. QED  BY <1>1, <1>2, <1>4, <1>5, BehindHeader

\* A byte that completes no packet delivers none.
LEMMA NoDelivery ==
  ASSUME NEW byte, unpack_run(byte), ~Completes(byte)
  PROVE  out' = out
  BY DEF Completes, unpack_run, AwaitMagic1, AwaitMagic2, AwaitHeaderByte,
     AwaitDataLenLow, AwaitRsvd2, AwaitData, AwaitCrcHigh, AwaitCrcLow

LEMMA DeliveredType ==
  ASSUME DecoderInv, NEW byte \in Byte, waiting_byte = 14
  PROVE  PkgWithData(unpacked_pkg, Stored(byte)) \in Packages
<1>1. /\ unpack_buf \in Seq(Byte) /\ Len(unpack_buf) \in Nat
      /\ unpacked_pkg \in PkgFields /\ unpacked_pkg.data_len \in Nat
      /\ Len(unpack_buf) >= 13 + unpacked_pkg.data_len
  BY DecoderFacts DEF DecoderInv, Position
<1>2. Stored(byte) \in Seq(Byte) /\ Len(Stored(byte)) >= Len(unpack_buf)
  BY <1>1, StoredKeeps
<1>3. 12 + unpacked_pkg.data_len <= Len(Stored(byte))
  <2>1. Len(Stored(byte)) \in Nat
    BY <1>2
  <2>. QED  BY ONLY <1>1, <1>2, <2>1
<1>. QED  BY <1>1, <1>2, <1>3, PkgWithDataType

-----------------------------------------------------------------------------
(* The runs.                                                               *)
LEMMA RunUpdated ==
  ASSUME RunsInv, runs # <<>>, NEW pos \in Nat, NEW c \in BOOLEAN, pos <= Innermost.last,
         runs' = Progress(pos, c), line' = line, taken' = taken
  PROVE  RunsInv'
<1> DEFINE d == Len(runs)
           new == [pos |-> pos, last |-> runs[d].last, calling |-> c]
<1>1. runs \in Seq(Run) /\ d \in Nat /\ d \in 1..d /\ DOMAIN runs = 1..d
  BY DEF RunsInv
<1>2. /\ runs[d] \in Run
      /\ \A i \in 1..d : runs[i].pos <= runs[i].last /\ runs[i].last <= Len(line)
  BY <1>1 DEF RunsInv
<1>3. runs[d].last \in Nat
  BY <1>2 DEF Run
<1>4. new \in Run
  BY <1>3, Zenon DEF Run
<1>5. new.pos <= new.last /\ new.last <= Len(line)
  BY <1>1, <1>2 DEF Innermost, Depth
<1>6. runs' = [runs EXCEPT ![d] = new]
  BY DEF Progress, Innermost, Depth
<1> HIDE DEF new
<1>7. /\ runs' \in Seq(Run) /\ Len(runs') = d
      /\ \A i \in 1..d : runs'[i] = IF i = d THEN new ELSE runs[i]
  BY <1>1, <1>4, <1>6, ExceptSeq
<1>8. \A i \in 1..d : runs'[i].pos <= runs'[i].last /\ runs'[i].last <= Len(line)
  BY <1>2, <1>5, <1>7
<1>. QED  BY <1>7, <1>8 DEF RunsInv

\* The byte the innermost run unpacks next.
NextByte == line[Innermost.pos + 1]

LEMMA InnermostType ==
  ASSUME RunsInv, runs # <<>>
  PROVE  /\ Innermost.pos \in Nat /\ Innermost.last \in Nat
         /\ Innermost.pos <= Innermost.last /\ Innermost.last <= Len(line)
<1>1. runs \in Seq(Run) /\ Len(runs) \in DOMAIN runs
  BY DEF RunsInv
<1>2. Innermost \in Run /\ Innermost.pos <= Innermost.last /\ Innermost.last <= Len(line)
  BY <1>1 DEF RunsInv, Innermost, Depth
<1>. QED  BY <1>2 DEF Run

LEMMA NextByteType ==
  ASSUME RunsInv, runs # <<>>, Innermost.pos < Innermost.last
  PROVE  NextByte \in Byte
<1>1. Len(line) \in Nat /\ line \in Seq(Byte)
  BY DEF RunsInv
<1>2. Innermost.pos + 1 \in 1..Len(line)
  BY <1>1, InnermostType
<1>. QED  BY <1>1, <1>2 DEF NextByte

\* What Feed does, with its byte named.
LEMMA FeedCases ==
  ASSUME BaseInv, Feed
  PROVE  /\ NextByte \in Byte
         /\ \/ EnterCallback(NextByte)
            \/ ~Completes(NextByte) /\ unpack_run(NextByte) /\ found' = found
         /\ fed' = Append(fed, NextByte)
         /\ start' = IF Len(unpack_buf') = 1 THEN Len(fed') ELSE start
         /\ RunsInv'
         /\ noted' = noted
<1>1. RunsInv /\ runs # <<>> /\ Innermost.pos < Innermost.last
  BY DEF Feed, BaseInv
<1>2. NextByte \in Byte /\ Innermost.pos \in Nat /\ Innermost.last \in Nat
  BY <1>1, NextByteType, InnermostType
<1>3. /\ \/ EnterCallback(NextByte)
         \/ ~Completes(NextByte) /\ unpack_run(NextByte) /\ found' = found
      /\ fed' = Append(fed, NextByte)
      /\ start' = IF Len(unpack_buf') = 1 THEN Len(fed') ELSE start
      /\ noted' = noted /\ line' = line /\ taken' = taken
  BY DEF Feed, NextByte
<1>4. runs' = Progress(Innermost.pos + 1, Completes(NextByte))
  BY Zenon DEF Feed, NextByte
<1>5. Completes(NextByte) \in BOOLEAN
  BY DEF Completes
<1>6. Innermost.pos + 1 \in Nat /\ Innermost.pos + 1 <= Innermost.last
  BY <1>1, <1>2
<1>7. line' = line /\ taken' = taken
  BY <1>3
<1>8. RunsInv'
  BY ONLY <1>1, <1>4, <1>5, <1>6, <1>7, RunUpdated
<1>. QED  BY <1>2, <1>3, <1>8

-----------------------------------------------------------------------------
(* Every action keeps the decoder, the runs and the types.                 *)
LEMMA FeedBase ==
  ASSUME BaseInv, Feed
  PROVE  BaseInv'
<1> DEFINE byte == NextByte
<1>1. /\ byte \in Byte /\ fed' = Append(fed, byte) /\ RunsInv' /\ noted' = noted
      /\ start' = IF Len(unpack_buf') = 1 THEN Len(fed') ELSE start
  BY FeedCases
<1>2. /\ DecoderInv /\ out \in Seq(Packages) /\ found \in Seq(Nat) /\ Len(found) = Len(out)
      /\ fed \in Seq(Byte) /\ start \in Nat /\ noted \subseteq Byte
  BY DEF BaseInv, HistoryTypes
<1>3. fed' \in Seq(Byte) /\ start' \in Nat /\ noted' \subseteq Byte
  BY <1>1, <1>2
<1>4. CASE EnterCallback(byte)
  <2>1. DecoderInv' /\ waiting_byte = 14
    BY <1>1, <1>2, <1>4, DecoderEnter DEF EnterCallback, Completes
  <2>2. PkgWithData(unpacked_pkg, Stored(byte)) \in Packages
    BY <1>1, <1>2, <2>1, DeliveredType
  <2>3. /\ out' = Append(out, PkgWithData(unpacked_pkg, Stored(byte)))
        /\ found' = Append(found, start)
    BY <1>4 DEF EnterCallback
  <2>4. out' \in Seq(Packages) /\ found' \in Seq(Nat) /\ Len(found') = Len(out')
    BY <1>2, <2>2, <2>3
  <2>. QED  BY <1>1, <1>3, <2>1, <2>4 DEF BaseInv, HistoryTypes
<1>5. CASE ~Completes(byte) /\ unpack_run(byte) /\ found' = found
  <2>1. DecoderInv' /\ out' = out
    BY <1>1, <1>2, <1>5, DecoderStep, NoDelivery
  <2>. QED  BY <1>1, <1>2, <1>3, <1>5, <2>1 DEF BaseInv, HistoryTypes
<1>. QED  BY <1>4, <1>5, FeedCases

LEMMA DecoderUnchanged ==
  ASSUME DecoderInv, unpack_buf' = unpack_buf, waiting_byte' = waiting_byte,
         wait_unpack_data_len' = wait_unpack_data_len, unpacked_pkg' = unpacked_pkg
  PROVE  DecoderInv'
  BY DEF DecoderInv, Position, HeaderIs

LEMMA ReadBase ==
  ASSUME BaseInv, NEW n \in ReadSizes, Read(n)
  PROVE  BaseInv'
<1>1. DecoderInv' /\ HistoryTypes'
  BY DecoderUnchanged DEF BaseInv, HistoryTypes, Read, decoder, implVars, history
<1>2. /\ line \in Seq(Byte) /\ taken \in Nat /\ Len(line) \in Nat /\ runs \in Seq(Run)
      /\ \A i \in 1..Len(runs) : runs[i].pos <= runs[i].last /\ runs[i].last <= Len(line)
      /\ n \in Nat
  BY ReentryAssumption DEF BaseInv, RunsInv
<1>3. /\ taken' = taken + n /\ taken + n <= Len(line) /\ line' = line
      /\ runs' = Append(runs, [pos |-> taken, last |-> taken + n, calling |-> FALSE])
  BY DEF Read
<1> DEFINE new == [pos |-> taken, last |-> taken + n, calling |-> FALSE]
<1>4. new.pos <= new.last /\ new.last <= Len(line) /\ taken + n \in Nat
  BY <1>2, <1>3
<1>5. new \in Run
  BY <1>2, <1>4, Zenon DEF Run
<1> HIDE DEF new
<1>6. /\ runs' \in Seq(Run) /\ Len(runs') = Len(runs) + 1
      /\ \A i \in 1..Len(runs) : runs'[i] = runs[i]
      /\ runs'[Len(runs) + 1] = new
  BY <1>2, <1>3, <1>5, AppendProperties DEF new
<1>7. ASSUME NEW i \in 1..(Len(runs) + 1)
      PROVE  runs'[i].pos <= runs'[i].last /\ runs'[i].last <= Len(line)
  <2>1. CASE i = Len(runs) + 1  BY <2>1, <1>4, <1>6
  <2>2. CASE i \in 1..Len(runs)  BY <2>2, <1>2, <1>6
  <2>. QED  BY <2>1, <2>2, <1>2
<1>8. RunsInv'
  BY <1>2, <1>3, <1>4, <1>6, <1>7 DEF RunsInv
<1>. QED  BY <1>1, <1>8 DEF BaseInv

\* The first n elements of a sequence.
LEMMA FrontOf ==
  ASSUME NEW T, NEW s \in Seq(T), NEW n \in Nat, n <= Len(s)
  PROVE  /\ SubSeq(s, 1, n) \in Seq(T) /\ Len(SubSeq(s, 1, n)) = n
         /\ \A i \in 1..n : SubSeq(s, 1, n)[i] = s[i]
<1>1. \A i \in 1..n : s[i] \in T
  OBVIOUS
<1>2. /\ SubSeq(s, 1, n) \in Seq(T)
      /\ Len(SubSeq(s, 1, n)) = IF 1 <= n THEN n - 1 + 1 ELSE 0
      /\ \A i \in 1..(n - 1 + 1) : SubSeq(s, 1, n)[i] = s[1 + i - 1]
  BY <1>1, SubSeqProperties
<1>. QED  BY <1>2

LEMMA EndOfChunkBase ==
  ASSUME BaseInv, EndOfChunk
  PROVE  BaseInv'
<1>1. DecoderInv' /\ HistoryTypes'
  BY DecoderUnchanged DEF BaseInv, HistoryTypes, EndOfChunk, decoder, implVars, history
<1> DEFINE d == Len(runs)
<1>2. /\ runs \in Seq(Run) /\ d \in Nat /\ d >= 1
      /\ \A i \in 1..d : runs[i].pos <= runs[i].last /\ runs[i].last <= Len(line)
      /\ runs' = SubSeq(runs, 1, d - 1) /\ line' = line /\ taken' = taken
  BY DEF BaseInv, RunsInv, EndOfChunk, Depth
<1>3. /\ runs' \in Seq(Run) /\ Len(runs') = d - 1
      /\ \A i \in 1..(d - 1) : runs'[i] = runs[i]
  <2>1. d - 1 \in Nat /\ d - 1 <= Len(runs)
    BY <1>2
  <2>. QED  BY <1>2, <2>1, FrontOf
<1>4. \A i \in 1..(d - 1) : runs'[i].pos <= runs'[i].last /\ runs'[i].last <= Len(line)
  BY <1>2, <1>3
<1>5. RunsInv'
  BY <1>2, <1>3, <1>4 DEF RunsInv, BaseInv
<1>. QED  BY <1>1, <1>5 DEF BaseInv

LEMMA HandlerReturnsBase ==
  ASSUME BaseInv, HandlerReturns
  PROVE  BaseInv' /\ GivenUp
<1>1. GivenUp
  BY AdvanceCases DEF HandlerReturns, GivenUp
<1>2. DecoderInv'
  BY <1>1, DecoderGivenUp DEF HandlerReturns, BaseInv, DecoderInv
<1>3. RunsInv /\ runs # <<>> /\ Innermost.pos \in Nat /\ Innermost.pos <= Innermost.last
  BY InnermostType DEF BaseInv, HandlerReturns
<1>4. runs' = Progress(Innermost.pos, FALSE) /\ line' = line /\ taken' = taken
  BY DEF HandlerReturns
<1>5. RunsInv'
  BY <1>3, <1>4, RunUpdated
<1>6. unpacked_pkg.sender_host_id \in Byte
  BY DEF BaseInv, DecoderInv, PkgFields
<1>7. HistoryTypes'
  BY <1>6 DEF BaseInv, HistoryTypes, HandlerReturns, history
<1>. QED  BY <1>1, <1>2, <1>5, <1>7 DEF BaseInv

LEMMA SilenceBase ==
  ASSUME BaseInv, Silence
  PROVE  BaseInv' /\ GivenUp
<1>1. GivenUp
  BY DEF Silence, reset, GivenUp
<1>2. DecoderInv'
  BY <1>1, DecoderGivenUp DEF Silence, reset, BaseInv, DecoderInv
<1>3. RunsInv' /\ HistoryTypes'
  BY DEF BaseInv, RunsInv, HistoryTypes, Silence, reset, history
<1>. QED  BY <1>1, <1>2, <1>3 DEF BaseInv

LEMMA BaseStep ==
  ASSUME BaseInv, [Next]_vars
  PROVE  BaseInv'
<1>1. CASE Tick
  <2>1. DecoderInv'
    BY <1>1, DecoderUnchanged DEF BaseInv, Tick, implVars
  <2>2. RunsInv' /\ HistoryTypes'
    BY <1>1 DEF BaseInv, RunsInv, HistoryTypes, Tick, implVars, history
  <2>. QED  BY <2>1, <2>2 DEF BaseInv
<1>2. CASE UNCHANGED vars
  <2>1. DecoderInv'
    BY <1>2, DecoderUnchanged DEF BaseInv, vars, decoder, implVars
  <2>2. RunsInv' /\ HistoryTypes'
    BY <1>2 DEF BaseInv, RunsInv, HistoryTypes, vars, decoder, implVars, history
  <2>. QED  BY <2>1, <2>2 DEF BaseInv
<1>. QED  BY <1>1, <1>2, FeedBase, ReadBase, EndOfChunkBase, HandlerReturnsBase, SilenceBase
          DEF Next

LEMMA BaseInit == Init => BaseInv
<1> SUFFICES ASSUME Init PROVE BaseInv
  OBVIOUS
<1>1. Len(unpack_buf) = 0 /\ waiting_byte = 0 /\ unpack_buf \in Seq(Byte)
  BY DEF Init, ImplInit
<1>2. unpacked_pkg \in PkgFields
  BY ByteRange, WordRange DEF Init, ImplInit, PkgFields
<1>3. wait_unpack_data_len \in Word16
  BY WordRange DEF Init, ImplInit
<1>4. DecoderInv
  BY <1>1, <1>2, <1>3 DEF DecoderInv, Position, HeaderIs
<1>5. RunsInv
  BY ReentryAssumption DEF Init, RunsInv
<1>6. HistoryTypes
  BY DEF Init, ImplInit, HistoryTypes
<1>. QED  BY <1>4, <1>5, <1>6 DEF BaseInv

-----------------------------------------------------------------------------
LEMMA BaseIsTyped ==
  ASSUME BaseInv
  PROVE  TypeOK
<1>1. \A i \in DOMAIN runs : runs[i].pos \in 0..runs[i].last
  <2>1. /\ runs \in Seq(Run)
        /\ \A i \in DOMAIN runs : runs[i].pos <= runs[i].last
    BY DEF BaseInv, RunsInv
  <2>2. \A i \in DOMAIN runs : runs[i] \in Run
    BY <2>1
  <2>3. \A r \in Run : r.pos \in Nat /\ r.last \in Nat
    BY DEF Run
  <2>. QED  BY ONLY <2>1, <2>2, <2>3
<1>. QED  BY <1>1 DEF BaseInv, DecoderInv, RunsInv, HistoryTypes, TypeOK

LEMMA BaseStays ==
  ASSUME BaseInv
  PROVE  StaysInBuffer
<1>1. DecoderInv  BY DEF BaseInv
<1>2. Len(unpack_buf) <= UnpackBufSize
  <2>1. CASE waiting_byte < 14
    BY <1>1, <2>1, DecoderRoom, DecoderFacts, BufSizeAssumption
  <2>2. CASE waiting_byte = 14
    BY <1>1, <2>2 DEF DecoderInv, Position
  <2>. QED  BY <1>1, <2>1, <2>2, DecoderFacts
<1>3. waiting_byte = 12 => wait_unpack_data_len > 0
  BY <1>1, DecoderFacts DEF DecoderInv, Position
<1>4. waiting_byte >= 13 => Len(unpack_buf) >= 12 + unpacked_pkg.data_len
  BY <1>1, DecoderFacts DEF DecoderInv, Position
<1>. QED  BY <1>2, <1>3, <1>4 DEF StaysInBuffer

(* The types, at every depth of nested runs.                               *)
THEOREM ReentryTypes == Spec => []TypeOK
<1>. QED  BY BaseInit, BaseStep, BaseIsTyped, PTL DEF Spec

(* For every buffer of at least 14 bytes and every line: a handler that    *)
(* runs the host again, and so enters unpack_run from its own callback,    *)
(* cannot make the decoder write behind its buffer, count its data bytes   *)
(* below 0 or read a checksum from bytes that were not stored.             *)
THEOREM ReentryStaysInBuffer == Spec => []StaysInBuffer
<1>. QED  BY BaseInit, BaseStep, BaseStays, PTL DEF Spec

-----------------------------------------------------------------------------
(* What is in the buffer was unpacked: all of it, one byte after another,  *)
(* while the packet is incomplete, and the packet itself from then on.     *)
\* The first n bytes of buf are those of f from its s-th on.
Stretch(f, s, buf, n) ==
  /\ s >= 1 /\ s + n - 1 <= Len(f)
  /\ \A i \in 1..n : buf[i] = f[s + i - 1]

Incomplete == waiting_byte < 14 \/ Len(unpack_buf) = 13 + unpacked_pkg.data_len

Tracked ==
  Incomplete /\ Len(unpack_buf) > 0 =>
    Stretch(fed, start, unpack_buf, Len(unpack_buf)) /\ start + Len(unpack_buf) - 1 = Len(fed)

Repeatable ==
  ~Incomplete =>
    /\ Stretch(fed, start, unpack_buf, 14 + unpacked_pkg.data_len)
    /\ IsFrame(SubSeq(fed, start, start + 13 + unpacked_pkg.data_len))

\* The package is one of the frames that were unpacked.
Delivered(f, s, pkg) ==
  /\ s >= 1 /\ s + 13 + pkg.data_len <= Len(f)
  /\ Carries(SubSeq(f, s, s + 13 + pkg.data_len), pkg)

AllDelivered == \A k \in DOMAIN out : Delivered(fed, found[k], out[k])

TraceInv == BaseInv /\ Tracked /\ Repeatable /\ AllDelivered

\* A stretch of what was unpacked stays what it is.
LEMMA StretchKept ==
  ASSUME NEW s \in Seq(Byte), NEW byte \in Byte, NEW a \in Nat, NEW b \in Nat,
         a >= 1, b <= Len(s)
  PROVE  SubSeq(Append(s, byte), a, b) = SubSeq(s, a, b)
<1> DEFINE t == Append(s, byte)
<1>1. t \in Seq(Byte) /\ Len(t) = Len(s) + 1 /\ \A i \in 1..Len(s) : t[i] = s[i]
  BY AppendProperties
<1> HIDE DEF t
<1>2. \A i \in a..b : i \in 1..Len(s) /\ s[i] \in Byte /\ t[i] \in Byte
  <2>1. \A i \in a..b : i \in 1..Len(s)
    OBVIOUS
  <2>. QED  BY <1>1, <2>1
<1>3. /\ SubSeq(s, a, b) \in Seq(Byte)
      /\ Len(SubSeq(s, a, b)) = IF a <= b THEN b - a + 1 ELSE 0
      /\ \A i \in 1..(b - a + 1) : SubSeq(s, a, b)[i] = s[a + i - 1]
  BY <1>2, SubSeqProperties
<1>4. /\ SubSeq(t, a, b) \in Seq(Byte)
      /\ Len(SubSeq(t, a, b)) = IF a <= b THEN b - a + 1 ELSE 0
      /\ \A i \in 1..(b - a + 1) : SubSeq(t, a, b)[i] = t[a + i - 1]
  BY <1>2, SubSeqProperties
<1>5. \A i \in 1..(b - a + 1) : SubSeq(t, a, b)[i] = SubSeq(s, a, b)[i]
  <2>1. \A i \in 1..(b - a + 1) : a + i - 1 \in 1..Len(s)
    OBVIOUS
  <2>. QED  BY <1>1, <1>3, <1>4, <2>1
<1>6. \A i \in 1..Len(SubSeq(t, a, b)) : SubSeq(t, a, b)[i] = SubSeq(s, a, b)[i]
  BY <1>4, <1>5
<1>. QED  BY <1>3, <1>4, <1>6, SeqEqual DEF t

\* Two stretches that agree in their bytes are the same sequence.
LEMMA StretchEqual ==
  ASSUME NEW s \in Seq(Byte), NEW t \in Seq(Byte), NEW a \in Nat, NEW b \in Nat, NEW n \in Nat,
         a >= 1, b >= 1, a + n - 1 <= Len(s), b + n - 1 <= Len(t),
         \A i \in 1..n : s[a + i - 1] = t[b + i - 1]
  PROVE  /\ SubSeq(s, a, a + n - 1) = SubSeq(t, b, b + n - 1)
         /\ SubSeq(s, a, a + n - 1) \in Seq(Byte)
         /\ Len(SubSeq(s, a, a + n - 1)) = n
         /\ \A i \in 1..n : SubSeq(s, a, a + n - 1)[i] = s[a + i - 1]
<1> DEFINE f == SubSeq(s, a, a + n - 1)
           g == SubSeq(t, b, b + n - 1)
<1>1. /\ \A i \in a..(a + n - 1) : s[i] \in Byte
      /\ \A i \in b..(b + n - 1) : t[i] \in Byte
      /\ a \in Int /\ a + n - 1 \in Int /\ b \in Int /\ b + n - 1 \in Int
  OBVIOUS
<1>2. /\ f \in Seq(Byte)
      /\ Len(f) = IF a <= a + n - 1 THEN a + n - 1 - a + 1 ELSE 0
      /\ \A i \in 1..(a + n - 1 - a + 1) : f[i] = s[a + i - 1]
  BY <1>1, SubSeqProperties
<1>3. /\ g \in Seq(Byte)
      /\ Len(g) = IF b <= b + n - 1 THEN b + n - 1 - b + 1 ELSE 0
      /\ \A i \in 1..(b + n - 1 - b + 1) : g[i] = t[b + i - 1]
  BY <1>1, SubSeqProperties
<1> HIDE DEF f, g
<1>4. Len(f) = n /\ Len(g) = n /\ a + n - 1 - a + 1 = n /\ b + n - 1 - b + 1 = n
  BY <1>2, <1>3
<1>5. \A i \in 1..Len(f) : f[i] = g[i]
  BY <1>2, <1>3, <1>4
<1>6. f = g
  BY <1>2, <1>3, <1>4, <1>5, SeqEqual
<1>. QED  BY <1>2, <1>4, <1>6 DEF f, g

\* A byte is unpacked and stored behind the stretch,
LEMMA StretchGrows ==
  ASSUME NEW f \in Seq(Byte), NEW byte \in Byte, NEW b \in Seq(Byte), NEW c \in Seq(Byte),
         NEW s \in Nat, Stretch(f, s, b, Len(b)), s + Len(b) - 1 = Len(f),
         Len(c) = Len(b) + 1, \A i \in 1..Len(b) : c[i] = b[i], c[Len(b) + 1] = byte
  PROVE  /\ Stretch(Append(f, byte), s, c, Len(c))
         /\ s + Len(c) - 1 = Len(Append(f, byte))
<1> DEFINE g == Append(f, byte)
           m == Len(b)
<1>1. /\ g \in Seq(Byte) /\ Len(g) = Len(f) + 1 /\ g[Len(f) + 1] = byte
      /\ \A i \in 1..Len(f) : g[i] = f[i]
  BY AppendProperties
<1>2. m \in Nat /\ Len(f) \in Nat
  OBVIOUS
<1>3. /\ s >= 1 /\ s + m - 1 = Len(f) /\ Len(c) = m + 1 /\ c[m + 1] = byte
      /\ \A i \in 1..m : b[i] = f[s + i - 1]
      /\ \A i \in 1..m : c[i] = b[i]
  BY DEF Stretch
<1> HIDE DEF g, m
<1>4. ASSUME NEW i \in 1..(m + 1)
      PROVE  c[i] = g[s + i - 1]
  <2>1. CASE i = m + 1
    BY <2>1, <1>1, <1>2, <1>3, SMTT(30)
  <2>2. CASE i \in 1..m
    <3>1. s + i - 1 \in 1..Len(f)
      BY <2>2, <1>2, <1>3
    <3>. QED  BY <2>2, <3>1, <1>1, <1>3
  <2>. QED  BY <1>2, <2>1, <2>2
<1>5. s + Len(c) - 1 = Len(g)
  BY <1>1, <1>2, <1>3
<1>6. s + Len(c) - 1 <= Len(g)
  BY <1>1, <1>2, <1>5
<1>. QED  BY <1>3, <1>4, <1>5, <1>6 DEF Stretch, g

\* or unpacked only: the stretch is still there.
LEMMA StretchStays ==
  ASSUME NEW f \in Seq(Byte), NEW byte \in Byte, NEW b \in Seq(Byte), NEW c \in Seq(Byte),
         NEW s \in Nat, NEW n \in Nat, Stretch(f, s, b, n), n <= Len(b),
         \A i \in 1..Len(b) : c[i] = b[i]
  PROVE  Stretch(Append(f, byte), s, c, n)
<1> DEFINE g == Append(f, byte)
<1>1. /\ g \in Seq(Byte) /\ Len(g) = Len(f) + 1
      /\ \A i \in 1..Len(f) : g[i] = f[i]
  BY AppendProperties
<1>2. s >= 1 /\ s + n - 1 <= Len(f) /\ \A i \in 1..n : b[i] = f[s + i - 1]
  BY DEF Stretch
<1> HIDE DEF g
<1>3. ASSUME NEW i \in 1..n
      PROVE  c[i] = g[s + i - 1]
  <2>1. i \in 1..Len(b) /\ s + i - 1 \in 1..Len(f)
    BY <1>2
  <2>. QED  BY <2>1, <1>1, <1>2
<1>4. s + n - 1 <= Len(g)
  BY <1>1, <1>2
<1>. QED  BY <1>2, <1>3, <1>4 DEF Stretch, g

\* What a stretch is as a sequence.
LEMMA StretchTaken ==
  ASSUME NEW f \in Seq(Byte), NEW b \in Seq(Byte), NEW s \in Nat, NEW n \in Nat,
         Stretch(f, s, b, n), n <= Len(b)
  PROVE  /\ SubSeq(f, s, s + n - 1) \in Seq(Byte)
         /\ Len(SubSeq(f, s, s + n - 1)) = n
         /\ \A i \in 1..n : SubSeq(f, s, s + n - 1)[i] = b[i]
         /\ n = Len(b) => SubSeq(f, s, s + n - 1) = b
<1> DEFINE g == SubSeq(f, s, s + n - 1)
<1>1. s >= 1 /\ s + n - 1 <= Len(f) /\ \A i \in 1..n : b[i] = f[s + i - 1]
  BY DEF Stretch
<1>2. /\ g \in Seq(Byte) /\ Len(g) = n
      /\ \A i \in 1..n : g[i] = f[s + i - 1]
  <2>1. \A i \in 1..n : f[s + i - 1] = f[s + i - 1]
    OBVIOUS
  <2>. QED  BY <1>1, <2>1, StretchEqual
<1> HIDE DEF g
<1>3. \A i \in 1..n : g[i] = b[i]
  BY <1>1, <1>2
<1>4. n = Len(b) => g = b
  BY <1>2, <1>3, SeqEqual
<1>. QED  BY <1>2, <1>3, <1>4 DEF g

\* The package made from a buffer that starts with a frame is the frame's.
LEMMA MadeFromFrame ==
  ASSUME NEW f \in Seq(Byte), NEW b \in Seq(Byte), NEW pkg \in PkgFields,
         Len(f) = 14 + pkg.data_len, Len(b) >= 13 + pkg.data_len, IsFrame(f),
         \A i \in 1..(14 + pkg.data_len) : f[i] = b[i], HeaderIs(b, pkg, 14)
  PROVE  Carries(f, PkgWithData(pkg, b))
<1> DEFINE n == pkg.data_len
           d == PkgWithData(pkg, b)
<1>1. n \in Nat
  BY PkgRange
<1>2. SubSeq(b, 13, 12 + n) = SubSeq(f, 13, 12 + n)
  <2> HIDE DEF n
  <2>1. 13 + n - 1 <= Len(b) /\ 13 + n - 1 <= Len(f)
    BY <1>1 DEF n
  <2>2. \A i \in 1..n : b[13 + i - 1] = f[13 + i - 1]
    <3>1. \A i \in 1..n : 13 + i - 1 \in 1..(14 + n)
      BY <1>1
    <3>. QED  BY <3>1 DEF n
  <2>3. SubSeq(b, 13, 13 + n - 1) = SubSeq(f, 13, 13 + n - 1)
    BY <1>1, <2>1, <2>2, StretchEqual
  <2>4. 13 + n - 1 = 12 + n
    BY <1>1
  <2>. QED  BY ONLY <2>3, <2>4
<1>3. pkg.sender_host_id = b[3] /\ pkg.msg_id = 256 * b[5] + b[6] /\ pkg.seq = b[9]
  BY DEF HeaderIs
<1>4. b[3] = f[3] /\ b[5] = f[5] /\ b[6] = f[6] /\ b[9] = f[9]
  BY <1>1
<1>5. HeaderSize + 1 = 13 /\ HeaderSize + n = 12 + n
  OBVIOUS
<1>6. d = [sender_host_id |-> pkg.sender_host_id, target_host_id |-> pkg.target_host_id,
           msg_id |-> pkg.msg_id, data_len |-> n, seq |-> pkg.seq,
           need_ack |-> pkg.need_ack, is_ack |-> pkg.is_ack,
           forword_cnt |-> pkg.forword_cnt, data |-> SubSeq(b, 13, 12 + n)]
  BY ONLY <1>5, Zenon DEF PkgWithData, d, n
<1>7. /\ d.sender_host_id = pkg.sender_host_id /\ d.msg_id = pkg.msg_id
      /\ d.seq = pkg.seq /\ d.data_len = n /\ d.data = SubSeq(b, 13, 12 + n)
  <2> HIDE DEF d, n
  <2>. QED  BY ONLY <1>6
<1> HIDE DEF d, n
<1>8. Carries(f, d)
  BY <1>2, <1>3, <1>4, <1>7 DEF Carries
<1>. QED  BY <1>8 DEF d

\* A frame is complete in the buffer,
LEMMA FrameComplete ==
  ASSUME NEW f \in Seq(Byte), NEW byte \in Byte, NEW b \in Seq(Byte), NEW c \in Seq(Byte),
         NEW s \in Nat, NEW n \in Nat, Stretch(f, s, b, Len(b)), s + Len(b) - 1 = Len(f),
         Len(c) = Len(b) + 1, \A i \in 1..Len(b) : c[i] = b[i], c[Len(b) + 1] = byte,
         IsFrame(c), Len(c) = 14 + n
  PROVE  /\ Stretch(Append(f, byte), s, c, 14 + n)
         /\ IsFrame(SubSeq(Append(f, byte), s, s + 13 + n))
<1>1. Stretch(Append(f, byte), s, c, Len(c))
  BY StretchGrows
<1>2. Append(f, byte) \in Seq(Byte) /\ Len(c) \in Nat /\ Len(c) <= Len(c)
  BY AppendProperties
<1>3. Stretch(Append(f, byte), s, c, 14 + n)
  BY ONLY <1>1, Len(c) = 14 + n
<1>4. SubSeq(Append(f, byte), s, s + (14 + n) - 1) = c
  <2> DEFINE g == Append(f, byte)
             m == 14 + n
  <2>1. g \in Seq(Byte)
    BY AppendProperties
  <2>2. m \in Nat
    OBVIOUS
  <2>3. Stretch(g, s, c, m) /\ m <= Len(c)
    BY <1>3
  <2>4. m = Len(c)
    OBVIOUS
  <2> HIDE DEF g, m
  <2>5. /\ SubSeq(g, s, s + m - 1) \in Seq(Byte) /\ Len(SubSeq(g, s, s + m - 1)) = m
        /\ \A i \in 1..m : SubSeq(g, s, s + m - 1)[i] = c[i]
    BY ONLY <2>1, <2>2, <2>3, StretchTaken, s \in Nat, c \in Seq(Byte)
  <2>6. SubSeq(g, s, s + m - 1) = c
    BY ONLY <2>4, <2>5, SeqEqual, c \in Seq(Byte)
  <2>. QED  BY <2>6 DEF g, m
<1>5. s + (14 + n) - 1 = s + 13 + n
  OBVIOUS
<1>6. IsFrame(SubSeq(Append(f, byte), s, s + 13 + n))
  BY ONLY <1>4, <1>5, IsFrame(c)
<1>. QED  BY ONLY <1>3, <1>6

\* and stays in it, whatever comes behind it.
LEMMA FrameStays ==
  ASSUME NEW f \in Seq(Byte), NEW byte \in Byte, NEW b \in Seq(Byte), NEW c \in Seq(Byte),
         NEW s \in Nat, NEW n \in Nat, Stretch(f, s, b, 14 + n), 14 + n <= Len(b),
         \A i \in 1..Len(b) : c[i] = b[i], IsFrame(SubSeq(f, s, s + 13 + n))
  PROVE  /\ Stretch(Append(f, byte), s, c, 14 + n)
         /\ IsFrame(SubSeq(Append(f, byte), s, s + 13 + n))
<1>1. 14 + n \in Nat
  OBVIOUS
<1>2. Stretch(Append(f, byte), s, c, 14 + n)
  BY <1>1, StretchStays
<1>3. s >= 1 /\ s + 13 + n \in Nat /\ s + 13 + n <= Len(f)
  BY DEF Stretch
<1>4. SubSeq(Append(f, byte), s, s + 13 + n) = SubSeq(f, s, s + 13 + n)
  BY ONLY <1>3, StretchKept, f \in Seq(Byte), byte \in Byte, s \in Nat
<1>5. IsFrame(SubSeq(Append(f, byte), s, s + 13 + n))
  BY ONLY <1>4, IsFrame(SubSeq(f, s, s + 13 + n))
<1>. QED  BY ONLY <1>2, <1>5

LEMMA FrameDelivered ==
  ASSUME NEW g \in Seq(Byte), NEW c \in Seq(Byte), NEW s \in Nat, NEW pkg \in PkgFields,
         Stretch(g, s, c, 14 + pkg.data_len), 14 + pkg.data_len <= Len(c),
         IsFrame(SubSeq(g, s, s + 13 + pkg.data_len)), HeaderIs(c, pkg, 14)
  PROVE  Delivered(g, s, PkgWithData(pkg, c))
<1> DEFINE n == 14 + pkg.data_len
           f == SubSeq(g, s, s + 13 + pkg.data_len)
<1>1. pkg.data_len \in Nat /\ n \in Nat /\ n = 14 + pkg.data_len
  BY PkgRange
<1> HIDE DEF n
<1>2. s + n - 1 = s + 13 + pkg.data_len
  <2> DEFINE l == pkg.data_len
  <2>1. l \in Nat /\ n = 14 + l
    BY <1>1
  <2> HIDE DEF l
  <2>2. s + (14 + l) - 1 = s + 13 + l
    BY ONLY <2>1, s \in Nat
  <2>3. s + n - 1 = s + 13 + l
    BY ONLY <2>1, <2>2
  <2>. QED  BY ONLY <2>3 DEF l
<1>3. Stretch(g, s, c, n) /\ n <= Len(c)
  BY DEF n
<1>4. /\ SubSeq(g, s, s + n - 1) \in Seq(Byte) /\ Len(SubSeq(g, s, s + n - 1)) = n
      /\ \A i \in 1..n : SubSeq(g, s, s + n - 1)[i] = c[i]
  <2>1. n \in Nat
    BY <1>1
  <2>. QED  BY ONLY <2>1, <1>3, StretchTaken, g \in Seq(Byte), c \in Seq(Byte), s \in Nat
<1>5. f \in Seq(Byte) /\ Len(f) = n /\ \A i \in 1..n : f[i] = c[i]
  BY ONLY <1>2, <1>4 DEF f
<1>6. IsFrame(f)
  OBVIOUS
<1> HIDE DEF f
<1>7. Len(c) >= 13 + pkg.data_len
  BY <1>1, <1>3
<1>8. Carries(f, PkgWithData(pkg, c))
  BY ONLY <1>1, <1>5, <1>6, <1>7, MadeFromFrame, c \in Seq(Byte), pkg \in PkgFields,
          HeaderIs(c, pkg, 14) DEF n
<1>9. s >= 1 /\ s + 13 + pkg.data_len <= Len(g)
  BY <1>1, <1>2, <1>3 DEF Stretch
<1>10. PkgWithData(pkg, c).data_len = pkg.data_len
  BY DEF PkgWithData
<1>. QED  BY ONLY <1>8, <1>9, <1>10 DEF Delivered, f
-----------------------------------------------------------------------------
\* What was delivered stays a frame among the bytes unpacked.
LEMMA DeliveredKept ==
  ASSUME NEW f \in Seq(Byte), NEW byte \in Byte, NEW s \in Nat, NEW pkg \in Packages,
         Delivered(f, s, pkg)
  PROVE  Delivered(Append(f, byte), s, pkg)
<1>1. s >= 1 /\ s + 13 + pkg.data_len <= Len(f) /\ pkg.data_len \in Nat
  BY WordRange DEF Delivered, Packages
<1>2. Len(Append(f, byte)) = Len(f) + 1 /\ Len(f) \in Nat
  OBVIOUS
<1>3. s + 13 + pkg.data_len \in Nat
  BY <1>1
<1>4. SubSeq(Append(f, byte), s, s + 13 + pkg.data_len) = SubSeq(f, s, s + 13 + pkg.data_len)
  BY ONLY <1>1, <1>3, StretchKept, f \in Seq(Byte), byte \in Byte, s \in Nat
<1>5. s + 13 + pkg.data_len <= Len(Append(f, byte))
  BY ONLY <1>1, <1>2, <1>3
<1>6. Carries(SubSeq(f, s, s + 13 + pkg.data_len), pkg)
  BY DEF Delivered
<1>. QED  BY ONLY <1>1, <1>4, <1>5, <1>6 DEF Delivered

\* The first byte of a packet.
LEMMA StretchFirst ==
  ASSUME NEW f \in Seq(Byte), NEW byte \in Byte, NEW c, c[1] = byte
  PROVE  /\ Stretch(Append(f, byte), Len(Append(f, byte)), c, 1)
         /\ Len(Append(f, byte)) + 1 - 1 = Len(Append(f, byte))
<1> DEFINE g == Append(f, byte)
<1>1. Len(g) = Len(f) + 1 /\ Len(f) \in Nat /\ g[Len(g)] = byte
  BY AppendProperties
<1> HIDE DEF g
<1>2. \A i \in 1..1 : c[i] = g[Len(g) + i - 1]
  <2>1. \A i \in 1..1 : i = 1 /\ Len(g) + i - 1 = Len(g)
    BY <1>1
  <2>. QED  BY ONLY <1>1, <2>1, c[1] = byte
<1>. QED  BY <1>1, <1>2 DEF Stretch, g

(* The callback is entered: the packet is whole in the buffer, now or      *)
(* since the byte that completed it, and goes on being so.                 *)
LEMMA EnterFrame ==
  ASSUME UnpackBufSize <= 65537, BaseInv, Tracked, Repeatable, NEW byte \in Byte,
         waiting_byte = 14, CrcMatches(Stored(byte))
  PROVE  /\ Stretch(Append(fed, byte), start, Stored(byte), 14 + unpacked_pkg.data_len)
         /\ IsFrame(SubSeq(Append(fed, byte), start, start + 13 + unpacked_pkg.data_len))
         /\ 14 + unpacked_pkg.data_len <= Len(Stored(byte))
<1> DEFINE n == unpacked_pkg.data_len
           c == Stored(byte)
           b == unpack_buf
<1>1. /\ DecoderInv /\ fed \in Seq(Byte) /\ start \in Nat
      /\ b \in Seq(Byte) /\ Len(b) \in Nat /\ n \in Nat
      /\ Len(b) >= 13 + n
  BY DecoderFacts DEF BaseInv, HistoryTypes, DecoderInv, Position
<1>2. /\ c \in Seq(Byte) /\ \A i \in 1..Len(b) : c[i] = b[i]
      /\ Len(c) \in Nat /\ Len(c) >= Len(b)
  <2>1. /\ c \in Seq(Byte) /\ \A i \in 1..Len(b) : c[i] = b[i]
        /\ Len(c) >= Len(b)
    BY ONLY <1>1, StoredKeeps, byte \in Byte
  <2>. QED  BY <2>1
<1>3. CASE Len(b) = 13 + n
  <2>1. /\ Len(c) = Len(b) + 1 /\ c[Len(b) + 1] = byte
    BY <1>1, <1>3, DecoderStores
  <2>2. IsFrame(c) /\ Len(c) = 14 + n
    BY <1>1, <1>3, CompleteIsFrame
  <2>3. Incomplete /\ Len(unpack_buf) > 0
    BY <1>1, <1>3 DEF Incomplete
  <2>4. Stretch(fed, start, b, Len(b)) /\ start + Len(b) - 1 = Len(fed)
    BY <2>3 DEF Tracked
  <2>5. 14 + n <= Len(c)
    BY <2>2, <1>1
  <2> HIDE DEF n, c, b
  <2>6. /\ Stretch(Append(fed, byte), start, c, 14 + n)
        /\ IsFrame(SubSeq(Append(fed, byte), start, start + 13 + n))
    BY ONLY <1>1, <1>2, <2>1, <2>2, <2>4, FrameComplete, byte \in Byte
  <2>. QED  BY <2>5, <2>6 DEF n, c, b
<1>4. CASE Len(b) # 13 + n
  <2>1. 14 + n <= Len(b) /\ 14 + n <= Len(c)
    BY <1>1, <1>2, <1>4
  <2>2. ~Incomplete
    BY <1>4 DEF Incomplete
  <2>3. /\ Stretch(fed, start, b, 14 + n)
        /\ IsFrame(SubSeq(fed, start, start + 13 + n))
    BY <2>2 DEF Repeatable
  <2> HIDE DEF n, c, b
  <2>4. /\ Stretch(Append(fed, byte), start, c, 14 + n)
        /\ IsFrame(SubSeq(Append(fed, byte), start, start + 13 + n))
    BY ONLY <1>1, <1>2, <2>1, <2>3, FrameStays, byte \in Byte
  <2>. QED  BY <2>1, <2>4 DEF n, c, b
<1>. QED  BY <1>3, <1>4

\* So are the deliveries, the new one with them.
LEMMA MoreDelivered ==
  ASSUME NEW f \in Seq(Byte), NEW byte \in Byte, NEW o \in Seq(Packages), NEW d \in Seq(Nat),
         Len(d) = Len(o), \A k \in 1..Len(o) : Delivered(f, d[k], o[k]),
         NEW pkg \in Packages, NEW s \in Nat, Delivered(Append(f, byte), s, pkg)
  PROVE  \A k \in 1..Len(Append(o, pkg)) :
           Delivered(Append(f, byte), Append(d, s)[k], Append(o, pkg)[k])
<1> DEFINE g == Append(f, byte)
           p == Append(o, pkg)
           e == Append(d, s)
<1>1. /\ Len(p) = Len(o) + 1 /\ p[Len(o) + 1] = pkg /\ \A k \in 1..Len(o) : p[k] = o[k]
      /\ e[Len(o) + 1] = s /\ \A k \in 1..Len(o) : e[k] = d[k]
      /\ Len(o) \in Nat
  BY AppendProperties
<1>2. \A k \in 1..Len(o) : d[k] \in Nat /\ o[k] \in Packages
  OBVIOUS
<1>3. \A k \in 1..Len(o) : Delivered(g, d[k], o[k])
  BY <1>2, DeliveredKept
<1>4. Delivered(g, s, pkg)
  OBVIOUS
<1> HIDE DEF g, p, e
<1>5. ASSUME NEW k \in 1..(Len(o) + 1)
      PROVE  Delivered(g, e[k], p[k])
  <2>1. CASE k = Len(o) + 1
    BY <2>1, <1>1, <1>4
  <2>2. CASE k \in 1..Len(o)
    BY <2>2, <1>1, <1>3
  <2>. QED  BY <1>1, <2>1, <2>2
<1>. QED  BY <1>1, <1>5 DEF g, p, e

-----------------------------------------------------------------------------
(* The trace through every action.                                         *)
LEMMA EnterTrace ==
  ASSUME UnpackBufSize <= 65537, TraceInv, NEW byte \in Byte, EnterCallback(byte),
         fed' = Append(fed, byte), BaseInv',
         start' = IF Len(unpack_buf') = 1 THEN Len(fed') ELSE start
  PROVE  Tracked' /\ Repeatable' /\ AllDelivered'
<1> DEFINE n == unpacked_pkg.data_len
           pkg == PkgWithData(unpacked_pkg, Stored(byte))
<1>1. BaseInv /\ Tracked /\ Repeatable /\ AllDelivered /\ DecoderInv
  BY DEF TraceInv, BaseInv
<1>2. /\ waiting_byte = 14 /\ waiting_byte' = 14 /\ CrcMatches(Stored(byte))
      /\ unpack_buf' = Stored(byte) /\ unpacked_pkg' = unpacked_pkg
      /\ out' = Append(out, pkg) /\ found' = Append(found, start)
  BY DEF EnterCallback, Completes
<1>3. /\ Stretch(fed', start, unpack_buf', 14 + n)
      /\ IsFrame(SubSeq(fed', start, start + 13 + n))
      /\ 14 + n <= Len(unpack_buf')
  BY <1>1, <1>2, EnterFrame
<1>4. /\ fed' \in Seq(Byte) /\ unpack_buf' \in Seq(Byte) /\ start \in Nat
      /\ unpacked_pkg \in PkgFields /\ n \in Nat /\ HeaderIs(unpack_buf', unpacked_pkg, 14)
  <2>1. DecoderInv' /\ HistoryTypes' /\ HistoryTypes
    BY <1>1 DEF BaseInv
  <2>2. HeaderIs(unpack_buf', unpacked_pkg', waiting_byte') /\ unpack_buf' \in Seq(Byte)
    BY <2>1 DEF DecoderInv
  <2>3. unpacked_pkg \in PkgFields
    BY <1>1 DEF DecoderInv
  <2>4. HeaderIs(unpack_buf', unpacked_pkg, 14)
    BY ONLY <1>2, <2>2
  <2>. QED  BY <2>1, <2>2, <2>3, <2>4, PkgRange DEF HistoryTypes
<1>5. Len(unpack_buf') # 1 /\ Len(unpack_buf') # 13 + n
  <2> DEFINE m == Len(unpack_buf')
  <2>1. m \in Nat
    BY <1>4
  <2>2. n \in Nat /\ 14 + n <= m
    BY <1>3, <1>4
  <2> HIDE DEF n, m
  <2>3. m # 1 /\ m # 13 + n
    BY ONLY <2>1, <2>2
  <2>. QED  BY <2>3 DEF n, m
<1>6. start' = start /\ ~Incomplete'
  BY <1>2, <1>5 DEF Incomplete
<1>7. Tracked' /\ Repeatable'
  BY <1>2, <1>3, <1>6 DEF Tracked, Repeatable
<1>8. Delivered(fed', start, pkg)
  BY ONLY <1>2, <1>3, <1>4, FrameDelivered
<1>9. /\ out \in Seq(Packages) /\ found \in Seq(Nat) /\ Len(found) = Len(out)
      /\ fed \in Seq(Byte) /\ \A k \in 1..Len(out) : Delivered(fed, found[k], out[k])
  <2>1. /\ out \in Seq(Packages) /\ found \in Seq(Nat) /\ Len(found) = Len(out)
        /\ fed \in Seq(Byte)
    BY <1>1 DEF BaseInv, HistoryTypes
  <2>2. DOMAIN out = 1..Len(out)
    BY <2>1
  <2>3. \A k \in DOMAIN out : Delivered(fed, found[k], out[k])
    BY <1>1 DEF AllDelivered
  <2>. QED  BY ONLY <2>1, <2>2, <2>3
<1>10. pkg \in Packages
  BY <1>1, <1>2, DeliveredType
<1> HIDE DEF pkg, n
<1>11. \A k \in 1..Len(out') : Delivered(fed', found'[k], out'[k])
  BY ONLY <1>2, <1>4, <1>8, <1>9, <1>10, MoreDelivered, byte \in Byte, fed' = Append(fed, byte)
<1>12. out' \in Seq(Packages)
  BY <1>2, <1>9, <1>10
<1>. QED  BY <1>7, <1>11, <1>12 DEF AllDelivered

\* A byte that completes no packet.
LEMMA ByteTrace ==
  ASSUME TraceInv, NEW byte \in Byte, unpack_run(byte), ~Completes(byte), found' = found,
         fed' = Append(fed, byte),
         start' = IF Len(unpack_buf') = 1 THEN Len(fed') ELSE start
  PROVE  Tracked' /\ Repeatable' /\ AllDelivered'
<1>1. /\ DecoderInv /\ Tracked /\ AllDelivered /\ fed \in Seq(Byte) /\ start \in Nat
      /\ out \in Seq(Packages) /\ found \in Seq(Nat) /\ Len(found) = Len(out)
  BY DEF TraceInv, BaseInv, HistoryTypes
<1>2. /\ DecoderInv' /\ (GivenUp \/ Stores(byte) \/ Stays(byte))
      /\ waiting_byte' = 14 => Len(unpack_buf') = 13 + unpacked_pkg'.data_len
  BY <1>1, DecoderStep
<1>3. out' = out
  BY NoDelivery
<1>4. AllDelivered'
  <2>1. \A k \in 1..Len(out) : found[k] \in Nat /\ out[k] \in Packages
                              /\ Delivered(fed, found[k], out[k])
    <3>1. DOMAIN out = 1..Len(out)
      BY <1>1
    <3>2. \A k \in DOMAIN out : Delivered(fed, found[k], out[k])
      BY <1>1 DEF AllDelivered
    <3>3. \A k \in 1..Len(out) : found[k] \in Nat /\ out[k] \in Packages
      BY <1>1
    <3>. QED  BY ONLY <3>1, <3>2, <3>3
  <2>2. \A k \in 1..Len(out) : Delivered(fed', found[k], out[k])
    BY ONLY <2>1, <1>1, DeliveredKept, byte \in Byte, fed' = Append(fed, byte)
  <2>. QED  BY <1>1, <1>3, <2>2 DEF AllDelivered
<1>5. Incomplete'
  <2>1. waiting_byte' \in 0..14
    BY <1>2 DEF DecoderInv
  <2>. QED  BY <1>2, <2>1 DEF Incomplete
<1>6. Repeatable'
  BY <1>5 DEF Repeatable
<1>7. ASSUME unpack_buf'[1] = byte, Len(unpack_buf') = 1
      PROVE  Tracked'
  <2>1. start' = Len(Append(fed, byte)) /\ fed' = Append(fed, byte)
    BY <1>7
  <2>2. /\ Stretch(Append(fed, byte), Len(Append(fed, byte)), unpack_buf', 1)
        /\ Len(Append(fed, byte)) + 1 - 1 = Len(Append(fed, byte))
    BY ONLY <1>1, <1>7, StretchFirst, byte \in Byte
  <2>. QED  BY <1>7, <2>1, <2>2 DEF Tracked
<1>8. ASSUME GivenUp
      PROVE  Tracked'
  BY <1>8 DEF GivenUp, Tracked
<1>9. ASSUME Stays(byte)
      PROVE  Tracked'
  <2>1. Len(unpack_buf) = 1 /\ unpack_buf[1] = byte
    BY <1>1, <1>9 DEF Stays, DecoderInv, Position, HeaderIs
  <2>. QED  BY <1>7, <1>9, <2>1 DEF Stays
<1>10. ASSUME Stores(byte)
       PROVE  Tracked'
  <2> DEFINE b == unpack_buf
             c == Stored(byte)
  <2>1. /\ b \in Seq(Byte) /\ c \in Seq(Byte) /\ Len(b) \in Nat /\ Len(c) = Len(b) + 1
        /\ \A i \in 1..Len(b) : c[i] = b[i]
        /\ c[Len(b) + 1] = byte /\ unpack_buf' = c
    BY <1>1, <1>10, DecoderStores DEF Stores, DecoderInv
  <2>2. CASE Len(b) = 0
    BY <1>7, <2>1, <2>2
  <2>3. CASE Len(b) # 0
    <3>1. Stretch(fed, start, b, Len(b)) /\ start + Len(b) - 1 = Len(fed)
      BY <1>1, <1>10, <2>1, <2>3 DEF Tracked, Incomplete, Stores
    <3>2. start' = start /\ Len(c) = Len(b) + 1
      BY <2>1, <2>3
    <3>3. /\ Stretch(Append(fed, byte), start, c, Len(c))
          /\ start + Len(c) - 1 = Len(Append(fed, byte))
      <4> HIDE DEF b, c
      <4>. QED  BY ONLY <1>1, <2>1, <3>1, StretchGrows, byte \in Byte
    <3>. QED  BY <2>1, <3>2, <3>3 DEF Tracked
  <2>. QED  BY <2>2, <2>3
<1>. QED  BY <1>2, <1>4, <1>6, <1>8, <1>9, <1>10

LEMMA FeedTrace ==
  ASSUME UnpackBufSize <= 65537, TraceInv, Feed
  PROVE  TraceInv'
<1>1. BaseInv /\ BaseInv'
  BY FeedBase DEF TraceInv
<1>2. /\ NextByte \in Byte /\ fed' = Append(fed, NextByte)
      /\ start' = IF Len(unpack_buf') = 1 THEN Len(fed') ELSE start
      /\ \/ EnterCallback(NextByte)
         \/ ~Completes(NextByte) /\ unpack_run(NextByte) /\ found' = found
  BY <1>1, FeedCases
<1>3. Tracked' /\ Repeatable' /\ AllDelivered'
  BY <1>1, <1>2, EnterTrace, ByteTrace
<1>. QED  BY <1>1, <1>3 DEF TraceInv

\* The packet is given up by the silence test and behind the handler.
LEMMA GivenUpTrace ==
  ASSUME TraceInv, GivenUp, UNCHANGED <<fed, found, out>>
  PROVE  Tracked' /\ Repeatable' /\ AllDelivered'
  BY DEF TraceInv, GivenUp, Tracked, Repeatable, Incomplete, AllDelivered

\* Nothing happens to the decoder.
LEMMA UnchangedTrace ==
  ASSUME TraceInv, UNCHANGED <<unpack_buf, waiting_byte, unpacked_pkg, out, fed, start, found>>
  PROVE  Tracked' /\ Repeatable' /\ AllDelivered'
  BY DEF TraceInv, Tracked, Repeatable, Incomplete, AllDelivered

LEMMA TraceStep ==
  ASSUME UnpackBufSize <= 65537, TraceInv, [Next]_vars
  PROVE  TraceInv'
<1>1. BaseInv'
  BY BaseStep DEF TraceInv
<1>2. ASSUME Tracked' /\ Repeatable' /\ AllDelivered'
      PROVE  TraceInv'
  BY <1>1, <1>2 DEF TraceInv
<1>3. CASE Silence
  <2>1. GivenUp /\ UNCHANGED <<fed, found, out>>
    BY <1>3, SilenceBase DEF TraceInv, Silence, reset, history
  <2>. QED  BY <1>2, <2>1, GivenUpTrace
<1>4. CASE HandlerReturns
  <2>1. GivenUp /\ UNCHANGED <<fed, found, out>>
    BY <1>4, HandlerReturnsBase DEF TraceInv, HandlerReturns, history
  <2>. QED  BY <1>2, <2>1, GivenUpTrace
<1>5. CASE Feed
  BY <1>5, FeedTrace
<1>6. CASE UNCHANGED <<unpack_buf, waiting_byte, unpacked_pkg, out, fed, start, found>>
  BY <1>2, <1>6, UnchangedTrace
<1>7. ASSUME NEW n \in ReadSizes, Read(n)
      PROVE  UNCHANGED <<unpack_buf, waiting_byte, unpacked_pkg, out, fed, start, found>>
  BY <1>7 DEF Read, decoder, implVars, history
<1>8. ASSUME EndOfChunk \/ Tick \/ UNCHANGED vars
      PROVE  UNCHANGED <<unpack_buf, waiting_byte, unpacked_pkg, out, fed, start, found>>
  BY <1>8 DEF EndOfChunk, Tick, vars, decoder, implVars, history
<1>. QED  BY <1>3, <1>4, <1>5, <1>6, <1>7, <1>8 DEF Next

LEMMA TraceInit == Init => TraceInv
<1> SUFFICES ASSUME Init PROVE TraceInv
  OBVIOUS
<1>1. Len(unpack_buf) = 0 /\ waiting_byte = 0 /\ DOMAIN out = {}
  BY DEF Init, ImplInit
<1>. QED  BY <1>1, BaseInit DEF TraceInv, Tracked, Repeatable, Incomplete, AllDelivered

LEMMA TraceIsNotMixed ==
  ASSUME TraceInv
  PROVE  DeliveredNotMixed
<1>1. ASSUME NEW k \in DOMAIN out
      PROVE  Carries(SubSeq(fed, found[k], found[k] + HeaderSize + out[k].data_len + CrcSize - 1),
                     out[k])
  <2>1. /\ out \in Seq(Packages) /\ found \in Seq(Nat) /\ Len(found) = Len(out)
    BY DEF TraceInv, BaseInv, HistoryTypes
  <2>2. out[k] \in Packages /\ found[k] \in Nat
    BY <2>1
  <2>3. out[k].data_len \in Nat
    BY <2>2, WordRange DEF Packages
  <2>4. found[k] + 12 + out[k].data_len + 2 - 1 = found[k] + 13 + out[k].data_len
    BY ONLY <2>2, <2>3
  <2>5. Carries(SubSeq(fed, found[k], found[k] + 13 + out[k].data_len), out[k])
    BY DEF TraceInv, AllDelivered, Delivered
  <2>. QED  BY ONLY <2>4, <2>5 DEF HeaderSize, CrcSize
<1>. QED  BY <1>1 DEF DeliveredNotMixed

(* For every buffer of up to 65537 bytes, every line and every way the     *)
(* handlers run the host: nested runs of the decoder lose packages and     *)
(* repeat them, but each package a handler gets is a whole frame the       *)
(* decoder got, with that frame's sender, message number and data.         *)
THEOREM ReentryMixesNothing ==
  ASSUME UnpackBufSize <= 65537
  PROVE  Spec => []DeliveredNotMixed
<1>1. TraceInv /\ [Next]_vars => TraceInv'
  BY TraceStep
<1>2. TraceInv => DeliveredNotMixed
  BY TraceIsNotMixed
<1>. QED  BY <1>1, <1>2, TraceInit, PTL DEF Spec
=============================================================================
