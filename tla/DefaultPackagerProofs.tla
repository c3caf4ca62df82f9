------------------------ MODULE DefaultPackagerProofs ------------------------
(***************************************************************************)
(* What the proofs about every use of the decoder need to know of it.      *)
(***************************************************************************)
EXTENDS DefaultPackager, TLAPS

(* The ranges of bytes and words, so that the proofs need not unfold them. *)
LEMMA ByteRange == \A b : b \in Byte <=> b \in Nat /\ b <= 255
  BY DEF Byte

LEMMA WordRange == \A w : w \in Word16 <=> w \in Nat /\ w <= 65535
  BY DEF Word16

\* The enumerators and the sizes are numbers in every proof below.
USE DEF PACK_BYTE_MAGIC_HEAD_1, PACK_BYTE_MAGIC_HEAD_2, PACK_BYTE_SENDER_HOST_ID,
        PACK_BYTE_TARGET_HOST_ID, PACK_BYTE_MSG_ID_HIGH, PACK_BYTE_MSG_ID_LOW,
        PACK_BYTE_DATA_LEN_HIGH, PACK_BYTE_DATA_LEN_LOW, PACK_BYTE_SEQ,
        PACK_BYTE_EX_FLAG, PACK_BYTE_RSVD1, PACK_BYTE_RSVD2, PACK_BYTE_DATA,
        PACK_BYTE_CRC16_HIGH, PACK_BYTE_CRC16_LOW, HeaderSize, CrcSize

LEMMA PkgRange ==
  ASSUME NEW pkg \in PkgFields
  PROVE  /\ pkg.data_len \in Nat /\ pkg.data_len <= 65535
         /\ pkg.msg_id \in Nat /\ pkg.msg_id <= 65535
  BY WordRange DEF PkgFields

-----------------------------------------------------------------------------
\* The packet is given up, or the next byte awaited.
GivenUp == unpack_buf' = <<>> /\ waiting_byte' = PACK_BYTE_MAGIC_HEAD_1

LEMMA AdvanceCases ==
  ASSUME NEW next, NEW bytes, NEW since, Advance(next, bytes, since)
  PROVE  GivenUp \/ (unpack_buf' = bytes /\ waiting_byte' = next)
  BY DEF Advance, GivenUp

-----------------------------------------------------------------------------
(* The fields after a header byte.                                         *)
LEMMA PkgUpdated ==
  ASSUME NEW pkg \in PkgFields, NEW byte \in Byte
  PROVE  /\ [pkg EXCEPT !.sender_host_id = byte] \in PkgFields
         /\ [pkg EXCEPT !.target_host_id = byte] \in PkgFields
         /\ [pkg EXCEPT !.seq = byte] \in PkgFields
  BY DEF PkgFields

LEMMA WordUpdated ==
  ASSUME NEW pkg \in PkgFields, NEW w \in Word16
  PROVE  /\ [pkg EXCEPT !.msg_id = w] \in PkgFields
         /\ [pkg EXCEPT !.data_len = w] \in PkgFields
  BY DEF PkgFields

\* The branches of WithField.
LEMMA WithFieldCases ==
  ASSUME NEW byte
  PROVE  /\ waiting_byte = 2 => WithField(byte) = [unpacked_pkg EXCEPT !.sender_host_id = byte]
         /\ waiting_byte = 3 => WithField(byte) = [unpacked_pkg EXCEPT !.target_host_id = byte]
         /\ waiting_byte = 4 => WithField(byte) = [unpacked_pkg EXCEPT !.msg_id = 256 * byte]
         /\ waiting_byte = 5 =>
              WithField(byte) = [unpacked_pkg EXCEPT !.msg_id = OrLowByte(@, byte)]
         /\ waiting_byte = 6 => WithField(byte) = [unpacked_pkg EXCEPT !.data_len = 256 * byte]
         /\ waiting_byte = 7 =>
              WithField(byte) = [unpacked_pkg EXCEPT !.data_len = OrLowByte(@, byte)]
         /\ waiting_byte = 8 => WithField(byte) = [unpacked_pkg EXCEPT !.seq = byte]
         /\ waiting_byte = 9 =>
              WithField(byte) = [unpacked_pkg EXCEPT !.need_ack = byte % 2,
                                                     !.is_ack = (byte \div 2) % 2,
                                                     !.forword_cnt = (byte \div 4) % 16]
         /\ waiting_byte = 10 => WithField(byte) = unpacked_pkg
  BY DEF WithField, ForwordCntBits

\* The fields of pkg are those of the header bytes, where byte w is awaited.
HeaderIs(bytes, pkg, w) ==
  /\ w > 0 => bytes[1] = MAGIC_1
  /\ w > 1 => bytes[2] = MAGIC_2
  /\ w > 2 => pkg.sender_host_id = bytes[3]
  /\ w > 3 => pkg.target_host_id = bytes[4]
  /\ w = 5 => pkg.msg_id = 256 * bytes[5]
  /\ w > 5 => pkg.msg_id = 256 * bytes[5] + bytes[6]
  /\ w = 7 => pkg.data_len = 256 * bytes[7]
  /\ w > 7 => pkg.data_len = 256 * bytes[7] + bytes[8]
  /\ w > 8 => pkg.seq = bytes[9]
  /\ w > 9 => /\ pkg.need_ack = bytes[10] % 2
             /\ pkg.is_ack = (bytes[10] \div 2) % 2
             /\ pkg.forword_cnt = (bytes[10] \div 4) % 16

\* A header byte fits its field.
LEMMA FieldTyped ==
  ASSUME unpacked_pkg \in PkgFields, waiting_byte \in 2..10, unpack_buf \in Seq(Byte),
         Len(unpack_buf) = waiting_byte, HeaderIs(unpack_buf, unpacked_pkg, waiting_byte),
         NEW byte \in Byte
  PROVE  WithField(byte) \in PkgFields
<1>1. byte \in Nat /\ byte <= 255 /\ 256 * byte \in Word16
  BY ByteRange, WordRange
<1>2. \A i \in 1..waiting_byte : unpack_buf[i] \in Byte
  OBVIOUS
<1>3. CASE waiting_byte = 5
  <2>1. unpack_buf[5] \in Byte /\ unpacked_pkg.msg_id = 256 * unpack_buf[5]
    <3>1. unpack_buf[5] \in Byte
      BY <1>2, <1>3
    <3>2. unpacked_pkg.msg_id = 256 * unpack_buf[5]
      BY <1>3 DEF HeaderIs
    <3>. QED  BY <3>1, <3>2
  <2>2. unpacked_pkg.msg_id + byte \in Word16
    <3>1. unpack_buf[5] \in Nat /\ unpack_buf[5] <= 255
      BY <2>1, ByteRange
    <3>. QED  BY <2>1, <3>1, <1>1, WordRange, SMTT(30)
  <2>3. WithField(byte) = [unpacked_pkg EXCEPT !.msg_id = unpacked_pkg.msg_id + byte]
    BY <1>3, WithFieldCases DEF OrLowByte
  <2>. QED  BY <2>2, <2>3, WordUpdated
<1>4. CASE waiting_byte = 7
  <2>1. unpack_buf[7] \in Byte /\ unpacked_pkg.data_len = 256 * unpack_buf[7]
    <3>1. unpack_buf[7] \in Byte
      BY <1>2, <1>4
    <3>2. unpacked_pkg.data_len = 256 * unpack_buf[7]
      BY <1>4 DEF HeaderIs
    <3>. QED  BY <3>1, <3>2
  <2>2. unpacked_pkg.data_len + byte \in Word16
    <3>1. unpack_buf[7] \in Nat /\ unpack_buf[7] <= 255
      BY <2>1, ByteRange
    <3>. QED  BY <2>1, <3>1, <1>1, WordRange, SMTT(30)
  <2>3. WithField(byte) = [unpacked_pkg EXCEPT !.data_len = unpacked_pkg.data_len + byte]
    BY <1>4, WithFieldCases DEF OrLowByte
  <2>. QED  BY <2>2, <2>3, WordUpdated
<1>5. CASE waiting_byte = 9
  <2> DEFINE a == byte % 2
             b == (byte \div 2) % 2
             c == (byte \div 4) % 16
  <2>1. a \in 0..1 /\ b \in 0..1 /\ c \in 0..15
    BY <1>1
  <2>2. WithField(byte) = [unpacked_pkg EXCEPT !.need_ack = a, !.is_ack = b, !.forword_cnt = c]
    BY <1>5, WithFieldCases
  <2> HIDE DEF a, b, c
  <2>3. [unpacked_pkg EXCEPT !.need_ack = a, !.is_ack = b, !.forword_cnt = c] \in PkgFields
    BY <2>1 DEF PkgFields
  <2>. QED  BY ONLY <2>2, <2>3, Zenon
<1>6. CASE waiting_byte \in {2, 3, 8}
  <2>1. \/ WithField(byte) = [unpacked_pkg EXCEPT !.sender_host_id = byte]
        \/ WithField(byte) = [unpacked_pkg EXCEPT !.target_host_id = byte]
        \/ WithField(byte) = [unpacked_pkg EXCEPT !.seq = byte]
    BY <1>6, WithFieldCases
  <2>2. /\ [unpacked_pkg EXCEPT !.sender_host_id = byte] \in PkgFields
        /\ [unpacked_pkg EXCEPT !.target_host_id = byte] \in PkgFields
        /\ [unpacked_pkg EXCEPT !.seq = byte] \in PkgFields
    BY PkgUpdated
  <2>. QED  BY ONLY <2>1, <2>2, Zenon
<1>7. CASE waiting_byte \in {4, 6}
  <2>1. \/ WithField(byte) = [unpacked_pkg EXCEPT !.msg_id = 256 * byte]
        \/ WithField(byte) = [unpacked_pkg EXCEPT !.data_len = 256 * byte]
    BY <1>7, WithFieldCases
  <2>2. /\ [unpacked_pkg EXCEPT !.msg_id = 256 * byte] \in PkgFields
        /\ [unpacked_pkg EXCEPT !.data_len = 256 * byte] \in PkgFields
    BY <1>1, WordUpdated
  <2>. QED  BY ONLY <2>1, <2>2, Zenon
<1>8. CASE waiting_byte = 10
  BY <1>8, WithFieldCases
<1>. QED  BY <1>3, <1>4, <1>5, <1>6, <1>7, <1>8

\* A header byte appended keeps the others, and its field is the byte's.
LEMMA FieldTaken ==
  ASSUME unpacked_pkg \in PkgFields, waiting_byte \in 2..10,
         HeaderIs(unpack_buf, unpacked_pkg, waiting_byte), NEW byte,
         NEW bytes, \A i \in 1..waiting_byte : bytes[i] = unpack_buf[i],
         bytes[waiting_byte + 1] = byte
  PROVE  /\ HeaderIs(bytes, WithField(byte), waiting_byte + 1)
         /\ waiting_byte > 7 => WithField(byte).data_len = unpacked_pkg.data_len
<1> DEFINE pkg == WithField(byte)
<1>1. CASE waiting_byte = 9
  <2>1. pkg = [unpacked_pkg EXCEPT !.need_ack = byte % 2,
                                   !.is_ack = (byte \div 2) % 2,
                                   !.forword_cnt = (byte \div 4) % 16]
    BY <1>1, WithFieldCases
  <2> HIDE DEF pkg
  <2>2. /\ pkg.need_ack = byte % 2
        /\ pkg.is_ack = (byte \div 2) % 2
        /\ pkg.forword_cnt = (byte \div 4) % 16
    BY <2>1 DEF PkgFields
  <2>3. /\ pkg.sender_host_id = unpacked_pkg.sender_host_id
        /\ pkg.target_host_id = unpacked_pkg.target_host_id
        /\ pkg.msg_id = unpacked_pkg.msg_id
        /\ pkg.data_len = unpacked_pkg.data_len
        /\ pkg.seq = unpacked_pkg.seq
    BY <2>1 DEF PkgFields
  <2>4. HeaderIs(bytes, pkg, 10) /\ pkg.data_len = unpacked_pkg.data_len
    BY <1>1, <2>2, <2>3 DEF HeaderIs
  <2>. QED  BY <1>1, <2>4 DEF pkg
<1>2. CASE waiting_byte = 2
  BY <1>2, WithFieldCases DEF HeaderIs, PkgFields
<1>3. CASE waiting_byte = 3
  BY <1>3, WithFieldCases DEF HeaderIs, PkgFields
<1>4. CASE waiting_byte = 4
  BY <1>4, WithFieldCases DEF HeaderIs, PkgFields
<1>5. CASE waiting_byte = 5
  BY <1>5, WithFieldCases DEF HeaderIs, PkgFields, OrLowByte
<1>6. CASE waiting_byte = 6
  BY <1>6, WithFieldCases DEF HeaderIs, PkgFields
<1>7. CASE waiting_byte = 7
  BY <1>7, WithFieldCases DEF HeaderIs, PkgFields, OrLowByte
<1>8. CASE waiting_byte = 8
  BY <1>8, WithFieldCases DEF HeaderIs, PkgFields
<1>9. CASE waiting_byte = 10
  BY <1>9, WithFieldCases DEF HeaderIs
<1>. QED  BY <1>1, <1>2, <1>3, <1>4, <1>5, <1>6, <1>7, <1>8, <1>9

-----------------------------------------------------------------------------
(* The invariant of the decoder, wherever its bytes come from: how much is *)
(* stored follows from what is awaited, what is still to come fits the     *)
(* buffer, and the fields are those of the stored header.  When the        *)
(* decoder is entered from its own callback, bytes behind the packet may   *)
(* be stored while it still awaits the last byte.                          *)
Position ==
  /\ waiting_byte <= 11 => Len(unpack_buf) = waiting_byte
  /\ waiting_byte = 12 => /\ wait_unpack_data_len >= 1
                         /\ wait_unpack_data_len <= unpacked_pkg.data_len
                         /\ Len(unpack_buf) = 12 + unpacked_pkg.data_len - wait_unpack_data_len
  /\ waiting_byte = 13 => Len(unpack_buf) = 12 + unpacked_pkg.data_len
  /\ waiting_byte = 14 => /\ Len(unpack_buf) >= 13 + unpacked_pkg.data_len
                         /\ Len(unpack_buf) <= UnpackBufSize
  /\ waiting_byte > 7 => 14 + unpacked_pkg.data_len <= UnpackBufSize

DecoderInv ==
  /\ unpack_buf \in Seq(Byte)
  /\ waiting_byte \in 0..14
  /\ wait_unpack_data_len \in Word16
  /\ unpacked_pkg \in PkgFields
  /\ Position
  /\ HeaderIs(unpack_buf, unpacked_pkg, waiting_byte)

\* The types, with ranges as inequalities.
LEMMA DecoderFacts ==
  ASSUME DecoderInv
  PROVE  /\ unpack_buf \in Seq(Byte) /\ Len(unpack_buf) \in Nat
         /\ \A i \in 1..Len(unpack_buf) : unpack_buf[i] \in Byte
         /\ waiting_byte \in Int /\ 0 <= waiting_byte /\ waiting_byte <= 14
         /\ wait_unpack_data_len \in Nat /\ wait_unpack_data_len <= 65535
         /\ unpacked_pkg \in PkgFields
         /\ unpacked_pkg.data_len \in Nat /\ unpacked_pkg.data_len <= 65535
<1>1. unpack_buf \in Seq(Byte)  BY DEF DecoderInv
<1>2. waiting_byte \in 0..14  BY DEF DecoderInv
<1>3. wait_unpack_data_len \in Word16  BY DEF DecoderInv
<1>4. unpacked_pkg \in PkgFields  BY DEF DecoderInv
<1>. QED  BY <1>1, <1>2, <1>3, <1>4, WordRange, PkgRange

\* Until the last byte is awaited there is room for the next one.
LEMMA DecoderRoom ==
  ASSUME DecoderInv,
         waiting_byte < 14 \/ Len(unpack_buf) = 13 + unpacked_pkg.data_len
  PROVE  Len(unpack_buf) < UnpackBufSize
<1>1. CASE waiting_byte <= 11
  BY <1>1, DecoderFacts, BufSizeAssumption DEF DecoderInv, Position
<1>2. CASE waiting_byte = 12
  BY <1>2, DecoderFacts, BufSizeAssumption DEF DecoderInv, Position
<1>3. CASE waiting_byte = 13
  BY <1>3, DecoderFacts, BufSizeAssumption DEF DecoderInv, Position
<1>4. CASE waiting_byte = 14
  BY <1>4, DecoderFacts, BufSizeAssumption DEF DecoderInv, Position
<1>. QED  BY DecoderFacts, <1>1, <1>2, <1>3, <1>4

\* What Stored keeps, with room and without.
LEMMA StoredKeeps ==
  ASSUME unpack_buf \in Seq(Byte), NEW byte \in Byte
  PROVE  /\ Stored(byte) \in Seq(Byte)
         /\ Len(Stored(byte)) >= Len(unpack_buf)
         /\ Len(unpack_buf) <= UnpackBufSize => Len(Stored(byte)) <= UnpackBufSize
         /\ \A i \in 1..Len(unpack_buf) : Stored(byte)[i] = unpack_buf[i]
<1>1. CASE Len(unpack_buf) < UnpackBufSize
  <2>1. Stored(byte) = Append(unpack_buf, byte)
    BY <1>1 DEF Stored
  <2>. QED  BY <2>1, <1>1, BufSizeAssumption
<1>2. CASE ~(Len(unpack_buf) < UnpackBufSize)
  <2>1. Stored(byte) = unpack_buf
    BY <1>2 DEF Stored
  <2>. QED  BY <2>1
<1>. QED  BY <1>1, <1>2

LEMMA DecoderStores ==
  ASSUME DecoderInv, NEW byte \in Byte,
         waiting_byte < 14 \/ Len(unpack_buf) = 13 + unpacked_pkg.data_len
  PROVE  /\ Stored(byte) \in Seq(Byte)
         /\ Len(Stored(byte)) = Len(unpack_buf) + 1
         /\ \A i \in 1..Len(unpack_buf) : Stored(byte)[i] = unpack_buf[i]
         /\ Stored(byte)[Len(unpack_buf) + 1] = byte
<1>1. Stored(byte) = Append(unpack_buf, byte)
  BY DecoderRoom DEF Stored
<1>. QED  BY <1>1, DecoderFacts

LEMMA DecoderGivenUp ==
  ASSUME GivenUp, wait_unpack_data_len' \in Word16, unpacked_pkg' \in PkgFields
  PROVE  DecoderInv'
  BY DEF GivenUp, DecoderInv, Position, HeaderIs

\* Behind the header only the first eleven bytes matter to the fields.
LEMMA HeaderKept ==
  ASSUME NEW bytes, NEW more, NEW pkg, NEW v \in Int, NEW w \in Int, v >= 11, w >= 11,
         HeaderIs(bytes, pkg, v), \A i \in 1..11 : more[i] = bytes[i]
  PROVE  HeaderIs(more, pkg, w)
  BY DEF HeaderIs

\* So many bytes are stored once the header is.
LEMMA HeaderStored ==
  ASSUME DecoderInv, waiting_byte >= 11
  PROVE  Len(unpack_buf) >= 11
  BY DecoderFacts DEF DecoderInv, Position

-----------------------------------------------------------------------------
(* Each case of unpack_run keeps the invariant: the byte is stored, or the *)
(* packet is given up, or the byte repeats the first magic one.            *)
Stores(byte) == waiting_byte < 14 /\ unpack_buf' = Stored(byte)

Stays(byte) ==
  waiting_byte = 1 /\ waiting_byte' = 1 /\ byte = MAGIC_1 /\ unpack_buf' = unpack_buf

LEMMA Magic1Step ==
  ASSUME DecoderInv, NEW byte \in Byte, AwaitMagic1(byte)
  PROVE  DecoderInv' /\ (GivenUp \/ Stores(byte))
<1>1. waiting_byte = 0 /\ unpack_buf = <<>> /\ Len(unpack_buf) = 0
  BY DecoderFacts DEF DecoderInv, Position, AwaitMagic1
<1>2. wait_unpack_data_len' \in Word16 /\ unpacked_pkg' \in PkgFields
  BY DEF DecoderInv, AwaitMagic1
<1>3. GivenUp \/ (unpack_buf' = Stored(byte) /\ waiting_byte' = 1 /\ byte = MAGIC_1)
  BY <1>1, AdvanceCases DEF AwaitMagic1, GivenUp
<1>4. CASE unpack_buf' = Stored(byte) /\ waiting_byte' = 1 /\ byte = MAGIC_1
  <2>1. unpack_buf' \in Seq(Byte) /\ Len(unpack_buf') = 1 /\ unpack_buf'[1] = MAGIC_1
    BY <1>1, <1>4, DecoderStores
  <2>. QED  BY <1>1, <1>2, <1>4, <2>1 DEF DecoderInv, Position, HeaderIs, Stores
<1>. QED  BY <1>2, <1>3, <1>4, DecoderGivenUp

LEMMA Magic2Step ==
  ASSUME DecoderInv, NEW byte \in Byte, AwaitMagic2(byte)
  PROVE  DecoderInv' /\ (GivenUp \/ Stores(byte) \/ Stays(byte))
<1>1. waiting_byte = 1 /\ Len(unpack_buf) = 1 /\ unpack_buf[1] = MAGIC_1
  BY DEF DecoderInv, Position, HeaderIs, AwaitMagic2
<1>2. wait_unpack_data_len' \in Word16 /\ unpacked_pkg' \in PkgFields
  BY DEF DecoderInv, AwaitMagic2
<1>3. \/ GivenUp
      \/ unpack_buf' = Stored(byte) /\ waiting_byte' = 2 /\ byte = MAGIC_2
      \/ unpack_buf' = unpack_buf /\ waiting_byte' = 1 /\ byte = MAGIC_1
  BY AdvanceCases DEF AwaitMagic2, GivenUp
<1>4. CASE unpack_buf' = Stored(byte) /\ waiting_byte' = 2 /\ byte = MAGIC_2
  <2>1. /\ unpack_buf' \in Seq(Byte) /\ Len(unpack_buf') = 2
        /\ unpack_buf'[1] = MAGIC_1 /\ unpack_buf'[2] = MAGIC_2
    BY <1>1, <1>4, DecoderStores
  <2>. QED  BY <1>1, <1>2, <1>4, <2>1 DEF DecoderInv, Position, HeaderIs, Stores
<1>5. CASE unpack_buf' = unpack_buf /\ waiting_byte' = 1 /\ byte = MAGIC_1
  BY <1>1, <1>2, <1>5 DEF DecoderInv, Position, HeaderIs, Stays
<1>. QED  BY <1>2, <1>3, <1>4, <1>5, DecoderGivenUp

LEMMA HeaderByteStep ==
  ASSUME DecoderInv, NEW byte \in Byte, AwaitHeaderByte(byte)
  PROVE  DecoderInv' /\ (GivenUp \/ Stores(byte))
<1> DEFINE w == waiting_byte
<1>1. w \in 2..10 /\ w # 7 /\ Len(unpack_buf) = w
  BY DEF DecoderInv, Position, AwaitHeaderByte
<1>2. /\ unpack_buf \in Seq(Byte) /\ unpacked_pkg \in PkgFields
      /\ HeaderIs(unpack_buf, unpacked_pkg, w)
      /\ w > 7 => 14 + unpacked_pkg.data_len <= UnpackBufSize
  BY DEF DecoderInv, Position
<1>3. wait_unpack_data_len' \in Word16 /\ unpacked_pkg' = WithField(byte)
  BY DEF DecoderInv, AwaitHeaderByte
<1>4. unpacked_pkg' \in PkgFields
  BY <1>1, <1>2, <1>3, FieldTyped
<1>5. GivenUp \/ (unpack_buf' = Stored(byte) /\ waiting_byte' = w + 1)
  BY AdvanceCases DEF AwaitHeaderByte
<1>6. CASE unpack_buf' = Stored(byte) /\ waiting_byte' = w + 1
  <2>1. /\ unpack_buf' \in Seq(Byte) /\ Len(unpack_buf') = w + 1
        /\ \A i \in 1..w : unpack_buf'[i] = unpack_buf[i]
        /\ unpack_buf'[w + 1] = byte
    BY <1>1, <1>6, DecoderStores
  <2>2. /\ HeaderIs(unpack_buf', unpacked_pkg', waiting_byte')
        /\ w > 7 => unpacked_pkg'.data_len = unpacked_pkg.data_len
    BY <1>1, <1>2, <1>3, <1>6, <2>1, FieldTaken
  <2>3. Position'
    BY <1>1, <1>2, <1>6, <2>1, <2>2 DEF Position
  <2>. QED  BY <1>1, <1>3, <1>4, <1>6, <2>1, <2>2, <2>3 DEF DecoderInv, Stores
<1>. QED  BY <1>3, <1>4, <1>5, <1>6, DecoderGivenUp

LEMMA DataLenLowStep ==
  ASSUME DecoderInv, NEW byte \in Byte, AwaitDataLenLow(byte)
  PROVE  DecoderInv' /\ (GivenUp \/ Stores(byte))
<1>1. waiting_byte = 7 /\ waiting_byte \in 2..10 /\ Len(unpack_buf) = waiting_byte
  BY DEF DecoderInv, Position, AwaitDataLenLow
<1>2. /\ unpack_buf \in Seq(Byte) /\ unpacked_pkg \in PkgFields
      /\ HeaderIs(unpack_buf, unpacked_pkg, waiting_byte)
  BY DEF DecoderInv
<1>3. unpacked_pkg' = WithField(byte) /\ unpacked_pkg' \in PkgFields
  BY <1>1, <1>2, FieldTyped DEF AwaitDataLenLow
<1>4. CASE 14 + unpacked_pkg'.data_len > UnpackBufSize
  <2>1. unpacked_pkg'.data_len \in Nat
    BY <1>3, PkgRange
  <2>2. GivenUp /\ wait_unpack_data_len' = 0
    BY <1>4, <2>1 DEF AwaitDataLenLow, GivenUp
  <2>3. wait_unpack_data_len' \in Word16
    BY <2>2, WordRange
  <2>. QED  BY <1>3, <2>2, <2>3, DecoderGivenUp
<1>5. CASE ~(14 + unpacked_pkg'.data_len > UnpackBufSize)
  <2>1. unpacked_pkg'.data_len \in Nat /\ 14 + unpacked_pkg'.data_len <= UnpackBufSize
    BY <1>3, <1>5, PkgRange, BufSizeAssumption
  <2>2. Advance(8, Stored(byte), wait_start_time_ms) /\ UNCHANGED wait_unpack_data_len
    BY <2>1, <1>5 DEF AwaitDataLenLow
  <2>3. wait_unpack_data_len' \in Word16
    BY <2>2 DEF DecoderInv
  <2>4. GivenUp \/ (unpack_buf' = Stored(byte) /\ waiting_byte' = 8)
    BY <2>2, AdvanceCases
  <2>5. CASE unpack_buf' = Stored(byte) /\ waiting_byte' = 8
    <3>1. /\ unpack_buf' \in Seq(Byte) /\ Len(unpack_buf') = 8
          /\ \A i \in 1..waiting_byte : unpack_buf'[i] = unpack_buf[i]
          /\ unpack_buf'[waiting_byte + 1] = byte
      BY <1>1, <2>5, DecoderStores
    <3>2. HeaderIs(unpack_buf', unpacked_pkg', waiting_byte + 1)
      BY <1>1, <1>2, <1>3, <3>1, FieldTaken
    <3>3. HeaderIs(unpack_buf', unpacked_pkg', waiting_byte')
      BY <1>1, <2>5, <3>2
    <3>4. Position'
      BY <2>1, <2>5, <3>1 DEF Position
    <3>. QED  BY <1>1, <1>3, <2>3, <2>5, <3>1, <3>3, <3>4 DEF DecoderInv, Stores
  <2>. QED  BY <1>3, <2>3, <2>4, <2>5, DecoderGivenUp
<1>. QED  BY <1>4, <1>5

\* Behind the header a stored byte leaves the fields alone.
LEMMA BehindHeader ==
  ASSUME DecoderInv, NEW byte \in Byte, waiting_byte >= 11,
         unpack_buf' = Stored(byte), waiting_byte' \in 12..14,
         unpacked_pkg' = unpacked_pkg, wait_unpack_data_len' \in Word16, Position'
  PROVE  DecoderInv'
<1>1. Len(unpack_buf) >= 11 /\ waiting_byte \in Int /\ Len(unpack_buf) \in Nat
  BY HeaderStored, DecoderFacts
<1>2. unpack_buf' \in Seq(Byte) /\ \A i \in 1..11 : unpack_buf'[i] = unpack_buf[i]
  <2>1. unpack_buf \in Seq(Byte)  BY DEF DecoderInv
  <2>2. /\ unpack_buf' \in Seq(Byte)
        /\ \A i \in 1..Len(unpack_buf) : unpack_buf'[i] = unpack_buf[i]
    BY <2>1, StoredKeeps
  <2>3. \A i \in 1..11 : i \in 1..Len(unpack_buf)
    BY <1>1
  <2>. QED  BY <2>2, <2>3
<1>3. HeaderIs(unpack_buf', unpacked_pkg, waiting_byte')
  <2>1. HeaderIs(unpack_buf, unpacked_pkg, waiting_byte)  BY DEF DecoderInv
  <2>2. waiting_byte' \in Int /\ waiting_byte' >= 11  OBVIOUS
  <2>. QED  BY ONLY <1>1, <1>2, <2>1, <2>2, HeaderKept, waiting_byte >= 11
<1>. QED  BY <1>2, <1>3 DEF DecoderInv

LEMMA Rsvd2Step ==
  ASSUME DecoderInv, NEW byte \in Byte, AwaitRsvd2(byte)
  PROVE  DecoderInv' /\ (GivenUp \/ Stores(byte))
<1>1. waiting_byte = 11 /\ Len(unpack_buf) = 11
      /\ 14 + unpacked_pkg.data_len <= UnpackBufSize
  BY DEF DecoderInv, Position, AwaitRsvd2
<1>2. /\ unpacked_pkg' = unpacked_pkg /\ unpacked_pkg \in PkgFields
      /\ unpacked_pkg.data_len \in Nat /\ unpacked_pkg.data_len \in Word16
  BY PkgRange DEF DecoderInv, AwaitRsvd2, PkgFields
<1>3. wait_unpack_data_len' \in Word16
  BY <1>2 DEF DecoderInv, AwaitRsvd2
<1>4. \/ GivenUp
      \/ /\ unpack_buf' = Stored(byte) /\ waiting_byte' = 12
         /\ unpacked_pkg.data_len > 0 /\ wait_unpack_data_len' = unpacked_pkg.data_len
      \/ unpack_buf' = Stored(byte) /\ waiting_byte' = 13 /\ unpacked_pkg.data_len = 0
  BY AdvanceCases DEF AwaitRsvd2
<1>5. ASSUME unpack_buf' = Stored(byte)
      PROVE  Len(unpack_buf') = 12
  BY <1>1, <1>5, DecoderStores
<1>6. CASE /\ unpack_buf' = Stored(byte) /\ waiting_byte' = 12
           /\ unpacked_pkg.data_len > 0 /\ wait_unpack_data_len' = unpacked_pkg.data_len
  <2>1. Position'
    BY <1>1, <1>2, <1>5, <1>6 DEF Position
  <2>. QED  BY <1>1, <1>2, <1>3, <1>6, <2>1, BehindHeader DEF Stores
<1>7. CASE unpack_buf' = Stored(byte) /\ waiting_byte' = 13 /\ unpacked_pkg.data_len = 0
  <2>1. Position'
    BY <1>1, <1>2, <1>5, <1>7 DEF Position
  <2>. QED  BY <1>1, <1>2, <1>3, <1>7, <2>1, BehindHeader DEF Stores
<1>. QED  BY <1>2, <1>3, <1>4, <1>6, <1>7, DecoderGivenUp

LEMMA DataStep ==
  ASSUME DecoderInv, NEW byte \in Byte, AwaitData(byte)
  PROVE  DecoderInv' /\ (GivenUp \/ Stores(byte))
<1> DEFINE left == wait_unpack_data_len
<1>1. /\ waiting_byte = 12
      /\ left \in Nat /\ 1 <= left /\ left <= unpacked_pkg.data_len /\ left <= 65535
      /\ Len(unpack_buf) = 12 + unpacked_pkg.data_len - left
      /\ 14 + unpacked_pkg.data_len <= UnpackBufSize
  BY DecoderFacts DEF DecoderInv, Position, AwaitData
<1>2. /\ unpacked_pkg' = unpacked_pkg /\ unpacked_pkg \in PkgFields
      /\ unpacked_pkg.data_len \in Nat
  BY DecoderFacts DEF AwaitData
<1>3. wait_unpack_data_len' = left - 1 /\ wait_unpack_data_len' \in Word16
  BY <1>1, WordRange DEF AwaitData
<1>4. \/ GivenUp
      \/ unpack_buf' = Stored(byte) /\ waiting_byte' = 13 /\ left = 1
      \/ unpack_buf' = Stored(byte) /\ waiting_byte' = 12 /\ left # 1
  BY <1>1, <1>3, AdvanceCases DEF AwaitData
<1>5. ASSUME unpack_buf' = Stored(byte)
      PROVE  Len(unpack_buf') = 13 + unpacked_pkg.data_len - left
  <2>1. Len(unpack_buf') = Len(unpack_buf) + 1
    BY <1>1, <1>5, DecoderStores
  <2>. QED  BY <1>1, <1>2, <2>1
<1>6. CASE unpack_buf' = Stored(byte) /\ waiting_byte' = 13 /\ left = 1
  <2>1. Position'
    BY <1>1, <1>2, <1>3, <1>5, <1>6 DEF Position
  <2>. QED  BY <1>1, <1>2, <1>3, <1>6, <2>1, BehindHeader DEF Stores
<1>7. CASE unpack_buf' = Stored(byte) /\ waiting_byte' = 12 /\ left # 1
  <2>1. Position'
    BY <1>1, <1>2, <1>3, <1>5, <1>7 DEF Position
  <2>. QED  BY <1>1, <1>2, <1>3, <1>7, <2>1, BehindHeader DEF Stores
<1>. QED  BY <1>2, <1>3, <1>4, <1>6, <1>7, DecoderGivenUp

LEMMA CrcHighStep ==
  ASSUME DecoderInv, NEW byte \in Byte, AwaitCrcHigh(byte)
  PROVE  /\ DecoderInv' /\ (GivenUp \/ Stores(byte))
         /\ waiting_byte' = 14 => Len(unpack_buf') = 13 + unpacked_pkg'.data_len
<1>1. /\ waiting_byte = 13
      /\ Len(unpack_buf) = 12 + unpacked_pkg.data_len
      /\ 14 + unpacked_pkg.data_len <= UnpackBufSize
  BY DEF DecoderInv, Position, AwaitCrcHigh
<1>2. /\ unpacked_pkg' = unpacked_pkg /\ unpacked_pkg \in PkgFields
      /\ unpacked_pkg.data_len \in Nat /\ wait_unpack_data_len' \in Word16
  BY DecoderFacts DEF DecoderInv, AwaitCrcHigh
<1>3. GivenUp \/ (unpack_buf' = Stored(byte) /\ waiting_byte' = 14)
  BY AdvanceCases DEF AwaitCrcHigh
<1>4. CASE unpack_buf' = Stored(byte) /\ waiting_byte' = 14
  <2>1. Len(unpack_buf') = 13 + unpacked_pkg.data_len
    BY <1>1, <1>2, <1>4, DecoderStores
  <2>2. Position'
    BY <1>1, <1>2, <1>4, <2>1, BufSizeAssumption DEF Position
  <2>. QED  BY <1>1, <1>2, <1>4, <2>1, <2>2, BehindHeader DEF Stores
<1>5. CASE GivenUp
  BY <1>2, <1>5, DecoderGivenUp DEF GivenUp
<1>. QED  BY <1>3, <1>4, <1>5

LEMMA CrcLowStep ==
  ASSUME DecoderInv, NEW byte, AwaitCrcLow(byte)
  PROVE  DecoderInv' /\ GivenUp
<1>1. GivenUp
  BY AdvanceCases DEF AwaitCrcLow, GivenUp
<1>2. wait_unpack_data_len' \in Word16 /\ unpacked_pkg' \in PkgFields
  BY DEF DecoderInv, AwaitCrcLow
<1>. QED  BY <1>1, <1>2, DecoderGivenUp

\* Any byte, in any state; the last byte is awaited behind the right count.
LEMMA DecoderStep ==
  ASSUME DecoderInv, NEW byte \in Byte, unpack_run(byte)
  PROVE  /\ DecoderInv'
         /\ GivenUp \/ Stores(byte) \/ Stays(byte)
         /\ waiting_byte' = 14 => Len(unpack_buf') = 13 + unpacked_pkg'.data_len
<1>1. \/ AwaitMagic1(byte) \/ AwaitMagic2(byte) \/ AwaitHeaderByte(byte)
      \/ AwaitDataLenLow(byte) \/ AwaitRsvd2(byte) \/ AwaitData(byte)
      \/ AwaitCrcHigh(byte) \/ AwaitCrcLow(byte)
  BY DEF unpack_run
<1>2. DecoderInv' /\ (GivenUp \/ Stores(byte) \/ Stays(byte))
  BY <1>1, Magic1Step, Magic2Step, HeaderByteStep, DataLenLowStep, Rsvd2Step, DataStep,
     CrcHighStep, CrcLowStep
<1>3. CASE AwaitCrcHigh(byte)
  BY <1>2, <1>3, CrcHighStep
<1>4. CASE ~AwaitCrcHigh(byte)
  <2>1. waiting_byte' # 14
    <3>1. \A next, bytes, since : Advance(next, bytes, since) => waiting_byte' \in {0, next}
      BY AdvanceCases DEF GivenUp
    <3>. QED  BY <1>1, <1>4, <3>1 DEF AwaitMagic1, AwaitMagic2, AwaitHeaderByte,
                   AwaitDataLenLow, AwaitRsvd2, AwaitData, AwaitCrcLow
  <2>. QED  BY <1>2, <2>1
<1>. QED  BY <1>3, <1>4

-----------------------------------------------------------------------------
(* The packet behind the last byte, when its checksum is right.  Beyond    *)
(* 65537 bytes the uint16_t length handed to nano_net_crc16 wraps.         *)
LEMMA CompleteIsFrame ==
  ASSUME DecoderInv, waiting_byte = 14, Len(unpack_buf) = 13 + unpacked_pkg.data_len,
         NEW byte \in Byte, CrcMatches(Stored(byte)), UnpackBufSize <= 65537
  PROVE  /\ IsFrame(Stored(byte))
         /\ Len(Stored(byte)) = 14 + unpacked_pkg.data_len
         /\ HeaderIs(Stored(byte), unpacked_pkg, 14)
<1> DEFINE b == Stored(byte)
           n == Len(unpack_buf)
<1>1. /\ unpacked_pkg.data_len \in Nat
      /\ 14 + unpacked_pkg.data_len <= UnpackBufSize
  BY DecoderFacts DEF DecoderInv, Position
<1>2. /\ b \in Seq(Byte) /\ Len(b) = n + 1
      /\ \A i \in 1..n : b[i] = unpack_buf[i]
  BY DecoderStores
<1>3. Len(b) = 14 + unpacked_pkg.data_len
  BY <1>1, <1>2
<1>4. HeaderIs(b, unpacked_pkg, 14)
  <2>1. \A i \in 1..11 : b[i] = unpack_buf[i]
    BY <1>1, <1>2
  <2>2. HeaderIs(unpack_buf, unpacked_pkg, 14)
    BY DEF DecoderInv
  <2> HIDE DEF b
  <2>. QED  BY ONLY <2>1, <2>2, HeaderKept
<1>5. (Len(b) - 2) % 65536 = Len(b) - 2
  <2>1. \A m \in Nat : m <= 65535 => m % 65536 = m
    OBVIOUS
  <2> HIDE DEF b
  <2>2. Len(b) - 2 \in Nat /\ Len(b) - 2 <= 65535
    BY <1>1, <1>3, BufSizeAssumption
  <2>. QED  BY ONLY <2>1, <2>2
<1>6. 256 * b[Len(b) - 1] + b[Len(b)] = nano_net_crc16(SubSeq(b, 1, Len(b) - 2))
  BY <1>5 DEF CrcMatches
<1> HIDE DEF b
<1>7. b[1] = MAGIC_1 /\ b[2] = MAGIC_2 /\ unpacked_pkg.data_len = 256 * b[7] + b[8]
  BY <1>4 DEF HeaderIs
<1>8. b[7] \in Nat /\ b[8] \in Nat
  <2>1. 7 \in 1..Len(b) /\ 8 \in 1..Len(b)
    BY ONLY <1>1, <1>3
  <2>2. b[7] \in Byte /\ b[8] \in Byte
    BY ONLY <1>2, <2>1
  <2>. QED  BY <2>2, ByteRange
<1>9. Len(b) >= 14 /\ Len(b) = 12 + 256 * b[7] + b[8] + 2
  <2> DEFINE m == Len(b)
             l == unpacked_pkg.data_len
             h == 256 * b[7]
             k == b[8]
  <2>1. l \in Nat /\ m = 14 + l /\ l = h + k /\ h \in Nat /\ k \in Nat
    BY <1>1, <1>3, <1>7, <1>8
  <2> HIDE DEF m, l, h, k
  <2>2. m >= 14 /\ m = 12 + h + k + 2
    BY ONLY <2>1
  <2>. QED  BY ONLY <2>2 DEF m, h, k
<1>10. IsFrame(b)
  BY ONLY <1>6, <1>7, <1>9 DEF IsFrame, HeaderSize, CrcSize
<1>. QED  BY <1>3, <1>4, <1>10 DEF b

\* The package a callback receives has the type of a package.
LEMMA PkgWithDataType ==
  ASSUME NEW pkg \in PkgFields, NEW bytes \in Seq(Byte), 12 + pkg.data_len <= Len(bytes)
  PROVE  PkgWithData(pkg, bytes) \in Packages
<1>1. SubSeq(bytes, 13, 12 + pkg.data_len) \in Seq(Byte)
  <2>1. \A i \in 13..(12 + pkg.data_len) : bytes[i] \in Byte
    BY PkgRange
  <2>. QED  BY <2>1, PkgRange
<1>. QED  BY <1>1 DEF PkgWithData, PkgFields, Packages
=============================================================================
