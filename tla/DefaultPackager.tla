-------------------------- MODULE DefaultPackager --------------------------
(***************************************************************************)
(* The receive side of the default packager                                *)
(* (private/package/nano_net_default_packager.c): the byte-driven decoder  *)
(* unpack_run() with its timeout.                                          *)
(*                                                                         *)
(* The variables are the fields of nano_net_packager_impl_t that change.   *)
(* unpack_buf is the used part of the buffer, from unpack_buf to           *)
(* unpack_buf_used_ptr; bytes beyond that pointer are never read.  out is  *)
(* the sequence of packages handed to unpack_cb.  now is the clock behind  *)
(* nano_net_ll_get_sys_time_ms(), a 32-bit counter in the code, modulo     *)
(* TimeMod here.                                                           *)
(***************************************************************************)
EXTENDS WireFormat

CONSTANTS UnpackBufSize,   \* desc->unpack_buf_size
          UnpackTimeout,   \* NANO_NET_PACKAGER_UNPACK_TIMEOUT_MS
          TimeMod          \* 2^32 in the code

(* create() refuses an unpack buffer that cannot hold an empty packet.     *)
ASSUME BufSizeAssumption == UnpackBufSize \in Nat /\ UnpackBufSize >= 14
ASSUME TimeAssumption ==
  /\ TimeMod \in Nat \ {0}
  /\ UnpackTimeout \in 0..(TimeMod - 1)

VARIABLES unpack_buf, waiting_byte, wait_start_time_ms, wait_unpack_data_len,
          unpacked_pkg, out, now

implVars == <<unpack_buf, waiting_byte, wait_start_time_ms,
              wait_unpack_data_len, unpacked_pkg, out>>

-----------------------------------------------------------------------------
(* pack_byte_e: for the header bytes the enumerator is also the offset of  *)
(* the byte in the packet.                                                 *)
PACK_BYTE_MAGIC_HEAD_1 == 0
PACK_BYTE_MAGIC_HEAD_2 == 1
PACK_BYTE_SENDER_HOST_ID == 2
PACK_BYTE_TARGET_HOST_ID == 3
PACK_BYTE_MSG_ID_HIGH == 4
PACK_BYTE_MSG_ID_LOW == 5
PACK_BYTE_DATA_LEN_HIGH == 6
PACK_BYTE_DATA_LEN_LOW == 7
PACK_BYTE_SEQ == 8
PACK_BYTE_EX_FLAG == 9
PACK_BYTE_RSVD1 == 10
PACK_BYTE_RSVD2 == 11
PACK_BYTE_DATA == 12
PACK_BYTE_CRC16_HIGH == 13
PACK_BYTE_CRC16_LOW == 14

-----------------------------------------------------------------------------
(* unpack_run(): one action per case of its switch.                        *)

\* now - wait_start_time_ms in 32-bit arithmetic.
Waited(since) == (now - since) % TimeMod

\* Mutant: the room in the buffer is not looked at.
Stored_Always(byte) == Append(unpack_buf, byte)

\* The byte is stored only while the buffer has room; the pointer stays put
\* otherwise.
Stored(byte) ==
  IF Len(unpack_buf) < UnpackBufSize THEN Append(unpack_buf, byte) ELSE unpack_buf

\* The end of unpack_run: take the next state, then give the packet up when
\* it has been incomplete for too long since its first byte.
Advance(next, bytes, since) ==
  IF next # PACK_BYTE_MAGIC_HEAD_1 /\ Waited(since) > UnpackTimeout
  THEN /\ waiting_byte' = PACK_BYTE_MAGIC_HEAD_1
       /\ unpack_buf' = <<>>
       /\ wait_start_time_ms' = now
  ELSE /\ waiting_byte' = next
       /\ unpack_buf' = bytes
       /\ wait_start_time_ms' = since

AwaitMagic1(byte) ==
  /\ waiting_byte = PACK_BYTE_MAGIC_HEAD_1
  /\ \/ /\ byte = MAGIC_1
        /\ Advance(PACK_BYTE_MAGIC_HEAD_2, Stored(byte), now)
     \/ /\ byte # MAGIC_1
        /\ Advance(PACK_BYTE_MAGIC_HEAD_1, unpack_buf, wait_start_time_ms)
  /\ UNCHANGED <<wait_unpack_data_len, unpacked_pkg, out>>

\* A second 0xAA may be the first byte of the next packet: the one already
\* stored stands for it, and the start time of the first is kept.
AwaitMagic2(byte) ==
  /\ waiting_byte = PACK_BYTE_MAGIC_HEAD_2
  /\ \/ /\ byte = MAGIC_2
        /\ Advance(PACK_BYTE_SENDER_HOST_ID, Stored(byte), wait_start_time_ms)
     \/ /\ byte = MAGIC_1
        /\ Advance(PACK_BYTE_MAGIC_HEAD_2, unpack_buf, wait_start_time_ms)
     \/ /\ byte \notin {MAGIC_1, MAGIC_2}
        /\ Advance(PACK_BYTE_MAGIC_HEAD_1, <<>>, wait_start_time_ms)
  /\ UNCHANGED <<wait_unpack_data_len, unpacked_pkg, out>>

\* Mutant: the low byte of a 16-bit field overwrites the high one.
OrLowByte_Assigns(field, byte) == byte

\* field |= byte, where field holds a high byte shifted by 8.
OrLowByte(field, byte) == field + byte

\* Mutant: the count is not masked to its four bits.
ForwordCntBits_Unmasked(flags) == flags \div 4

ForwordCntBits(flags) == (flags \div 4) % 16

\* unpacked_pkg with the header byte the decoder waits for.
WithField(byte) ==
  CASE waiting_byte = PACK_BYTE_SENDER_HOST_ID ->
         [unpacked_pkg EXCEPT !.sender_host_id = byte]
    [] waiting_byte = PACK_BYTE_TARGET_HOST_ID ->
         [unpacked_pkg EXCEPT !.target_host_id = byte]
    [] waiting_byte = PACK_BYTE_MSG_ID_HIGH ->
         [unpacked_pkg EXCEPT !.msg_id = 256 * byte]
    [] waiting_byte = PACK_BYTE_MSG_ID_LOW ->
         [unpacked_pkg EXCEPT !.msg_id = OrLowByte(@, byte)]
    [] waiting_byte = PACK_BYTE_DATA_LEN_HIGH ->
         [unpacked_pkg EXCEPT !.data_len = 256 * byte]
    [] waiting_byte = PACK_BYTE_DATA_LEN_LOW ->
         [unpacked_pkg EXCEPT !.data_len = OrLowByte(@, byte)]
    [] waiting_byte = PACK_BYTE_SEQ ->
         [unpacked_pkg EXCEPT !.seq = byte]
    [] waiting_byte = PACK_BYTE_EX_FLAG ->
         [unpacked_pkg EXCEPT !.need_ack = byte % 2,
                              !.is_ack = (byte \div 2) % 2,
                              !.forword_cnt = ForwordCntBits(byte)]
    [] OTHER -> unpacked_pkg

AwaitHeaderByte(byte) ==
  /\ waiting_byte \in PACK_BYTE_SENDER_HOST_ID..PACK_BYTE_RSVD1
  /\ waiting_byte # PACK_BYTE_DATA_LEN_LOW
  /\ unpacked_pkg' = WithField(byte)
  /\ Advance(waiting_byte + 1, Stored(byte), wait_start_time_ms)
  /\ UNCHANGED <<wait_unpack_data_len, out>>

\* The length is known: a packet that would not fit the buffer is dropped at
\* once, past the timeout check.
AwaitDataLenLow(byte) ==
  /\ waiting_byte = PACK_BYTE_DATA_LEN_LOW
  /\ unpacked_pkg' = WithField(byte)
  /\ IF HeaderSize + unpacked_pkg'.data_len + CrcSize > UnpackBufSize
     THEN /\ unpack_buf' = <<>>
          /\ waiting_byte' = PACK_BYTE_MAGIC_HEAD_1
          /\ wait_unpack_data_len' = 0
          /\ wait_start_time_ms' = now
     ELSE /\ Advance(PACK_BYTE_SEQ, Stored(byte), wait_start_time_ms)
          /\ UNCHANGED wait_unpack_data_len
  /\ UNCHANGED out

AwaitRsvd2(byte) ==
  /\ waiting_byte = PACK_BYTE_RSVD2
  /\ \/ /\ unpacked_pkg.data_len > 0
        /\ wait_unpack_data_len' = unpacked_pkg.data_len
        /\ Advance(PACK_BYTE_DATA, Stored(byte), wait_start_time_ms)
     \/ /\ unpacked_pkg.data_len = 0
        /\ Advance(PACK_BYTE_CRC16_HIGH, Stored(byte), wait_start_time_ms)
        /\ UNCHANGED wait_unpack_data_len
  /\ UNCHANGED <<unpacked_pkg, out>>

\* wait_unpack_data_len is a uint16_t.
AwaitData(byte) ==
  /\ waiting_byte = PACK_BYTE_DATA
  /\ wait_unpack_data_len' = (wait_unpack_data_len - 1) % 65536
  /\ Advance(IF wait_unpack_data_len' = 0 THEN PACK_BYTE_CRC16_HIGH ELSE PACK_BYTE_DATA,
             Stored(byte), wait_start_time_ms)
  /\ UNCHANGED <<unpacked_pkg, out>>

AwaitCrcHigh(byte) ==
  /\ waiting_byte = PACK_BYTE_CRC16_HIGH
  /\ Advance(PACK_BYTE_CRC16_LOW, Stored(byte), wait_start_time_ms)
  /\ UNCHANGED <<wait_unpack_data_len, unpacked_pkg, out>>

\* What the callback sees: unpacked_pkg, whose msg.data points behind the
\* header in the buffer.
PkgWithData(pkg, bytes) ==
  [sender_host_id |-> pkg.sender_host_id, target_host_id |-> pkg.target_host_id,
   msg_id |-> pkg.msg_id, data_len |-> pkg.data_len, seq |-> pkg.seq,
   need_ack |-> pkg.need_ack, is_ack |-> pkg.is_ack, forword_cnt |-> pkg.forword_cnt,
   data |-> SubSeq(bytes, HeaderSize + 1, HeaderSize + pkg.data_len)]

\* The stored checksum against the one computed; the length passed to
\* nano_net_crc16 is cut to 16 bits.
CrcMatches(bytes) ==
  LET n == Len(bytes)
  IN  256 * bytes[n - 1] + bytes[n]
        = nano_net_crc16(SubSeq(bytes, 1, (n - CrcSize) % 65536))

\* Mutant: unpack_buf_used_ptr is not set back after a packet.
AwaitCrcLow_NoRewind(byte) ==
  /\ waiting_byte = PACK_BYTE_CRC16_LOW
  /\ out' = IF CrcMatches(Stored(byte))
            THEN Append(out, PkgWithData(unpacked_pkg, Stored(byte)))
            ELSE out
  /\ Advance(PACK_BYTE_MAGIC_HEAD_1, Stored(byte), wait_start_time_ms)
  /\ UNCHANGED <<wait_unpack_data_len, unpacked_pkg>>

AwaitCrcLow(byte) ==
  /\ waiting_byte = PACK_BYTE_CRC16_LOW
  /\ out' = IF CrcMatches(Stored(byte))
            THEN Append(out, PkgWithData(unpacked_pkg, Stored(byte)))
            ELSE out
  /\ Advance(PACK_BYTE_MAGIC_HEAD_1, <<>>, wait_start_time_ms)
  /\ UNCHANGED <<wait_unpack_data_len, unpacked_pkg>>

unpack_run(byte) ==
  /\ \/ AwaitMagic1(byte)
     \/ AwaitMagic2(byte)
     \/ AwaitHeaderByte(byte)
     \/ AwaitDataLenLow(byte)
     \/ AwaitRsvd2(byte)
     \/ AwaitData(byte)
     \/ AwaitCrcHigh(byte)
     \/ AwaitCrcLow(byte)
  /\ UNCHANGED now

\* Mutant: only the state is reset, the stored bytes stay.
reset_KeepsBytes ==
  /\ waiting_byte' = PACK_BYTE_MAGIC_HEAD_1
  /\ UNCHANGED <<unpack_buf, wait_start_time_ms, wait_unpack_data_len,
                 unpacked_pkg, out, now>>

\* reset(), called by the port when the line has been silent.
reset ==
  /\ unpack_buf' = <<>>
  /\ waiting_byte' = PACK_BYTE_MAGIC_HEAD_1
  /\ UNCHANGED <<wait_start_time_ms, wait_unpack_data_len, unpacked_pkg, out, now>>

\* The state create() leaves: a zeroed structure, nothing stored.
ImplInit ==
  /\ unpack_buf = <<>>
  /\ waiting_byte = PACK_BYTE_MAGIC_HEAD_1
  /\ wait_start_time_ms = 0
  /\ wait_unpack_data_len = 0
  /\ unpacked_pkg = [sender_host_id |-> 0, target_host_id |-> 0, msg_id |-> 0,
                     data_len |-> 0, seq |-> 0, need_ack |-> 0, is_ack |-> 0,
                     forword_cnt |-> 0]
  /\ out = <<>>
=============================================================================
