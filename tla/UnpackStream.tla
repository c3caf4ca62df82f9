---------------------------- MODULE UnpackStream ----------------------------
(***************************************************************************)
(* The decoder of DefaultPackager driven by an arbitrary line: any bytes,  *)
(* any time between two of them, and a reset() between any two.  line is   *)
(* what the line carries, pos how much of it the decoder has been given    *)
(* and spans where in it each delivered package was found: history the     *)
(* code does not keep.                                                     *)
(***************************************************************************)
EXTENDS DefaultPackager

CONSTANT Lines   \* the byte sequences the line may carry

ASSUME LinesAssumption == Lines \subseteq Seq(Byte)

VARIABLES line, pos, spans

vars == <<implVars, now, line, pos, spans>>

Init ==
  /\ ImplInit
  /\ now = 0
  /\ line \in Lines
  /\ pos = 0
  /\ spans = <<>>

\* unpack() hands the bytes of a read to unpack_run one by one.
Feed ==
  /\ pos < Len(line)
  /\ unpack_run(line[pos + 1])
  /\ pos' = pos + 1
  /\ spans' = IF out' = out THEN spans
              ELSE Append(spans, [first |-> pos + 1 - Len(unpack_buf), last |-> pos + 1])
  /\ UNCHANGED line

Reset == reset /\ UNCHANGED <<line, pos, spans>>

Tick ==
  /\ now' = (now + 1) % TimeMod
  /\ UNCHANGED <<implVars, line, pos, spans>>

Next == Feed \/ Reset \/ Tick

Spec == Init /\ [][Next]_vars

-----------------------------------------------------------------------------
Spans == [first : Nat, last : Nat]

TypeOK ==
  /\ unpack_buf \in Seq(Byte)
  /\ waiting_byte \in PACK_BYTE_MAGIC_HEAD_1..PACK_BYTE_CRC16_LOW
  /\ wait_start_time_ms \in 0..(TimeMod - 1)
  /\ wait_unpack_data_len \in Word16
  /\ unpacked_pkg \in PkgFields
  /\ now \in 0..(TimeMod - 1)
  /\ line \in Lines
  /\ pos \in 0..Len(line)
  /\ spans \in Seq(Spans)
  /\ out \in Seq(Packages)
  /\ Len(out) = Len(spans)

(* How much is stored follows from what is awaited, and what is still to   *)
(* come fits the buffer.  So the room test of unpack_run never drops a     *)
(* byte, the uint16_t count of data bytes never wraps, and the checksum is *)
(* read from bytes of this packet.                                         *)
BufferPosition ==
  /\ waiting_byte <= PACK_BYTE_RSVD2 => Len(unpack_buf) = waiting_byte
  /\ waiting_byte = PACK_BYTE_DATA =>
       /\ wait_unpack_data_len \in 1..unpacked_pkg.data_len
       /\ Len(unpack_buf) = HeaderSize + unpacked_pkg.data_len - wait_unpack_data_len
  /\ waiting_byte > PACK_BYTE_DATA =>
       Len(unpack_buf) = unpacked_pkg.data_len + waiting_byte - 1
  /\ waiting_byte > PACK_BYTE_DATA_LEN_LOW =>
       HeaderSize + unpacked_pkg.data_len + CrcSize <= UnpackBufSize

(* Every package passed to unpack_cb was received: its span of the line is *)
(* one uninterrupted, well-formed frame with a correct checksum, and each  *)
(* field is the one of that frame, never left over from an earlier one.    *)
DeliveredAreFrames ==
  \A k \in DOMAIN out :
    LET f == SubSeq(line, spans[k].first, spans[k].last)
    IN  /\ spans[k].first \in 1..spans[k].last
        /\ spans[k].last <= pos
        /\ IsFrame(f)
        /\ out[k] = FramePkg(f)

(* No byte of the line is used for two packages, whatever resets, timeouts *)
(* and refused lengths come between: nothing is delivered twice.           *)
DeliveredOnce ==
  \A k, m \in DOMAIN spans : k < m => spans[k].last < spans[m].first
=============================================================================
