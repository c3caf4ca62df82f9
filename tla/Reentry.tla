------------------------------- MODULE Reentry -------------------------------
(***************************************************************************)
(* A handler that runs the host again (nano_net_run resets the port list's *)
(* iterator and so unpacks the handler's own port too): the decoder of     *)
(* DefaultPackager is entered from its own callback, while it still awaits *)
(* the last byte of the packet it has just delivered.  What the nested run *)
(* reads lies behind the bytes the outer one still has in its read_buf.    *)
(*                                                                         *)
(* Every package is for this host and has a handler.                       *)
(***************************************************************************)
EXTENDS DefaultPackager

CONSTANTS
  Lines,       \* the byte sequences the line may carry
  Configured,  \* hosts the application has added routes for
  ReadSizes,   \* how many bytes a read may bring
  MaxDepth     \* bound on the runs in progress

ASSUME ReentryAssumption ==
  /\ Lines \subseteq Seq(Byte)
  /\ Configured \subseteq Byte
  /\ ReadSizes \subseteq Nat \ {0}
  /\ MaxDepth \in Nat

VARIABLES
  line,    \* what the line carries
  taken,   \* how much of it the reads have taken
  runs,    \* the runs in progress, outermost first: [pos, last: the bytes of
           \* its read_buf are line[pos + 1] to line[last]; calling: it is
           \* inside unpack_cb]
  noted,   \* the hosts whose last_recv_time has been set
  fed,     \* history: the bytes in the order the decoder got them
  start,   \* history: which of them is the first in unpack_buf
  found    \* history: found[k]: where in fed the package out[k] starts

decoder == <<implVars, now>>
history == <<fed, start, found>>
vars == <<decoder, line, taken, runs, noted, history>>

Init ==
  /\ ImplInit /\ now = 0
  /\ line \in Lines
  /\ taken = 0 /\ runs = <<>> /\ noted = {}
  /\ fed = <<>> /\ start = 0 /\ found = <<>>

-----------------------------------------------------------------------------
Depth == Len(runs)
Innermost == runs[Depth]

\* The application's own call of nano_net_run, or a handler's.
MayRun == runs # <<>> => Innermost.calling

\* nano_net_port_unpack reads n bytes.
Read(n) ==
  /\ MayRun
  /\ Depth < MaxDepth
  /\ taken + n <= Len(line)
  /\ taken' = taken + n
  /\ runs' = Append(runs, [pos |-> taken, last |-> taken + n, calling |-> FALSE])
  /\ UNCHANGED <<decoder, line, noted, history>>

\* Its silence test succeeds: the packager is reset.
Silence == MayRun /\ reset /\ UNCHANGED <<line, taken, runs, noted, history>>

Completes(byte) ==
  waiting_byte = PACK_BYTE_CRC16_LOW /\ CrcMatches(Stored(byte))

\* unpack_run up to unpack_cb: the last byte is stored, the state is as it was.
EnterCallback(byte) ==
  /\ Completes(byte)
  /\ unpack_buf' = Stored(byte)
  /\ out' = Append(out, PkgWithData(unpacked_pkg, Stored(byte)))
  /\ found' = Append(found, start)
  /\ UNCHANGED <<waiting_byte, wait_start_time_ms, wait_unpack_data_len, unpacked_pkg, now>>

\* The runs with the innermost one at pos, inside unpack_cb or not.
Progress(pos, calling) ==
  [runs EXCEPT ![Depth] = [pos |-> pos, last |-> Innermost.last, calling |-> calling]]

\* Mutant: one byte more than was read is unpacked.
Feed_PastEnd ==
  /\ runs # <<>> /\ ~Innermost.calling /\ Innermost.pos <= Innermost.last /\ Innermost.pos < Len(line)
  /\ LET byte == line[Innermost.pos + 1]
     IN  /\ \/ EnterCallback(byte)
            \/ ~Completes(byte) /\ unpack_run(byte) /\ UNCHANGED found
         /\ runs' = Progress(Innermost.pos + 1, Completes(byte))
         /\ fed' = Append(fed, byte)
  /\ start' = IF Len(unpack_buf') = 1 THEN Len(fed') ELSE start
  /\ UNCHANGED <<line, taken, noted>>

\* The innermost run gives the decoder its next byte.
Feed ==
  /\ runs # <<>> /\ ~Innermost.calling /\ Innermost.pos < Innermost.last
  /\ LET byte == line[Innermost.pos + 1]
     IN  /\ \/ EnterCallback(byte)
            \/ ~Completes(byte) /\ unpack_run(byte) /\ UNCHANGED found
         /\ runs' = Progress(Innermost.pos + 1, Completes(byte))
         /\ fed' = Append(fed, byte)
  /\ start' = IF Len(unpack_buf') = 1 THEN Len(fed') ELSE start
  /\ UNCHANGED <<line, taken, noted>>

\* The hosts in routable_host_list: a sender is learned before the handler
\* is called.
Listed == Configured \cup {out[k].sender_host_id : k \in DOMAIN out}

\* The handler returns.  nano_net_port_unpack_callback goes on with what
\* unpacked_pkg is by now, and unpack_run sets the decoder back.
HandlerReturns ==
  /\ runs # <<>> /\ Innermost.calling
  /\ noted' = noted \cup ({unpacked_pkg.sender_host_id} \cap Listed)
  /\ Advance(PACK_BYTE_MAGIC_HEAD_1, <<>>, wait_start_time_ms)
  /\ runs' = Progress(Innermost.pos, FALSE)
  /\ UNCHANGED <<wait_unpack_data_len, unpacked_pkg, out, now, line, taken, history>>

\* All bytes of a read are unpacked; the run may read again or end.
EndOfChunk ==
  /\ runs # <<>> /\ ~Innermost.calling /\ Innermost.pos = Innermost.last
  /\ runs' = SubSeq(runs, 1, Depth - 1)
  /\ UNCHANGED <<decoder, line, taken, noted, history>>

Tick ==
  /\ now' = (now + 1) % TimeMod
  /\ UNCHANGED <<implVars, line, taken, runs, noted, history>>

Next ==
  \/ \E n \in ReadSizes : Read(n)
  \/ Silence
  \/ Feed
  \/ HandlerReturns
  \/ EndOfChunk
  \/ Tick

Spec == Init /\ [][Next]_vars

-----------------------------------------------------------------------------
Run == [pos : Nat, last : Nat, calling : BOOLEAN]

TypeOK ==
  /\ unpack_buf \in Seq(Byte)
  /\ waiting_byte \in PACK_BYTE_MAGIC_HEAD_1..PACK_BYTE_CRC16_LOW
  /\ wait_unpack_data_len \in Word16
  /\ unpacked_pkg \in PkgFields
  /\ runs \in Seq(Run) /\ \A i \in DOMAIN runs : runs[i].pos \in 0..runs[i].last
  /\ taken \in 0..Len(line)
  /\ noted \subseteq Byte
  /\ Len(found) = Len(out)

(* However deep handlers run the host and at whatever byte: the decoder    *)
(* stays inside its buffer, the count of data bytes does not wrap, and a   *)
(* checksum is taken from bytes that were stored.                          *)
StaysInBuffer ==
  /\ Len(unpack_buf) <= UnpackBufSize
  /\ waiting_byte = PACK_BYTE_DATA => wait_unpack_data_len > 0
  /\ waiting_byte >= PACK_BYTE_CRC16_HIGH =>
       Len(unpack_buf) >= HeaderSize + unpacked_pkg.data_len

\* The frame f is a whole one, and pkg has its sender, message and data.
Carries(f, pkg) ==
  /\ IsFrame(f)
  /\ pkg.sender_host_id = f[3] /\ pkg.msg_id = 256 * f[5] + f[6]
  /\ pkg.seq = f[9] /\ pkg.data = SubSeq(f, 13, 12 + pkg.data_len)

(* Every package a handler gets is a frame the decoder got whole, with its *)
(* own sender and data, also when it was entered between two frames of one *)
(* read: nested runs may lose packages and repeat them, but mix none.      *)
DeliveredNotMixed ==
  \A k \in DOMAIN out :
    Carries(SubSeq(fed, found[k], found[k] + HeaderSize + out[k].data_len + CrcSize - 1), out[k])

(* nano_net_default_packager.c:486 says behind a delivered packet that the *)
(* state is reset, ready for the next one: no packet is delivered again.   *)
DeliveredOnce ==
  \A k, m \in DOMAIN found : k < m => found[k] # found[m]

(* nano_net.h:196: the last receive time of a host is the time of its last *)
(* message, and unset if none was received.                                *)
TimesAreOfSenders ==
  runs = <<>> => noted = {out[k].sender_host_id : k \in DOMAIN out}
=============================================================================
