-------------------------------- MODULE Link --------------------------------
(***************************************************************************)
(* The whole receive side of a host: the read loop of Port drives the      *)
(* decoder of UnpackStream.  The bytes of line are, from the left, those   *)
(* through the decoder (pos of them), those read but still in read_buf     *)
(* (chunk), those in the driver (rx), and those still to arrive.           *)
(*                                                                         *)
(* frame is the well-formed packet whose bytes are on their way through a  *)
(* decoder that was waiting for a first byte when it began, or had got     *)
(* nothing but stray first bytes, as long as it is in time; the code keeps *)
(* no such thing.  since is when the chunk with its first byte was read,   *)
(* or the stray byte came through.                                         *)
(***************************************************************************)
EXTENDS UnpackStream

CONSTANTS OnceSize, MaxPoll, RecvTimeout, RxSize, MaxLag

ASSUME RecvAssumption == RecvTimeout \in 0..(TimeMod - 1)

VARIABLES pc, rx, chunk, read_len, read_cnt, last_recv_time, lag, frame

P == INSTANCE Port

linkVars == <<vars, P!vars, frame>>

NoFrame == [first |-> 0, last |-> 0, since |-> 0]

LinkInit == Init /\ P!Init /\ frame = NoFrame

-----------------------------------------------------------------------------
\* Both timeouts, counted from t, are still running at time t1.
InTime(t, t1) == (t1 - t) % TimeMod <= UnpackTimeout /\ (t1 - t) % TimeMod <= RecvTimeout

\* The frames on the line that begin at its i-th byte and fit the buffer:
\* one at most, since a frame tells its length.
FrameEnds(i) ==
  IF line[i] # MAGIC_1 THEN {}
  ELSE {j \in i..Len(line) : /\ j - i < UnpackBufSize
                             /\ IsFrame(SubSeq(line, i, j))}

Older(t1, t2) == IF (now - t1) % TimeMod >= (now - t2) % TimeMod THEN t1 ELSE t2

\* From when on the time of a frame counts that begins with the next byte.
Since ==
  IF waiting_byte = PACK_BYTE_MAGIC_HEAD_1 THEN last_recv_time
  ELSE Older(wait_start_time_ms, last_recv_time)

\* What the next byte through the decoder does to frame.
TrackFrame ==
  LET i == pos + 1
      ends == FrameEnds(i)
      begins == /\ frame = NoFrame
                /\ waiting_byte \in {PACK_BYTE_MAGIC_HEAD_1, PACK_BYTE_MAGIC_HEAD_2}
                /\ InTime(Since, now)
  IN  frame' = IF begins /\ ends # {}
               THEN [first |-> i, last |-> CHOOSE j \in ends : TRUE, since |-> Since]
               ELSE IF frame.last = i THEN NoFrame ELSE frame

Unpack == P!Unpack /\ Feed /\ TrackFrame

CheckSilence ==
  /\ P!CheckSilence
  /\ \/ P!Silent /\ Reset
     \/ ~P!Silent /\ UNCHANGED vars
  /\ UNCHANGED frame

Run == P!Run /\ UNCHANGED <<vars, frame>>

Read == P!Read /\ UNCHANGED <<vars, frame>>

EndOfChunk == P!EndOfChunk /\ UNCHANGED <<vars, frame>>

Arrive ==
  /\ pos + chunk + rx < Len(line)
  /\ P!Arrive
  /\ UNCHANGED <<vars, frame>>

Clock ==
  /\ P!Tick
  /\ Tick
  /\ frame' = IF InTime(frame.since, now') THEN frame ELSE NoFrame

Running == Read \/ Unpack \/ EndOfChunk \/ CheckSilence

LinkNext == Run \/ Running \/ Arrive \/ Clock

LinkSpec == LinkInit /\ [][LinkNext]_linkVars

(* As in Port; and time goes on.                                           *)
FairLinkSpec ==
  LinkSpec /\ WF_linkVars(Run) /\ WF_linkVars(Running) /\ WF_linkVars(Clock)

-----------------------------------------------------------------------------
(* A frame that starts when the decoder waits for one, or behind a stray   *)
(* 0xAA whose start time is kept (nano_net_default_packager.c:273), fits   *)
(* the buffer and comes through before a timeout is delivered at its last  *)
(* byte, however its bytes are spread over reads and runs, whatever idle   *)
(* tests and other frames come between, and although the clock wraps.      *)
IntactDelivered ==
  [][frame # NoFrame /\ pos' = frame.last =>
       out' = Append(out, FramePkg(SubSeq(line, frame.first, frame.last)))]_linkVars

(* Whatever the line carried, once it stays silent the decoder ends up     *)
(* waiting for a first byte: a cut frame never takes the next one with it. *)
Resynchronises == <>[](waiting_byte = PACK_BYTE_MAGIC_HEAD_1)
=============================================================================
