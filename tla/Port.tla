-------------------------------- MODULE Port --------------------------------
(***************************************************************************)
(* The receive side of a port, nano_net_port_unpack in                     *)
(* private/nano_net_port.c: the loop that reads the driver and the test    *)
(* for a silent line behind it.  Bytes are only counted here; module Link  *)
(* gives each Unpack and each CheckSilence its effect on the decoder.      *)
(*                                                                         *)
(* rx is what the driver behind the port's read function holds, chunk what *)
(* of read_buf has not been through the decoder yet.  The driver receives  *)
(* and the clock runs at any moment, between any two bytes.  lag counts    *)
(* the ticks since the last complete run; it is not in the code.           *)
(***************************************************************************)
EXTENDS Integers

CONSTANTS OnceSize,      \* UNPACK_ONCE_SIZE
          MaxPoll,       \* UNPACK_MAX_POLLING_CNT
          RecvTimeout,   \* NANO_NET_PORT_RECV_TIMEOUT_MS
          TimeMod,       \* 2^32 in the code
          RxSize,        \* the size of the driver's buffer
          MaxLag         \* how long the application lets a run wait or take

(* Above 253 the uint8_t read_cnt would wrap before it passes the limit.   *)
ASSUME PortAssumption ==
  /\ OnceSize \in Nat \ {0}
  /\ MaxPoll \in 0..253
  /\ TimeMod \in Nat \ {0}
  /\ RecvTimeout \in 0..(TimeMod - 1)
  /\ RxSize \in Nat
  /\ MaxLag \in Nat

VARIABLES pc, rx, chunk, read_len, read_cnt, last_recv_time, now, lag

loopVars == <<pc, chunk, read_len, read_cnt, last_recv_time>>
vars == <<loopVars, rx, now, lag>>

Init ==
  /\ pc = "idle"
  /\ rx = 0
  /\ chunk = 0
  /\ read_len = 0
  /\ read_cnt = 0
  /\ last_recv_time = 0
  /\ now = 0
  /\ lag = 0

-----------------------------------------------------------------------------
\* nano_net_run calls nano_net_port_unpack on a readable port.
Run ==
  /\ pc = "idle"
  /\ pc' = "read"
  /\ read_len' = 0
  /\ read_cnt' = 0
  /\ UNCHANGED <<rx, chunk, last_recv_time, now, lag>>

\* Mutant: every read counts as a reception, an empty one too.
Read_StampsEmpty ==
  /\ pc = "read"
  /\ read_len' = IF rx < OnceSize THEN rx ELSE OnceSize
  /\ rx' = rx - read_len'
  /\ chunk' = read_len'
  /\ pc' = IF read_len' = 0 THEN "check" ELSE "unpack"
  /\ last_recv_time' = now
  /\ UNCHANGED <<read_cnt, now, lag>>

\* Mutant: all of read_buf is unpacked, however much was read.
Read_WholeBuffer ==
  /\ pc = "read"
  /\ read_len' = IF rx < OnceSize THEN rx ELSE OnceSize
  /\ rx' = rx - read_len'
  /\ chunk' = IF rx = 0 THEN 0 ELSE OnceSize
  /\ pc' = IF read_len' = 0 THEN "check" ELSE "unpack"
  /\ last_recv_time' = IF read_len' = 0 THEN last_recv_time ELSE now
  /\ UNCHANGED <<read_cnt, now, lag>>

\* port->read fills read_buf with what the driver has, as far as it fits.
Read ==
  /\ pc = "read"
  /\ read_len' = IF rx < OnceSize THEN rx ELSE OnceSize
  /\ rx' = rx - read_len'
  /\ chunk' = read_len'
  /\ pc' = IF read_len' = 0 THEN "check" ELSE "unpack"
  /\ last_recv_time' = IF read_len' = 0 THEN last_recv_time ELSE now
  /\ UNCHANGED <<read_cnt, now, lag>>

\* One byte of nano_net_packager_unpack, with the callbacks it makes.
Unpack ==
  /\ pc = "unpack"
  /\ chunk > 0
  /\ chunk' = chunk - 1
  /\ UNCHANGED <<pc, rx, read_len, read_cnt, last_recv_time, now, lag>>

\* Mutant: the number of reads is not limited.
EndOfChunk_Unlimited ==
  /\ pc = "unpack"
  /\ chunk = 0
  /\ read_cnt' = (read_cnt + 1) % 256
  /\ pc' = IF read_len >= OnceSize THEN "check" ELSE "read"
  /\ UNCHANGED <<rx, chunk, read_len, last_recv_time, now, lag>>

\* The two ways out of the loop: read_cnt++ > UNPACK_MAX_POLLING_CNT, and a
\* read that filled read_buf.  After a short read it goes on.
EndOfChunk ==
  /\ pc = "unpack"
  /\ chunk = 0
  /\ read_cnt' = (read_cnt + 1) % 256
  /\ pc' = IF read_cnt > MaxPoll \/ read_len >= OnceSize THEN "check" ELSE "read"
  /\ UNCHANGED <<rx, chunk, read_len, last_recv_time, now, lag>>

\* Mutant: the timeout is over a tick too soon.
Silent_Early == (now - last_recv_time) % TimeMod >= RecvTimeout

Silent == (now - last_recv_time) % TimeMod > RecvTimeout

\* Behind the loop: if Silent, the packager is reset.
CheckSilence ==
  /\ pc = "check"
  /\ pc' = "idle"
  /\ lag' = 0
  /\ UNCHANGED <<rx, chunk, read_len, read_cnt, last_recv_time, now>>

\* The driver receives a byte.
Arrive ==
  /\ rx < RxSize
  /\ rx' = rx + 1
  /\ UNCHANGED <<loopVars, now, lag>>

Tick ==
  /\ lag < MaxLag
  /\ now' = (now + 1) % TimeMod
  /\ lag' = lag + 1
  /\ UNCHANGED <<loopVars, rx>>

Running == Read \/ Unpack \/ EndOfChunk \/ CheckSilence

Next == Run \/ Running \/ Arrive \/ Tick

Spec == Init /\ [][Next]_vars

(* nano_net_run is called in a loop, and its code does not block.          *)
FairSpec == Spec /\ WF_vars(Run) /\ WF_vars(Running)

-----------------------------------------------------------------------------
(* Types, and: only bytes that were read go to the decoder.                *)
TypeOK ==
  /\ pc \in {"idle", "read", "unpack", "check"}
  /\ rx \in 0..RxSize
  /\ read_len \in 0..OnceSize
  /\ chunk \in 0..read_len
  /\ read_cnt \in 0..255
  /\ last_recv_time \in 0..(TimeMod - 1)
  /\ now \in 0..(TimeMod - 1)
  /\ lag \in 0..MaxLag

(* A run makes at most MaxPoll + 2 reads that bring something: before any  *)
(* read at most MaxPoll + 1 were made, and the counter has not wrapped.    *)
ReadsBounded ==
  /\ pc = "read" => read_cnt <= MaxPoll + 1
  /\ read_cnt <= MaxPoll + 2

(* A run ends, however the driver goes on receiving while it lasts.        *)
RunEnds == pc # "idle" ~> pc = "idle"
=============================================================================
