----------------------------- MODULE PackBatch -----------------------------
(***************************************************************************)
(* The packages of one call of pack(): those nano_net_send_msgs fills,     *)
(* message by message, or one that is forwarded.  What a port writes of    *)
(* them is pack(pkgs, room), where room is the size of its pack buffer.    *)
(***************************************************************************)
EXTENDS WireFormat

CONSTANTS
  Pkgs,    \* packages that may be packed
  Rooms,   \* pack buffer sizes
  Noise,   \* what a byte damaged on the line may read
  MULTI_MSG_SEND_MAX_CNT

\* The package a receiver should see: NULL data is none, and so is data of
\* length 0.
Carried(pkg) == [pkg EXCEPT !.data = PayloadOf(pkg)]

\* The fields have their types, and data points to data_len bytes if it is
\* not NULL.
Packable(pkg) == Carried(pkg) \in Packages /\ Len(PayloadOf(pkg)) \in {0, pkg.data_len}

ASSUME PkgsAssumption == \A pkg \in Pkgs : Packable(pkg)
ASSUME RoomsAssumption == Rooms \subseteq Nat
ASSUME NoiseAssumption == Noise \subseteq Byte

VARIABLE pkgs

PackInit == pkgs = <<>>

\* One pass of the loop of nano_net_send_msgs, or the whole of nano_net_send_msg.
Fill ==
  /\ Len(pkgs) < MULTI_MSG_SEND_MAX_CNT
  /\ \A k \in DOMAIN pkgs : pkgs[k].forword_cnt = 0
  /\ \E pkg \in Pkgs : pkg.forword_cnt = 0 /\ pkgs' = Append(pkgs, pkg)

\* nano_net_port_unpack_callback passes a package on, counted, by itself.
Forward ==
  /\ pkgs = <<>>
  /\ \E pkg \in Pkgs : pkg.forword_cnt > 0 /\ pkgs' = <<pkg>>

PackNext == Fill \/ Forward

PackSpec == PackInit /\ [][PackNext]_pkgs

-----------------------------------------------------------------------------
\* A package whose data_len bytes were written.
Whole(pkg) == Len(PayloadOf(pkg)) = pkg.data_len

(* pack never writes behind the pack buffer: the room it asks for, worked  *)
(* out from data_len before anything is written, is enough for what the    *)
(* loop then writes, packages without data included.                       *)
StaysInRoom == \A room \in Rooms : Len(pack(pkgs, room)) <= room

\* What was written for the package k of the batch.
FrameAt(k) ==
  SubSeq(PackedBytes(pkgs), Len(PackedBytes(SubSeq(pkgs, 1, k - 1))) + 1,
                            Len(PackedBytes(SubSeq(pkgs, 1, k))))

(* Although each checksum of a batch covers everything packed before it,   *)
(* what pack wrote for each package is a frame by itself, which carries    *)
(* that package: a receiver that meets it anywhere in its stream accepts   *)
(* it and gets every field back.                                           *)
PackedAreFrames ==
  \A k \in DOMAIN pkgs : Whole(pkgs[k]) =>
    LET f == FrameAt(k)
    IN  IsFrame(f) /\ FramePkg(f) = Carried(pkgs[k])

(* A frame with one damaged byte is no frame, wherever the damage is: the  *)
(* magic, the length, any other field, the data or the checksum itself.    *)
DamageShows ==
  \A k \in DOMAIN pkgs : Whole(pkgs[k]) =>
    LET f == FrameAt(k)
    IN  \A i \in DOMAIN f : \A byte \in Noise \ {f[i]} : ~IsFrame([f EXCEPT ![i] = byte])
=============================================================================
