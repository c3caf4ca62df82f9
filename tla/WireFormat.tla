----------------------------- MODULE WireFormat -----------------------------
(***************************************************************************)
(* The packets of the default packager                                     *)
(* (private/package/nano_net_default_packager.c) and pack(), which writes  *)
(* a batch of packages as packets, one after the other.                    *)
(***************************************************************************)
EXTENDS Crc16

MAGIC_1 == 170   \* 0xAA
MAGIC_2 == 85    \* 0x55

HeaderSize == 12
CrcSize == 2

(* msg_package_t with the nano_net_msg_t it points to.  The crc16 and      *)
(* reserved members are never written and are left out.                    *)
PkgFields == [sender_host_id : Byte, target_host_id : Byte, msg_id : Word16,
              data_len : Word16, seq : Byte, need_ack : 0..1, is_ack : 0..1,
              forword_cnt : 0..15]

\* What unpack_cb is given: the message data with it.
Packages == [sender_host_id : Byte, target_host_id : Byte, msg_id : Word16,
             data_len : Word16, seq : Byte, need_ack : 0..1, is_ack : 0..1,
             forword_cnt : 0..15, data : Seq(Byte)]

-----------------------------------------------------------------------------
(* pack(): the packets of a batch, one after the other in pack_buf.  A     *)
(* package to pack has the fields above and data, the bytes its msg.data   *)
(* points to, or NoData for a NULL pointer.                                *)
NoData == "NULL"

PayloadOf(pkg) == IF pkg.data_len > 0 /\ pkg.data # NoData THEN pkg.data ELSE <<>>

Header(pkg) ==
  <<MAGIC_1, MAGIC_2, pkg.sender_host_id, pkg.target_host_id,
    pkg.msg_id \div 256, pkg.msg_id % 256,
    pkg.data_len \div 256, pkg.data_len % 256, pkg.seq,
    pkg.need_ack + 2 * pkg.is_ack + 4 * pkg.forword_cnt, 0, 0>>

\* Mutant: the checksums are not counted.
PackedSize_NoCrc(pkgs) ==
  LET size[n \in 0..Len(pkgs)] ==
        IF n = 0 THEN 0 ELSE size[n - 1] + HeaderSize + pkgs[n].data_len
  IN  size[Len(pkgs)]

\* The space pack() asks for, from the data_len of every package.
PackedSize(pkgs) ==
  LET size[n \in 0..Len(pkgs)] ==
        IF n = 0 THEN 0
        ELSE size[n - 1] + HeaderSize + CrcSize + pkgs[n].data_len
  IN  size[Len(pkgs)]

\* The bytes written.  As in the code, the checksum of each packet covers
\* pack_buf from its start, the packets before it included.
PackedBytes(pkgs) ==
  LET packed[n \in 0..Len(pkgs)] ==
        IF n = 0 THEN <<>>
        ELSE LET body == packed[n - 1] \o Header(pkgs[n]) \o PayloadOf(pkgs[n])
             IN  body \o CrcBytes(nano_net_crc16(body))
  IN  packed[Len(pkgs)]

\* A byte sequence that is one well-formed packet, for the properties.
IsFrame(f) ==
  /\ Len(f) >= HeaderSize + CrcSize
  /\ f[1] = MAGIC_1 /\ f[2] = MAGIC_2
  /\ Len(f) = HeaderSize + 256 * f[7] + f[8] + CrcSize
  /\ 256 * f[Len(f) - 1] + f[Len(f)] = nano_net_crc16(SubSeq(f, 1, Len(f) - CrcSize))

\* The package a frame carries.
FramePkg(f) ==
  [sender_host_id |-> f[3], target_host_id |-> f[4], msg_id |-> 256 * f[5] + f[6],
   data_len |-> 256 * f[7] + f[8], seq |-> f[9],
   need_ack |-> f[10] % 2, is_ack |-> (f[10] \div 2) % 2,
   forword_cnt |-> (f[10] \div 4) % 16,
   data |-> SubSeq(f, 13, 12 + 256 * f[7] + f[8])]

\* The bytes pack() returns; the empty sequence stands for NULL.
pack(pkgs, pack_buf_size) ==
  IF pack_buf_size < PackedSize(pkgs) THEN <<>> ELSE PackedBytes(pkgs)
=============================================================================
