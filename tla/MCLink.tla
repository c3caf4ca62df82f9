------------------------------- MODULE MCLink -------------------------------
(***************************************************************************)
(* Link on short lines.  IntactLines: a frame that was cut short before a  *)
(* good one, two frames back to back, and one behind two stray first bytes *)
(* with a byte between.  CutLines: lines that fall silent inside a header  *)
(* or behind a stray first byte, and a frame that lacks its first byte.    *)
(***************************************************************************)
EXTENDS Link

Pkg(seq, data) ==
  [sender_host_id |-> 1, target_host_id |-> 2, msg_id |-> 513,
   data_len |-> Len(data), seq |-> seq, need_ack |-> 1, is_ack |-> 0,
   forword_cnt |-> 0, data |-> data]

IntactLines ==
  {<<MAGIC_1, MAGIC_2, 1>> \o PackedBytes(<<Pkg(7, <<>>)>>),
   PackedBytes(<<Pkg(8, <<>>), Pkg(9, <<3>>)>>),
   <<MAGIC_1, 0, MAGIC_1>> \o PackedBytes(<<Pkg(7, <<>>)>>)}

CutLines ==
  {<<MAGIC_1, MAGIC_2>>, <<MAGIC_1, 0, MAGIC_1>>, <<MAGIC_1, MAGIC_2, 1, 2, 0>>,
   SubSeq(PackedBytes(<<Pkg(7, <<>>)>>), 2, 14)}
=============================================================================
