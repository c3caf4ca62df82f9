------------------------------ MODULE MCReentry ------------------------------
(***************************************************************************)
(* A frame, and behind it what a nested run may read: a zero byte, another *)
(* frame, one that is cut behind its sender, or two of these.              *)
(***************************************************************************)
EXTENDS Reentry

Frame(sender, seq, data) ==
  PackedBytes(<<[sender_host_id |-> sender, target_host_id |-> 2, msg_id |-> 513,
                 data_len |-> Len(data), seq |-> seq, need_ack |-> 0, is_ack |-> 0,
                 forword_cnt |-> 0, data |-> data]>>)

First == Frame(1, 7, <<5>>)
Second == Frame(3, 8, <<>>)
Cut == SubSeq(Frame(4, 9, <<>>), 1, 4)

Behind == {<<0>>, Second, Cut, <<0, 0>> \o Second, Second \o Cut}

MCLines == {First \o rest : rest \in Behind}
=============================================================================
