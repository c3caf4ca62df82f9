---------------------------- MODULE MCPackBatch ----------------------------
(***************************************************************************)
(* Batches of up to three packages: without data, with the magic bytes in  *)
(* the data and both bytes of msg_id, with every flag, with a NULL pointer *)
(* for two bytes of data, with a pointer to data of length 0; and packages *)
(* that were forwarded twice, and as often as the counter shows.           *)
(***************************************************************************)
EXTENDS PackBatch

Pkg(msg_id, seq, flags, data_len, data) ==
  [sender_host_id |-> 1, target_host_id |-> 254, msg_id |-> msg_id,
   data_len |-> data_len, seq |-> seq, need_ack |-> flags[1], is_ack |-> flags[2],
   forword_cnt |-> flags[3], data |-> data]

SomePkgs ==
  {Pkg(0, 0, <<0, 0, 0>>, 0, NoData),
   Pkg(513, 7, <<1, 0, 0>>, 3, <<MAGIC_1, MAGIC_2, 0>>),
   Pkg(65535, 255, <<1, 1, 0>>, 1, <<0>>),
   Pkg(256, 8, <<0, 1, 0>>, 2, NoData),
   Pkg(2, 9, <<1, 0, 0>>, 0, <<9>>),
   Pkg(514, 6, <<1, 0, 2>>, 2, <<MAGIC_1, 1>>),
   Pkg(3, 10, <<1, 1, 15>>, 0, NoData)}

SomeRooms == 0..60
=============================================================================
