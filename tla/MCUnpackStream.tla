--------------------------- MODULE MCUnpackStream ---------------------------
(***************************************************************************)
(* UnpackStream on lines made of a few pieces: two good frames (one with   *)
(* the magic bytes in its data), a frame with a damaged byte, a frame too  *)
(* long for the buffer, a cut frame, stray magic bytes.  Every order of up *)
(* to MaxPieces pieces, every timing, every reset.                         *)
(***************************************************************************)
EXTENDS UnpackStream, SequencesExt

CONSTANT MaxPieces

Pkg(msg_id, seq, fwd, data) ==
  [sender_host_id |-> 1, target_host_id |-> 2, msg_id |-> msg_id,
   data_len |-> Len(data), seq |-> seq, need_ack |-> 1, is_ack |-> 0,
   forword_cnt |-> fwd, data |-> data]

Empty == PackedBytes(<<Pkg(513, 7, 0, <<>>)>>)
Tricky == PackedBytes(<<Pkg(1, 8, 5, <<MAGIC_1, MAGIC_2, 0>>)>>)
Damaged == [Tricky EXCEPT ![9] = 9]
TooLong == SubSeq(PackedBytes(<<[Pkg(2, 9, 0, <<0>>) EXCEPT !.data_len = 300]>>), 1, 9)
Cut == SubSeq(Tricky, 1, 9)

Pieces == {Empty, Tricky, Damaged, TooLong, Cut, <<MAGIC_1>>, <<MAGIC_1, MAGIC_2>>}

MCLines == {FlattenSeq(s) : s \in TupleOf(Pieces, MaxPieces)}
=============================================================================
