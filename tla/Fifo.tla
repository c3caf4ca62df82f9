-------------------------------- MODULE Fifo --------------------------------
(***************************************************************************)
(* What a ring buffer promises: a queue of bytes that holds up to Capacity *)
(* of them.  A write takes as many of its bytes as there is room for, a    *)
(* read returns as many as there are, oldest first.                        *)
(***************************************************************************)
EXTENDS Naturals, Sequences

CONSTANTS Byte, Capacity, MaxLen

VARIABLES
  content,   \* the bytes in the queue, oldest first
  arg,       \* what the last call was given: bytes to write, or a length
  got        \* what the last read returned

vars == <<content, arg, got>>

Init == content = <<>> /\ arg = <<>> /\ got = <<>>

Least(a, b) == IF a < b THEN a ELSE b

Write(data) ==
  /\ arg' = data
  /\ content' = content \o SubSeq(data, 1, Least(Len(data), Capacity - Len(content)))
  /\ UNCHANGED got

Read(len) ==
  LET n == Least(len, Len(content))
  IN  /\ arg' = <<len>>
      /\ got' = SubSeq(content, 1, n)
      /\ content' = SubSeq(content, n + 1, Len(content))

Clear ==
  /\ arg' = <<>>
  /\ content' = <<>>
  /\ UNCHANGED got

Next ==
  \/ \E n \in 1..MaxLen : \E data \in [1..n -> Byte] : Write(data)
  \/ \E len \in 1..MaxLen : Read(len)
  \/ Clear

Spec == Init /\ [][Next]_vars
=============================================================================
