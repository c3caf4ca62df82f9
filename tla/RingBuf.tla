------------------------------- MODULE RingBuf -------------------------------
(***************************************************************************)
(* The ring buffer (private/lib/nano_net_ringbuf.c).  One byte of the      *)
(* buffer stays free, so that head = tail means empty.                     *)
(***************************************************************************)
EXTENDS Integers, Sequences

CONSTANTS
  RingByte,  \* bytes written
  Size,      \* the size nano_net_ringbuf_create was called with
  SpaceMod,  \* 2^16: free_space is a uint16_t
  MaxLen     \* bound on the bytes of one call

ASSUME RingAssumption ==
  /\ Size \in Nat \ {0}
  /\ SpaceMod \in Nat \ {0}
  /\ MaxLen \in Nat

VARIABLES
  buffer,    \* ringbuf->buffer
  head,      \* where the next byte is written
  tail,      \* where the next byte is read
  arg,       \* history: what the last call was given, see Fifo
  got        \* the bytes the last read returned

ringVars == <<buffer, head, tail, arg, got>>

Index == 0..(Size - 1)

\* nano_net_ringbuf_create; malloc leaves any bytes in the buffer.
RingInit ==
  /\ buffer \in [Index -> RingByte]
  /\ head = 0 /\ tail = 0
  /\ arg = <<>> /\ got = <<>>

\* Mutant: no byte is kept free.
FreeSpace_Whole == ((tail + Size - head) % Size) % SpaceMod

FreeSpace == ((tail + Size - head - 1) % Size) % SpaceMod

Available == (head + Size - tail) % Size

Least(a, b) == IF a < b THEN a ELSE b

\* Mutant: what does not fit behind head is not copied to the front.
Stored_NoWrap(data, n) ==
  [i \in Index |-> IF head <= i /\ i < head + n THEN data[i - head + 1] ELSE buffer[i]]

\* The first n bytes of data copied to head on, and from the front again
\* when they reach past the end.
Stored(data, n) ==
  LET first == Size - head
  IN  [i \in Index |->
         IF head <= i /\ i < head + n THEN data[i - head + 1]
         ELSE IF head + n > Size /\ i < n - first THEN data[first + i + 1]
         ELSE buffer[i]]

\* Mutant: head stays at Size when the write ends there.
RingWrite_Unwrapped(data) ==
  LET n == Least(Len(data), FreeSpace)
  IN  /\ arg' = data
      /\ buffer' = Stored(data, n)
      /\ head' = IF head + n > Size THEN head + n - Size ELSE head + n
      /\ UNCHANGED <<tail, got>>

\* nano_net_ringbuf_write; a write of nothing returns early.
RingWrite(data) ==
  LET n == Least(Len(data), FreeSpace)
  IN  /\ arg' = data
      /\ buffer' = Stored(data, n)
      /\ head' = (head + n) % Size
      /\ UNCHANGED <<tail, got>>

\* n bytes copied from tail on, and from the front again.
Copied(n) ==
  LET first == Size - tail
  IN  [k \in 1..n |-> IF k <= first THEN buffer[tail + k - 1] ELSE buffer[k - first - 1]]

\* nano_net_ringbuf_read; it returns the number of bytes copied.
RingRead(len) ==
  LET n == Least(len, Available)
  IN  /\ arg' = <<len>>
      /\ got' = Copied(n)
      /\ tail' = (tail + n) % Size
      /\ UNCHANGED <<buffer, head>>

\* nano_net_ringbuf_clear.
RingClear ==
  /\ arg' = <<>>
  /\ head' = 0 /\ tail' = 0
  /\ UNCHANGED <<buffer, got>>

RingNext ==
  \/ \E n \in 1..MaxLen : \E data \in [1..n -> RingByte] : RingWrite(data)
  \/ \E len \in 1..MaxLen : RingRead(len)
  \/ RingClear

RingSpec == RingInit /\ [][RingNext]_ringVars

-----------------------------------------------------------------------------
RingTypeOK ==
  /\ buffer \in [Index -> RingByte]
  /\ head \in Index /\ tail \in Index
  /\ arg \in Seq(RingByte \cup Nat)
  /\ got \in Seq(RingByte)

\* The bytes between tail and head.
Content == [k \in 1..Available |-> buffer[(tail + k - 1) % Size]]

Queue == INSTANCE Fifo WITH
           Byte <- RingByte, content <- Content, Capacity <- Size - 1

(* The buffer is a queue of Size - 1 bytes: nothing is lost, repeated or   *)
(* reordered, wherever head and tail stand and however a write or a read   *)
(* wraps around.                                                           *)
ImplementsFifo == Queue!Spec

\* nano_net_ringbuf_is_empty and nano_net_ringbuf_is_full.
IsEmpty == head = tail
IsFull == (head + 1) % Size = tail

(* The two tests tell what a call can do: a write stores nothing exactly   *)
(* when the buffer is full, a read returns nothing exactly when it is      *)
(* empty; it is never both.                                                *)
EmptyAndFull ==
  /\ IsEmpty <=> Available = 0
  /\ IsFull <=> FreeSpace = 0
  /\ Size > 1 => ~(IsEmpty /\ IsFull)
=============================================================================
