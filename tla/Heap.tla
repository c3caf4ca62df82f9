-------------------------------- MODULE Heap --------------------------------
(***************************************************************************)
(* The pool all of nano_net's memory comes from                            *)
(* (private/ll_depend/nano_net_ll_heap.c): one pointer that only moves up. *)
(* Addresses are numbers modulo AddrMod, the pointer's width; 0 is NULL.   *)
(***************************************************************************)
EXTENDS Integers, Sequences

CONSTANTS
  Buffers,    \* what nano_net_init may be given: [buff, size, align]
  Requests,   \* the sizes asked for
  AddrMod,    \* 2^32 or 2^64: a pointer wraps around
  MaxUsed     \* bound on the distance used_ptr has gone

BuffRecord == [buff : Nat \ {0}, size : Nat, align : Nat]

ASSUME HeapAssumption ==
  /\ Buffers \subseteq BuffRecord
  /\ Requests \subseteq Nat \ {0}
  /\ AddrMod \in Nat \ {0} /\ MaxUsed \in Nat
  /\ \A b \in Buffers : b.buff + b.size < AddrMod

VARIABLES
  mem_pool,   \* heap_mem_pool_t
  blocks,     \* history: the blocks handed out, [at, size], in order
  refused,    \* history: a request has been refused
  gone        \* history: how far used_ptr has moved, without wrapping

heapVars == <<mem_pool, blocks, refused, gone>>

NoPool == [buff |-> 0, size |-> 0, used_ptr |-> 0, align |-> 0]

HeapUnset == mem_pool = NoPool /\ blocks = <<>> /\ refused = FALSE /\ gone = 0

\* Mutant: the subtraction is the wrong way round.
Gap_Swapped(n, align) ==
  IF align # 0 /\ n % align # 0 THEN (n % align) - align ELSE 0

\* From address n up to the next multiple of align.
Gap(n, align) ==
  IF align # 0 /\ n % align # 0 THEN align - (n % align) ELSE 0

\* nano_net_ll_heap_init; a second call returns early.
HeapInit(b) ==
  /\ mem_pool.buff = 0
  /\ mem_pool' = [buff |-> b.buff, size |-> b.size, align |-> b.align,
                  used_ptr |-> (b.buff + Gap(b.buff, b.align)) % AddrMod]
  /\ gone' = Gap(b.buff, b.align)
  /\ UNCHANGED <<blocks, refused>>

\* Mutant: the remainder is added instead of what is missing.
Padding_Remainder(size) ==
  IF mem_pool.align # 0 THEN size % mem_pool.align ELSE 0

Padding(size) ==
  IF mem_pool.align # 0
  THEN (mem_pool.align - (size % mem_pool.align)) % mem_pool.align ELSE 0

\* Mutant: the padding replaces the size when there is some.
Footprint_Padding(size) == IF Padding(size) > 0 THEN Padding(size) ELSE size

\* What a request moves used_ptr by.
Footprint(size) == size + Padding(size)

\* Mutant: one address too many is taken for part of the pool.
Served_PastEnd == mem_pool.used_ptr <= mem_pool.buff + mem_pool.size + 1

\* Only the start of a block is compared with the end of the pool.
Served == mem_pool.used_ptr <= mem_pool.buff + mem_pool.size

\* Mutant: a request that does not fit leaves the pointer where it was.
Malloc_IfItFits(size) ==
  LET fits == mem_pool.used_ptr + size <= mem_pool.buff + mem_pool.size
  IN  /\ mem_pool.buff # 0
      /\ gone <= MaxUsed
      /\ blocks' = IF fits THEN Append(blocks, [at |-> mem_pool.used_ptr, size |-> size])
                   ELSE blocks
      /\ refused' = (refused \/ ~fits)
      /\ mem_pool' = [mem_pool EXCEPT !.used_ptr = IF fits THEN @ + Footprint(size) ELSE @]
      /\ gone' = IF fits THEN gone + Footprint(size) ELSE gone

\* nano_net_ll_heap_malloc, after nano_net_init (before it, NULL is returned
\* and nothing changes).  The pointer moves even when the request is refused.
Malloc(size) ==
  /\ mem_pool.buff # 0
  /\ gone <= MaxUsed
  /\ blocks' = IF Served THEN Append(blocks, [at |-> mem_pool.used_ptr, size |-> size])
               ELSE blocks
  /\ refused' = (refused \/ ~Served)
  /\ mem_pool' = [mem_pool EXCEPT !.used_ptr = (@ + Footprint(size)) % AddrMod]
  /\ gone' = gone + Footprint(size)

HeapNext ==
  \/ \E b \in Buffers : HeapInit(b)
  \/ \E size \in Requests : Malloc(size)

HeapSpec == HeapUnset /\ [][HeapNext]_heapVars

-----------------------------------------------------------------------------
HeapTypeOK ==
  /\ mem_pool \in [buff : Nat, size : Nat, used_ptr : Nat, align : Nat]
  /\ blocks \in Seq([at : Nat, size : Nat])
  /\ refused \in BOOLEAN
  /\ gone \in Nat

(* No byte is handed out twice, however requests of all sizes, refused and *)
(* served, follow each other (nano_net_ll_heap.c:53: nothing is freed).    *)
BlocksApart ==
  \A i, j \in DOMAIN blocks : i < j => blocks[i].at + blocks[i].size <= blocks[j].at

(* Every block starts at a multiple of stack_align, whatever the address   *)
(* of the buffer and the sizes before it.                                  *)
BlocksAligned ==
  mem_pool.align # 0 => \A i \in DOMAIN blocks : blocks[i].at % mem_pool.align = 0

\* The end of the buffer the application gave.
PoolEnd == mem_pool.buff + mem_pool.size

(* Of all blocks only the last may reach past the end of the pool, and it  *)
(* starts at the end at the latest.                                        *)
OnlyLastOverruns ==
  \A i \in DOMAIN blocks :
    /\ mem_pool.buff <= blocks[i].at /\ blocks[i].at <= PoolEnd
    /\ i < Len(blocks) => blocks[i].at + blocks[i].size <= PoolEnd

(* What nano_net.h:43 says of stack_buff_size: it is the size of the       *)
(* buffer, so no block reaches past it.  The code checks the start only.   *)
BlocksInPool ==
  \A i \in DOMAIN blocks : blocks[i].at + blocks[i].size <= PoolEnd

\* The pool's phase as its users see it.
Phase ==
  IF mem_pool.buff = 0 THEN "unset" ELSE IF refused THEN "full" ELSE "open"

Contract == INSTANCE Pool WITH phase <- Phase

(* The pool keeps the contract of Pool: it serves every request until one  *)
(* is refused, and none after that, not even a smaller one.                *)
PoolContract ==
  /\ Contract!Init
  /\ [][\/ Contract!Setup /\ UNCHANGED blocks
        \/ \E k \in 0..1 : Contract!Take(1, k) /\ Len(blocks') = Len(blocks) + k]_heapVars
=============================================================================
