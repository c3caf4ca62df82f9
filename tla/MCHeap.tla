------------------------------- MODULE MCHeap -------------------------------
EXTENDS Heap

CONSTANTS Buffs, Sizes, Aligns

\* Buffers at every address and of every size and alignment of small sets.
AllBuffers == [buff : Buffs, size : Sizes, align : Aligns]

SomeRequests == {1, 3, 4, 6}
=============================================================================
