--------------------------------- MODULE MCHeap ---------------------------------
\* The configuration has pages of 3 bytes and a few of them, so that splits at,
\* before and behind a page border all happen.
EXTENDS Heap

ASSUME MemoryApart == RoomBelowData
================================================================================
