-------------------------------- MODULE MCPager --------------------------------
(***************************************************************************)
(* Pager with tables of two entries and two levels of directories.  Chunks *)
(* have nine pages and may be neighbours in host memory, in either order;  *)
(* the pages that are mapped lie next to the chunks' borders.              *)
(***************************************************************************)
EXTENDS Pager

MCHostBases == {20, 29}
MCHostPages == {28, 29, 37}
MCChunkPages == {9}
MCWrite == [w |-> TRUE, x |-> FALSE]
MCExec == [w |-> FALSE, x |-> TRUE]

\* Permissions: pages of two page tables of one directory, two permissions.
MCUserPages == {1, 2, 3}
MCNoLookups == {}
MCOpts == {MCWrite, MCExec}

\* Translation: pages 1, 3 and the kernel page 9 share a slot of a TLB of
\* two; page 0 asks for the slot of a page that was never looked up.  Kernel
\* pages 8 to 11 fill one table and the upper half of the next.
MCTlbPages == {1, 2, 3}
MCLookups == {0, 1, 2, 3, 9}
MCOneOpt == {MCWrite}

\* A pager whose own memory has room for three tables.
MCTinyChunks == {4}
MCTinyPages == {23}
MCTinyUserPages == {1, 2, 3}
===============================================================================
