---------------------------- MODULE MCRegionManager ----------------------------
(***************************************************************************)
(* RegionManager on small memories: a page is two units, the pager's own     *)
(* region one page.  Three free lists hold regions of one page, of two     *)
(* pages and larger ones.                                                  *)
(***************************************************************************)
EXTENDS RegionManager

\* Two places for a chunk, each with room for one larger than MemGrow.
MCHostBases == {10, 30}
MCGuestAddrs == {100}
\* Nothing, part of a page, part of two, more than a chunk of three pages.
MCSizes == {0, 1, 3, 7}
\* Page multiples.  Offsets inside a page, which mprotect passes on to slice, are
\* left to the proofs.
MCPageCuts == {2, 4}
===============================================================================
