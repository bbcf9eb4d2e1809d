----------------------------- MODULE RegionManager -----------------------------
(***************************************************************************)
(* The allocator of guest memory: RegionManager (src/src/region_manager.cc *)
(* and include/elkvm/region_manager.h) and the Region objects it hands out *)
(* (src/src/region.cc).                                                    *)
(*                                                                         *)
(* Memory is counted in units of which PageSize make a page, so sizes that *)
(* are no multiple of a page exist.  A region is a record [base, size,     *)
(* addr]: host_p, rsize and the guest address it is bound to (0: none).    *)
(* Whether Region::free is set is told by where the region is: allocated   *)
(* (allocated_regions, free = false) or a free list (free = true).         *)
(* allocated is a set: the vector's order is only seen by find_region,     *)
(* which NoOverlap makes independent of it.  A failing assert aborts the   *)
(* process; fault records which one.                                       *)
(***************************************************************************)
EXTENDS Integers, Sequences, FiniteSets, SequencesExt

CONSTANTS
    PageSize,    \* ELKVM_PAGESIZE
    NumLists,    \* RegionManager::n_freelists
    MemGrow,     \* ELKVM_SYSTEM_MEMGROW
    PagerMem,    \* ELKVM_PAGER_MEMSIZE
    MaxSlots,    \* KVM_MEMORY_SLOTS
    HostBases,   \* addresses posix_memalign may return
    GuestAddrs,  \* guest addresses users bind regions to
    Sizes,       \* sizes that are requested
    Cuts         \* offsets and lengths regions are sliced at

ASSUME PageAssumption == PageSize \in Nat \ {0}
ASSUME ListAssumption == NumLists \in Nat \ {0}
ASSUME SizeAssumption ==
    /\ MemGrow \in Nat \ {0}
    /\ PagerMem \in Nat \ {0}
    /\ MaxSlots \in Nat \ {0}
    /\ HostBases \subseteq Nat \ {0}
    /\ GuestAddrs \subseteq Nat \ {0}
    /\ Sizes \subseteq Nat
    /\ Cuts \subseteq Nat

VARIABLES
    allocated,   \* allocated_regions
    freelists,   \* freelists[i], first pushed first
    chunks,      \* PagerX86_64::chunks, in slot order
    sys,         \* host address of the pager's own region (host_pml4_p), 0 before
    fault        \* the assertion that stopped the process, or "none"

vars == <<allocated, freelists, chunks, sys, fault>>

Lists == 0..(NumLists - 1)

Region == [base : Nat, size : Nat, addr : Nat]

Chunk == [base : Nat, size : Nat]

Faults == {"none", "no_memory", "empty_slice", "no_region_after_chunk",
           "short_region", "bad_slice", "bad_free"}

Running == fault = "none"

\* Every operation but the constructor needs a constructed object.
Ready == Running /\ sys # 0
--------------------------------------------------------------------------------
(***************************************************************************)
(* Helpers of pager.cc and region.cc.  A definition named after another    *)
(* with a suffix _Bug is a plausible mistake in that code; it is not part  *)
(* of the specification and serves to show that a property can fail.       *)
(***************************************************************************)
pagesize_align(n) ==
    IF n % PageSize # 0 THEN n - (n % PageSize) + PageSize ELSE n

\* The limits 0x1000, 0x2000, ... of the if-chain are PageSize * 2^i: the
\* index is the number of limits the size exceeds.
get_freelist_idx(size) ==
    Cardinality({i \in 0..(NumLists - 2) : size > PageSize * 2^i})

contains_address(r, p) == r.base <= p /\ p < r.base + r.size

\* Region::slice_begin: a new region for the front, this one keeps the rest.
slice_begin_Bug(r, size) ==
    [front |-> [base |-> r.base, size |-> size, addr |-> 0],
     rest  |-> [base |-> r.base + pagesize_align(size),
                size |-> r.size - pagesize_align(size),
                addr |-> IF r.addr = 0 THEN 0 ELSE r.addr + pagesize_align(size)]]

slice_begin_Bug2(r, size) ==
    [front |-> [base |-> r.base, size |-> pagesize_align(size), addr |-> 0],
     rest  |-> [base |-> r.base + pagesize_align(size), size |-> r.size,
                addr |-> IF r.addr = 0 THEN 0 ELSE r.addr + pagesize_align(size)]]

slice_begin(r, size) ==
    [front |-> [base |-> r.base, size |-> pagesize_align(size), addr |-> 0],
     rest  |-> [base |-> r.base + pagesize_align(size),
                size |-> r.size - pagesize_align(size),
                addr |-> IF r.addr = 0 THEN 0 ELSE r.addr + pagesize_align(size)]]

\* Region::slice_center: this region is cut down to what is before off, the
\* tail becomes a region of its own and the len units between are free.
slice_center_Bug(r, off, len) ==
    [head |-> [base |-> r.base, size |-> r.size, addr |-> r.addr],
     tail |-> [base |-> r.base + off + len, size |-> r.size - off - len,
               addr |-> r.addr + off],
     gap  |-> [base |-> r.base + off, size |-> len, addr |-> 0]]

slice_center(r, off, len) ==
    [head |-> [base |-> r.base, size |-> off, addr |-> r.addr],
     tail |-> [base |-> r.base + off + len, size |-> r.size - off - len,
               addr |-> r.addr + off],
     gap  |-> [base |-> r.base + off, size |-> len, addr |-> 0]]

set_guest_addr(r, a) == [base |-> r.base, size |-> r.size, addr |-> a]

\* Region::set_free
set_free(r) == [base |-> r.base, size |-> r.size, addr |-> 0]
--------------------------------------------------------------------------------
(***************************************************************************)
(* Free lists.                                                             *)
(***************************************************************************)
\* The region goes to the back of the list of its size.
add_free_region(fl, r) ==
    [fl EXCEPT ![get_freelist_idx(r.size)] = Append(@, r)]

\* find_free_region: position p of list i holds the first region that is
\* large enough, from the list of the requested size upwards.
IsFirstFit(fl, size, i, p) ==
    /\ i >= get_freelist_idx(size)
    /\ fl[i][p].size >= size
    /\ \A q \in 1..(p - 1) : fl[i][q].size < size
    /\ \A j \in get_freelist_idx(size)..(i - 1) :
           \A q \in 1..Len(fl[j]) : fl[j][q].size < size

\* find_free_region returns nullptr.
NoFit_Bug(fl, size) ==
    \A i \in Lists : i > get_freelist_idx(size) =>
        \A p \in 1..Len(fl[i]) : fl[i][p].size < size

NoFit(fl, size) ==
    \A i \in Lists : i >= get_freelist_idx(size) =>
        \A p \in 1..Len(fl[i]) : fl[i][p].size < size

\* An assertion failed: the process aborts, and nobody sees what it leaves.
Abort(f) ==
    /\ fault' = f
    /\ UNCHANGED <<allocated, freelists>>

\* The assertions of allocate_region on the region it found: slice_begin
\* wants size > 0, the last line wants the region to be large enough.
HandOutFault(r, size) ==
    CASE r.size > pagesize_align(size) /\ size = 0   -> "empty_slice"
      [] r.size <= pagesize_align(size) /\ r.size < size -> "short_region"
      [] OTHER -> "none"

\* allocate_region once find_free_region has erased position p of list i:
\* a larger region is cut and its rest goes back to the free lists; then
\* use_region records the result.
HandOut_Bug(fl, i, p, size) ==
    LET r == fl[i][p]
    IN /\ freelists' = [fl EXCEPT ![i] = RemoveAt(@, p)]
       /\ allocated' = allocated \cup {IF r.size > pagesize_align(size)
                                      THEN slice_begin(r, size).front ELSE r}

HandOut(fl, i, p, size) ==
    LET r   == fl[i][p]
        fl2 == [fl EXCEPT ![i] = RemoveAt(@, p)]
        cut == slice_begin(r, size)
    IN IF r.size > pagesize_align(size)
       THEN /\ freelists' = add_free_region(fl2, cut.rest)
            /\ allocated' = allocated \cup {cut.front}
       ELSE /\ freelists' = fl2
            /\ allocated' = allocated \cup {r}

\* What allocate_region does with the free lists it ends up with.
TakeFirstFit(fl, size) ==
    \E i \in Lists : \E p \in 1..Len(fl[i]) :
        /\ IsFirstFit(fl, size, i, p)
        /\ IF HandOutFault(fl[i][p], size) = "none"
           THEN HandOut(fl, i, p, size) /\ UNCHANGED fault
           ELSE Abort(HandOutFault(fl[i][p], size))
--------------------------------------------------------------------------------
(***************************************************************************)
(* Chunks.  posix_memalign (external) returns memory that overlaps no      *)
(* chunk, KVM may refuse it.                                               *)
(***************************************************************************)
GrowSize_Bug(size) == MemGrow

GrowSize(size) == IF size > MemGrow THEN pagesize_align(size) ELSE MemGrow

\* Some chunk already has memory of [base, base + size).
InUse(base, size) ==
    \E k \in 1..Len(chunks) :
        /\ base < chunks[k].base + chunks[k].size
        /\ chunks[k].base < base + size

\* add_chunk with create_mem_chunk and alloc_chunk: the chunk takes the next
\* slot and becomes one free region; the search is then repeated.
GrowAndTake(size, base) ==
    LET grow == GrowSize(size)
        fl   == add_free_region(freelists, [base |-> base, size |-> grow, addr |-> 0])
    IN /\ Len(chunks) < MaxSlots
       /\ ~InUse(base, grow)
       /\ IF NoFit(fl, size)
          THEN Abort("no_region_after_chunk")
          ELSE TakeFirstFit(fl, size)
       /\ chunks' = IF fault' = "none"
                    THEN Append(chunks, [base |-> base, size |-> grow])
                    ELSE chunks
--------------------------------------------------------------------------------
(***************************************************************************)
(* Operations.                                                             *)
(***************************************************************************)
Init ==
    /\ allocated = {}
    /\ freelists = [i \in Lists |-> <<>>]
    /\ chunks = <<>>
    /\ sys = 0
    /\ fault = "none"

\* RegionManager::RegionManager: the first region is the pager's.
Construct(base) ==
    /\ Running /\ sys = 0
    /\ GrowAndTake(PagerMem, base)
    /\ sys' = base

\* allocate_region when a free region is large enough.
AllocateFree(size) ==
    /\ Ready
    /\ ~NoFit(freelists, size)
    /\ TakeFirstFit(freelists, size)
    /\ UNCHANGED <<chunks, sys>>

\* allocate_region when it has to add a chunk and can.
AllocateGrow(size, base) ==
    /\ Ready
    /\ NoFit(freelists, size)
    /\ GrowAndTake(size, base)
    /\ UNCHANGED sys

\* allocate_region when posix_memalign or KVM refuses, or no slot is left:
\* "could not allocate memory for new region".
AllocateFail(size) ==
    /\ Ready
    /\ NoFit(freelists, size)
    /\ Abort("no_memory")
    /\ UNCHANGED <<chunks, sys>>

\* A user of a fresh region binds it to a guest address: the constructor of
\* Mapping, Stack::expand and the tables of the virtual CPU.
Bind(r, a) ==
    /\ Ready
    /\ r.addr = 0 /\ r.base # sys
    /\ allocated' = (allocated \ {r}) \cup {set_guest_addr(r, a)}
    /\ UNCHANGED <<freelists, chunks, sys, fault>>

\* free_region(r)
free_region_Bug(r) ==
    /\ Ready
    /\ r.base # sys
    /\ freelists' = add_free_region(freelists, set_free(r))
    /\ UNCHANGED <<allocated, chunks, sys, fault>>

free_region(r) ==
    /\ Ready
    /\ r.base # sys
    /\ allocated' = allocated \ {r}
    /\ freelists' = add_free_region(freelists, set_free(r))
    /\ UNCHANGED <<chunks, sys, fault>>

\* free_region(host_p, sz): p may be any address of the region, sz must be
\* its size.
free_region_at(p, sz) ==
    /\ Ready
    /\ ~contains_address([base |-> sys, size |-> PagerMem], p)
    /\ \/ \E r \in allocated :
              contains_address(r, p) /\ r.size = sz /\ free_region(r)
       \/ /\ ~\E r \in allocated : contains_address(r, p) /\ r.size = sz
          /\ Abort("bad_free")
          /\ UNCHANGED <<chunks, sys>>

\* HeapManager::slice_begin and Mapping::move_guest_address: the first off
\* units of a bound region become free.
SliceFront_Bug(r, off) ==
    /\ Ready
    /\ r.addr # 0 /\ 0 < off /\ off < r.size
    /\ pagesize_align(off) < r.size
    /\ allocated' = (allocated \ {r})
                    \cup {set_guest_addr(slice_begin(r, off).rest, r.addr)}
    /\ freelists' = add_free_region(freelists, slice_begin(r, off).front)
    /\ UNCHANGED <<chunks, sys, fault>>

SliceFront(r, off) ==
    /\ Ready
    /\ r.addr # 0 /\ 0 < off /\ off < r.size
    /\ IF pagesize_align(off) < r.size
       THEN /\ allocated' = (allocated \ {r}) \cup {slice_begin(r, off).rest}
            /\ freelists' = add_free_region(freelists, slice_begin(r, off).front)
            /\ UNCHANGED fault
       ELSE Abort("bad_slice")
    /\ UNCHANGED <<chunks, sys>>

\* HeapManager::slice_center: slice_region uses the tail and frees the gap,
\* then create_mapping builds a Mapping on the tail, whose constructor binds
\* it to the guest address it had before the cut.
SliceCenter_Bug(r, off, len) ==
    LET cut == slice_center(r, off, len)
    IN /\ Ready
       /\ r.addr # 0 /\ 0 < off /\ 0 < len /\ off < r.size
       /\ allocated' = (allocated \ {r})
                       \cup {cut.head, set_guest_addr(cut.tail, r.addr + off + len)}
       /\ freelists' = add_free_region(freelists, cut.gap)
       /\ UNCHANGED <<chunks, sys, fault>>

SliceCenter(r, off, len) ==
    LET cut == slice_center(r, off, len)
    IN /\ Ready
       /\ r.addr # 0 /\ 0 < off /\ 0 < len /\ off + len < r.size
       /\ allocated' = (allocated \ {r})
                       \cup {cut.head, set_guest_addr(cut.tail, r.addr + off + len)}
       /\ freelists' = add_free_region(freelists, cut.gap)
       /\ UNCHANGED <<chunks, sys, fault>>

\* The process has aborted.
Halted == ~Running /\ UNCHANGED vars

Next ==
    \/ \E b \in HostBases : Construct(b)
    \/ \E s \in Sizes : AllocateFree(s) \/ AllocateFail(s)
    \/ \E s \in Sizes, b \in HostBases : AllocateGrow(s, b)
    \/ \E r \in allocated : \/ \E a \in GuestAddrs : Bind(r, a)
                            \/ free_region(r)
    \/ \E r \in allocated, off \in Cuts : SliceFront(r, off)
    \/ \E r \in allocated, off \in Cuts, len \in Cuts : SliceCenter(r, off, len)
    \/ \E r \in allocated, p \in Cuts, s \in Sizes : free_region_at(r.base + p, s)
    \/ Halted

Spec == Init /\ [][Next]_vars
--------------------------------------------------------------------------------
(***************************************************************************)
(* Properties.                                                             *)
(***************************************************************************)
\* Type invariant of the allocator's state.
TypeOK ==
    /\ allocated \subseteq Region
    /\ freelists \in [Lists -> Seq(Region)]
    /\ chunks \in Seq(Chunk)
    /\ sys \in Nat
    /\ fault \in Faults

Disjoint(r, s) == r.base + r.size <= s.base \/ s.base + s.size <= r.base

Inside(r, c) == c.base <= r.base /\ r.base + r.size <= c.base + c.size

\* r shares no memory with a region of the free lists fl.
Apart(r, fl) ==
    \A i \in Lists : \A p \in 1..Len(fl[i]) : Disjoint(r, fl[i][p])

\* No two entries of the free lists fl share memory.
ListsDisjoint(fl) ==
    \A i, j \in Lists : \A p \in 1..Len(fl[i]), q \in 1..Len(fl[j]) :
        (i = j /\ p = q) \/ Disjoint(fl[i][p], fl[j][q])

\* r is memory of one of the chunks cs.
Owned(r, cs) == \E k \in 1..Len(cs) : Inside(r, cs[k])

ListsOwned(fl, cs) ==
    \A i \in Lists : \A p \in 1..Len(fl[i]) : Owned(fl[i][p], cs)

\* No two regions share memory, whether both are in use, both are free or
\* one is in use and one is free, and no free region is listed twice: what
\* slicing, freeing and allocation of arbitrary sizes must never break.
NoOverlap ==
    /\ \A r, s \in allocated : r = s \/ Disjoint(r, s)
    /\ \A r \in allocated : Apart(r, freelists)
    /\ ListsDisjoint(freelists)

\* Every region is memory of one chunk: a region never reaches past the
\* memory that KVM was given, so translation to guest physical addresses
\* succeeds for all of it.
InsideChunks ==
    /\ \A r \in allocated : Owned(r, chunks)
    /\ ListsOwned(freelists, chunks)

\* Every free region is in the list of its present size.  One that is filed
\* below it would be hidden from find_free_region.
ListsSorted(fl) ==
    \A i \in Lists : \A p \in 1..Len(fl[i]) : get_freelist_idx(fl[i][p].size) = i

\* No memory is lost: every unit of every chunk belongs to a region in use
\* or to a free region, after any history of slices and frees.
NoLeak ==
    \A k \in 1..Len(chunks) :
        \A b \in chunks[k].base..(chunks[k].base + chunks[k].size - 1) :
            \/ \E r \in allocated : contains_address(r, b)
            \/ \E i \in Lists : \E p \in 1..Len(freelists[i]) :
                   contains_address(freelists[i][p], b)

\* find_free_region misses nothing: when it finds no region although it only
\* looks at the lists from the class of the size upwards, no free region of
\* any list would have been large enough.
SearchComplete ==
    \A size \in Sizes : NoFit(freelists, size) =>
        \A i \in Lists : \A p \in 1..Len(freelists[i]) : freelists[i][p].size < size

\* A page is never split between two regions, so that unmapping or freeing
\* one cannot take away memory of the other.  It holds as long as regions are
\* sliced at page boundaries.
PagesNotShared ==
    \A r \in allocated \cup UNION {ToSet(freelists[i]) : i \in Lists} :
        r.base % PageSize = 0 /\ r.size % PageSize = 0

\* "should have free region after allocation" and "size <= r->size()" in
\* allocate_region never fail: the only aborts are exhausted memory and the
\* callers' empty or oversized requests.
AllocateAssertionsHold == fault \notin {"no_region_after_chunk", "short_region"}

\* A unit that stays in use across a step keeps the guest address it is
\* bound to, although slicing replaces, shrinks and moves the regions: the
\* mappings that remain after a hole is cut still name the same memory.
BindingStable ==
    [][\A r \in allocated, s \in allocated' :
           (r.addr # 0 /\ ~Disjoint(r, s)) => s.addr - s.base = r.addr - r.base]_vars

\* The memory in use is managed as MemoryPool promises.
Pool == INSTANCE MemoryPool WITH
    pool <- UNION {chunks[k].base..(chunks[k].base + chunks[k].size - 1) : k \in 1..Len(chunks)},
    held <- {[base |-> r.base, size |-> r.size] : r \in allocated}

\* RegionManager implements MemoryPool: memory is handed out only where
\* nobody holds any, and a slice only ever gives parts of a region back.
ImplementsPool == Pool!Spec
===============================================================================
