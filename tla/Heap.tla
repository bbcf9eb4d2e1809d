---------------------------------- MODULE Heap ----------------------------------
(* HeapManager and Mapping with the system calls that change them: mmap,       *)
(* munmap, mprotect, mremap and brk.  The functions call each other many times *)
(* in one system call, so they are operators from a heap to a heap; a system   *)
(* call is one step.  Regions are objects that mappings share: a mapping holds *)
(* the index of its region.  References to mappings are an index into one of   *)
(* the two vectors.  A failed assertion stops the evaluation and names its     *)
(* line, as does the use of a reference that is no longer valid.               *)
(* Addresses are in bytes, with pages of P bytes; protections are "none", "r"  *)
(* and "rw".  What a file puts into a mapping and the monitor's two handlers   *)
(* of mmap are left out, and translation is that of the page tables: the TLB   *)
(* is in Pager, the order of the free lists in RegionManager.                  *)
EXTENDS Integers, Sequences, FiniteSets, SequencesExt

CONSTANTS
    P,          \* ELKVM_PAGESIZE
    ChunkSize,  \* ELKVM_SYSTEM_MEMGROW
    DataAddr,   \* guest address and size of the data segment
    DataSize,
    Lengths,    \* lengths it gives
    Breaks,     \* break addresses it asks for
    Fixed,      \* addresses it gives with MAP_FIXED
    Prots,      \* protections it asks for
    MaxCalls    \* bound: number of system calls

\* The data segment does not end at a page border, where HeapManager::init fails
\* its assertion and nothing is started.
ASSUME HeapConstants ==
    /\ P \in Nat \ {0} /\ ChunkSize \in Nat \ {0} /\ ChunkSize % P = 0
    /\ DataAddr \in Nat \ {0} /\ DataAddr % P = 0
    /\ DataSize \in Nat /\ DataSize % P # 0
    /\ Lengths \subseteq Nat \ {0} /\ Breaks \subseteq Nat \ {0}
    /\ \A a \in Fixed : a \in Nat \ {0} /\ a % P = 0
    /\ Prots \subseteq {"none", "r", "rw"} /\ MaxCalls \in Nat

VARIABLES
    h,          \* the heap, see Init
    call,       \* history: the last call, the range it was about, its result
    kinds,      \* history: the kinds of system calls made so far
    calls       \* number of calls so far

vars == <<h, call, kinds, calls>>

---------------------------------------------------------------------------
(* Sizes and addresses.                                                        *)

pages_from_size(n) == (n \div P) + (IF n % P = 0 THEN 0 ELSE 1)
pagesize_align(n) == P * pages_from_size(n)
next_page(a) == P * (a \div P) + P

PageOf(a) == a \div P

\* The pages that unmap_region and map_region go through.
PageRun(a, n) == {PageOf(a) + i : i \in 0 .. n - 1}

---------------------------------------------------------------------------
(* Assertions.                                                                 *)

Check(g, p, line) == IF g.err # "none" \/ p THEN g ELSE [g EXCEPT !.err = line]

\* The continuation of a step that succeeded.
Then(g, F(_)) == IF g.err = "none" THEN F(g) ELSE g

---------------------------------------------------------------------------
(* Regions: what RegionManager and Region do.                                  *)

RegionContains(g, i, p) == g.reg[i].base <= p /\ p < g.reg[i].base + g.reg[i].size

\* get_freelist_idx: 1 page, 2, 4, 8, 16 and more.
FreelistIdx(n) == Cardinality({k \in {1, 2, 4, 8} : n > k * P})

find_free_region(g, size) ==
    {k \in DOMAIN g.lists : /\ g.reg[g.lists[k]].size >= size
                            /\ FreelistIdx(g.reg[g.lists[k]].size) >= FreelistIdx(size)}

\* The region the search meets first.
FirstFree(g, C) == CHOOSE k \in C : \A j \in C :
    LET x == FreelistIdx(g.reg[g.lists[k]].size)
        y == FreelistIdx(g.reg[g.lists[j]].size)
    IN x < y \/ (x = y /\ k <= j)

NewRegion(base, size) == [base |-> base, size |-> size, guest |-> 0, free |-> TRUE]

\* Region::slice_begin: the front of a region becomes the last region.
CutFront(g, i, n) ==
    LET rest == [g.reg[i] EXCEPT !.base = @ + n, !.size = @ - n, !.guest = IF @ = 0 THEN 0 ELSE @ + n]
    IN [g EXCEPT !.reg = Append([g.reg EXCEPT ![i] = rest], NewRegion(g.reg[i].base, n))]

add_chunk(g, size) ==
    LET n == IF size > ChunkSize THEN pagesize_align(size) ELSE ChunkSize
    IN [g EXCEPT !.reg = Append(@, NewRegion(g.top, n)),
                 !.lists = Append(@, Len(g.reg) + 1), !.top = @ + n]

use_region(g, i) == Check([g EXCEPT !.reg[i].free = FALSE, !.alloc = @ \cup {i}],
                          g.reg[i].free, "region_manager.cc:178")
add_free_region(g, i) == [g EXCEPT !.lists = Append(@, i)]

\* The region that was allocated is the one the result calls got.
allocate_region(g0, size) ==
    LET g == IF find_free_region(g0, size) = {} THEN add_chunk(g0, size) ELSE g0
        k == FirstFree(g, find_free_region(g, size))
        i == g.lists[k]
        taken == [g EXCEPT !.lists = RemoveAt(@, k)]
        n == pagesize_align(size)
    IN IF g.reg[i].size > n
       THEN [use_region(add_free_region(CutFront(taken, i, n), i), Len(g.reg) + 1)
               EXCEPT !.got = Len(g.reg) + 1]
       ELSE [use_region(taken, i) EXCEPT !.got = i]

free_region(g, i) ==
    Then(Check(g, i \in g.alloc, "region_manager.cc:139"), LAMBDA x :
        [x EXCEPT !.reg[i].free = TRUE, !.alloc = @ \ {i}, !.lists = Append(@, i)])

\* find_region for an address of the host: 0 for none.
find_region(g, p) ==
    IF \E i \in g.alloc : RegionContains(g, i, p)
    THEN CHOOSE i \in g.alloc : RegionContains(g, i, p) ELSE 0

---------------------------------------------------------------------------
(* Mappings.                                                                   *)

Get(g, r) == g[r.vec][r.idx]
Set(g, r, m) == IF r.vec = "brk" THEN [g EXCEPT !.brk[r.idx] = m]
                                 ELSE [g EXCEPT !.mm[r.idx] = m]
Ref(v, i) == [vec |-> v, idx |-> i]

contains_address(m, a) == m.addr <= a /\ a < m.addr + m.length
ContainsHost(m, p) == m.host <= p /\ p < m.host + m.length
fits_address(g, m, a) ==
    g.reg[m.reg].guest <= a /\ a < g.reg[m.reg].guest + g.reg[m.reg].size

\* operator==: neither the region nor whether it is readable is compared.
Same(m1, m2) == /\ m1.host = m2.host /\ m1.addr = m2.addr /\ m1.length = m2.length
                /\ m1.pages = m2.pages /\ (m1.prot = "rw") = (m2.prot = "rw")

\* std::find and std::find_if on a vector: the first, 0 for none.
First(s, Test(_)) == SelectInSeq(s, Test)

\* The constructor binds the region to the guest address.
Mapping(g, i, a, len, prot) ==
    [host |-> g.reg[i].base, addr |-> IF a = 0 THEN g.reg[i].base ELSE a, length |-> len,
     pages |-> pages_from_size(len), prot |-> prot, reg |-> i]

Construct(g, v, m) ==
    LET bound == [g EXCEPT !.reg[m.reg].guest = m.addr]
        checked == Check(Check(bound, g.reg[m.reg].size >= m.length, "mapping.cc:45"),
                          ~g.reg[m.reg].free, "mapping.cc:52")
    IN IF v = "brk" THEN [checked EXCEPT !.brk = Append(@, m)]
       ELSE [checked EXCEPT !.mm = Append(@, m),
                            !.cap = IF Len(g.mm) < @ THEN @ ELSE IF @ = 0 THEN 1 ELSE 2 * @]

\* Both vectors, the break's first.
InEither(i, j) == IF i # 0 THEN Ref("brk", i) ELSE Ref("mm", j)

\* For an address of the guest, and for one of the host.
find_mapping(g, a) ==
    LET Test(m) == contains_address(m, a) IN InEither(First(g.brk, Test), First(g.mm, Test))
FindMappingOfHost(g, p) ==
    LET Test(m) == ContainsHost(m, p) IN InEither(First(g.brk, Test), First(g.mm, Test))

---------------------------------------------------------------------------
(* HeapManager: mapping and unmapping.                                         *)

\* map without access unmaps what is mapped, up to the first page that is not.
MapNone(g, r) ==
    LET m == Get(g, r)
        run == {i \in 0 .. m.pages - 1 :
                  \A j \in 0 .. i : PageOf(m.addr) + j \in DOMAIN g.pt}
        gone == {PageOf(m.addr) + i : i \in run}
    IN Set([g EXCEPT !.pt = [q \in DOMAIN @ \ gone |-> @[q]]], r,
           [m EXCEPT !.length = 0, !.pages = 0])

\* map: a mapping that is not in the vector for mmap, such as one of the break,
\* is copied there; pages that are mapped elsewhere are an error.
MapSome(g, r) ==
    LET m == Get(g, r)
        copied == IF First(g.mm, LAMBDA x : Same(x, m)) # 0 THEN g
                  ELSE [g EXCEPT !.mm = Append(@, m),
                                 !.cap = IF Len(g.mm) < @ THEN @ ELSE IF @ = 0 THEN 1 ELSE 2 * @]
        new == [q \in PageRun(m.addr, m.pages) |-> PageOf(m.host) + q - PageOf(m.addr)]
        ok == /\ m.addr % P = m.host % P
              /\ \A q \in DOMAIN new \cap DOMAIN g.pt : new[q] = g.pt[q]
        used == IF g.reg[m.reg].free THEN use_region(copied, m.reg) ELSE copied
    IN Check(Check([used EXCEPT !.pt = [q \in DOMAIN @ \cup DOMAIN new |->
                                            IF q \in DOMAIN new THEN new[q] ELSE @[q]]],
                     m.host = g.reg[m.reg].base, "heap.cc:265"), ok, "heap.cc:271")

map(g, r) == Then(g, LAMBDA x : IF Get(x, r).prot = "none" THEN MapNone(x, r) ELSE MapSome(x, r))

\* free_mapping: the first equal one, the break's vector first.
free_mapping(g, m) ==
    LET Test(x) == Same(x, m)
        r == InEither(First(g.brk, Test), First(g.mm, Test))
    IN
    Then(Check(g, r.idx # 0, "heap.cc:214"), LAMBDA x :
        IF r.vec = "brk" THEN [x EXCEPT !.brk = RemoveAt(@, r.idx)]
                         ELSE [x EXCEPT !.mm = RemoveAt(@, r.idx)])

unmap_Bug(g, r, a, n) ==
    LET left == [Get(g, r) EXCEPT !.pages = @ - n]
        y == Set(g, r, left)
    IN IF left.pages > 0 THEN y
       ELSE Then(free_region(y, left.reg), LAMBDA z : free_mapping(z, left))

unmap_Bug2(g, r, a, n) ==
    LET left == [Get(g, r) EXCEPT !.pages = @ - n]
        y == Set([g EXCEPT !.pt = [q \in DOMAIN @ \ PageRun(a, n + 1) |-> @[q]]], r, left)
    IN IF left.pages > 0 THEN y
       ELSE Then(free_region(y, left.reg), LAMBDA z : free_mapping(z, left))

\* The last page gives the region back and erases the mapping.
unmap(g, r, a, n) ==
    LET m == Get(g, r)
        asked == Check(Check(Check(Check(g,
                    contains_address(m, a), "heap.cc:333"),
                    n <= m.pages, "heap.cc:334"),
                    n > 0 /\ contains_address(m, a + (n - 1) * P), "heap.cc:335"),
                    PageRun(a, n) \subseteq DOMAIN g.pt, "heap.cc:338")
        left == [m EXCEPT !.pages = @ - n]
    IN Then(asked, LAMBDA x :
         LET y == Set([x EXCEPT !.pt = [q \in DOMAIN @ \ PageRun(a, n) |-> @[q]]], r, left) IN
         IF left.pages > 0 THEN y
         ELSE Then(free_region(y, m.reg), LAMBDA z : free_mapping(z, left)))

\* create_mapping, with a region or 0; the new mapping is the last of its vector.
create_mapping(g, a, size, prot, i) ==
    LET len == pagesize_align(size)
        x == IF i = 0 THEN allocate_region(g, len) ELSE [g EXCEPT !.got = i]
        y == Construct(x, "mm", Mapping(x, x.got, a, len, prot))
    IN Then(g, LAMBDA w : Then(map(y, Ref("mm", Len(y.mm))), LAMBDA z :
         Check(z, ~z.reg[x.got].free /\ find_region(z, z.reg[x.got].base) # 0, "heap.cc:205")))

---------------------------------------------------------------------------
(* Slices: the part of a mapping that is taken away.                           *)

move_guest_address_Bug(g, r, off) ==
    LET m == Get(g, r)
        x == [g EXCEPT !.reg = Append([@ EXCEPT ![m.reg].base = @ + off, ![m.reg].size = @ - off,
                                               ![m.reg].guest = @ + off],
                                     NewRegion(g.reg[m.reg].base, off))]
    IN Set(x, r, [m EXCEPT !.addr = @ + off, !.length = @ - off,
                           !.pages = pages_from_size(m.length - off)])

move_guest_address(g, r, off) ==
    LET m == Get(g, r)
        n == pagesize_align(off)
        a == Check(Check(g, off < m.length /\ m.length <= g.reg[m.reg].size, "mapping.cc:65"),
                    g.reg[m.reg].size > n, "region.cc:92")
    IN Then(a, LAMBDA w :
         Check(Set(CutFront(w, m.reg, n), r, [m EXCEPT
                !.addr = @ + off, !.length = @ - off, !.host = @ + off,
                !.pages = pages_from_size(m.length - off)]),
                m.length - off <= g.reg[m.reg].size - n, "mapping.cc:74"))

\* When every page was unmapped the mapping is gone and its reference with it.
slice_begin(g, r, len) ==
    LET m == Get(g, r)
        n == pages_from_size(len)
    IN Then(unmap(g, r, m.addr, n), LAMBDA x :
         IF n = m.pages THEN [x EXCEPT !.err = "reference"]
         ELSE Then(move_guest_address(x, r, len), LAMBDA y : add_free_region(y, Len(y.reg))))

\* slice_region with Region::slice_center: tail and gap become regions.
slice_region(g, i, off, len) ==
    LET old == g.reg[i]
        x == [g EXCEPT !.reg = [@ EXCEPT ![i].size = off]
                \o <<[base |-> old.base + off + len, size |-> old.size - off - len,
                      guest |-> old.guest + off, free |-> TRUE],
                     NewRegion(old.base + off, len)>>]
    IN Then(Check(g, 0 < off /\ off + len < old.size, "region.cc:110"), LAMBDA w :
         add_free_region(use_region(x, Len(g.reg) + 1), Len(g.reg) + 2))

set_length(g, r, len) ==
    LET m == Get(g, r) IN
    Then(Check(g, m.length >= len /\ g.reg[m.reg].size >= len, "mapping.cc:81"), LAMBDA x :
        Set(x, r, [m EXCEPT !.length = len, !.pages = pages_from_size(len)]))

\* The part behind the gap becomes a mapping of its own, of its old memory.
slice_center(g, r, off, len) ==
    LET m == Get(g, r)
        n == pages_from_size(len)
        rem == m.length - off - len
        asked == Check(Check(Check(g, ContainsHost(m, m.host + off + len), "heap.cc:390"),
                             off < m.length, "heap.cc:393"),
                       m.length <= g.reg[m.reg].size, "heap.cc:396")
    IN Then(Then(asked, LAMBDA w : unmap(w, r, m.addr + off, n)), LAMBDA x :
         IF n = m.pages THEN [x EXCEPT !.err = "reference"]
         ELSE Then(set_length(slice_region(x, m.reg, off, len), r, off), LAMBDA y :
                IF rem > 0
                THEN create_mapping(y, m.addr + off + len, rem, m.prot,
                                    find_region(y, m.host + off + len))
                ELSE y))

\* The region keeps the part that is no longer mapped.
slice_end(g, r, base) ==
    LET m == Get(g, r)
        n == pages_from_size(m.addr + m.length - base)
    IN Then(unmap(g, r, base, n), LAMBDA x :
         IF n = m.pages THEN [x EXCEPT !.err = "reference"]
         ELSE set_length(x, r, base - m.addr))

slice(g, r, base, len) ==
    LET m == Get(g, r) IN
    Then(Check(g, contains_address(m, base), "heap.cc:358"), LAMBDA x :
        IF base = m.addr THEN slice_begin(x, r, len)
        ELSE IF contains_address(m, base + len) THEN slice_center(x, r, base - m.addr, len)
        ELSE slice_end(x, r, base))

---------------------------------------------------------------------------
(* The system calls: the heap they leave and the guest's result.               *)

Done(g, v) == [heap |-> g, ret |-> v]

GetFixed_Bug(g, a, len, prot) ==
    LET over == First(g.mm, LAMBDA m : contains_address(m, a)) IN
    IF over # 0 /\ Get(g, Ref("mm", over)).length # len THEN slice(g, Ref("mm", over), a, len)
    ELSE IF over # 0 THEN g ELSE create_mapping(g, a, len, prot, 0)

\* get_mapping with MAP_FIXED.
GetFixed(g, a, len, prot) ==
    LET exact == First(g.mm, LAMBDA m : m.addr = a /\ m.length = len)
        over == First(g.mm, LAMBDA m : contains_address(m, a))
        r == Ref("mm", exact)
        \* modify
        again == Set(g, r, [Get(g, r) EXCEPT !.pages = pages_from_size(len), !.prot = prot])
    IN IF exact # 0
       THEN Then(map(again, r), LAMBDA x :
              Check(x, ~x.reg[Get(x, r).reg].free /\ find_region(x, Get(x, r).host) # 0,
                     "heap.cc:181"))
       ELSE IF over # 0
       THEN Then(slice(g, Ref("mm", over), a, len), LAMBDA x : create_mapping(x, a, len, prot, 0))
       ELSE create_mapping(g, a, len, prot, 0)

elkvm_do_mmap(g, a, len, prot) ==
    IF a # 0 THEN Done(GetFixed(g, a, pagesize_align(len), prot), a)
    ELSE LET x == create_mapping(g, 0, len, prot, 0) IN Done(x, x.reg[x.got].base)

HostOf(g, a) == IF PageOf(a) \in DOMAIN g.pt THEN P * g.pt[PageOf(a)] + (a % P) ELSE 0

elkvm_do_munmap(g, a, len) ==
    LET r == FindMappingOfHost(g, HostOf(g, a)) IN
    Done(Then(Check(g, r.idx # 0, "heap.cc:136"), LAMBDA x :
             unmap(x, r, a, pages_from_size(len))), 0)

\* slice_and_recreate for a part of a mapping.
elkvm_do_mprotect(g, a, len, prot) ==
    LET r == find_mapping(g, a) IN
    IF r.idx = 0 THEN Done(g, -22)
    ELSE Done(Then(Check(g, Get(g, r).length >= len, "syscalls-mprotect.cc:61"), LAMBDA x :
           IF Get(x, r).length = len
           THEN map(Set(x, r, [Get(x, r) EXCEPT !.prot = prot]), r)
           ELSE Then(slice(x, r, a, len), LAMBDA y : create_mapping(y, a, len, prot, 0))), 0)

\* create_resized_mapping: the new mapping is appended to the vector m is in.
create_resized_mapping(g, r, new) ==
    LET m == Get(g, r)
        x == create_mapping(g, 0, new, m.prot, 0)
        a == x.mm[Len(x.mm)].addr
    IN Done(Then(x, LAMBDA y : IF r.vec = "mm" /\ y.cap # g.cap
                               THEN [y EXCEPT !.err = "reference"]
                               ELSE unmap(y, r, m.addr, m.pages)), a)

\* remap, without MREMAP_FIXED.  A mapping that gets smaller is asked for its
\* address after unmap, which has erased it when no page was left.
remap(g, r, new) ==
    LET m == Get(g, r)
        n == pages_from_size(m.length - new)
    IN
    IF new < m.length
    THEN Done(Then(unmap(g, r, m.addr + new, n), LAMBDA x :
                     IF n = m.pages THEN [x EXCEPT !.err = "reference"] ELSE x), m.addr)
    ELSE IF fits_address(g, m, m.addr + new - 1)
    THEN Done(Set(g, r, [m EXCEPT !.length = new, !.pages = IF new = m.length THEN @
                                                           ELSE pages_from_size(new)]), m.addr)
    ELSE create_resized_mapping(g, r, new)

elkvm_do_mremap(g, a, new) ==
    LET r == FindMappingOfHost(g, HostOf(g, a)) IN
    IF r.idx = 0 THEN Done([g EXCEPT !.err = "heap.cc:136"], 0) ELSE remap(g, r, new)

LastBrk(g) == Ref("brk", Len(g.brk))

\* The loop ends at the front of the vector at the latest; back() of an empty
\* vector is the use of a reference to nothing.
free_unused_mappings(g, brk) ==
    Then(FoldLeft(LAMBDA x, i :
           IF x.err = "none" /\ x.brk # <<>> /\ brk <= Last(x.brk).addr
           THEN unmap(x, LastBrk(x), Last(x.brk).addr, Last(x.brk).pages) ELSE x, g, g.brk),
         LAMBDA y : Check(y, y.brk # <<>>, "reference"))

shrink(g, brk) ==
    Then(free_unused_mappings(g, brk), LAMBDA x :
      LET base == IF brk % P = 0 THEN brk ELSE next_page(brk)
          end == Last(x.brk).addr + Last(x.brk).length
      IN IF end = base THEN x
         ELSE Then(Check(x, end > base, "heap.cc:60"), LAMBDA y :
                slice(y, LastBrk(y), base, end - base)))

grow(g, brk) ==
    LET x == allocate_region(g, brk - g.curbrk)
        y == Construct(x, "brk", Mapping(x, x.got, g.curbrk, brk - g.curbrk, "rw"))
    IN Then(Check(g, brk > g.curbrk, "heap.cc:67"), LAMBDA w : map(y, LastBrk(y)))

\* grow_to_fill, then map.
FillRegion(g) ==
    LET m == Last(g.brk)
        full == [m EXCEPT !.addr = g.reg[m.reg].guest, !.length = g.reg[m.reg].size,
                          !.pages = pages_from_size(g.reg[m.reg].size)]
    IN map([Set(g, LastBrk(g), full) EXCEPT !.curbrk = full.addr + full.length], LastBrk(g))

GrowInPlace_Bug(g, brk) ==
    LET m == Last(g.brk) IN
    Set(g, LastBrk(g), [m EXCEPT !.length = @ + brk - g.curbrk,
                                 !.pages = pages_from_size(m.length + brk - g.curbrk)])

\* The mapping grows by the distance of the breaks, Mapping::grow up to the end
\* of its region.
GrowInPlace(g, brk) ==
    LET m == Last(g.brk)
        sz == m.length + brk - g.curbrk
        new == IF sz < g.reg[m.reg].size THEN sz ELSE g.reg[m.reg].size
        grown == Set(g, LastBrk(g), IF sz = m.length THEN m
                        ELSE [m EXCEPT !.length = new, !.pages = pages_from_size(new)])
    IN Then(Check(grown, sz = m.length \/ new = sz, "heap.cc:101"), LAMBDA x : map(x, LastBrk(x)))

\* HeapManager::brk; munmap may have left the break without a mapping.
SetBreak(g, brk) ==
    LET x == IF brk < g.curbrk THEN shrink(g, brk)
             ELSE IF g.brk = <<>> THEN [g EXCEPT !.err = "reference"]
             ELSE IF ~fits_address(g, Last(g.brk), brk - 1)
             THEN Then(FillRegion(g), LAMBDA y : grow(y, brk))
             ELSE GrowInPlace(g, brk)
    IN [x EXCEPT !.curbrk = brk]

elkvm_do_brk(g, brk) == Done(SetBreak(g, brk), brk)

---------------------------------------------------------------------------
(* The system.                                                                 *)

\* HeapManager::init: the data segment is the first mapping of the break.
Init ==
    /\ LET n == pagesize_align(DataSize) IN
       h = [reg |-> <<[base |-> P, size |-> n, guest |-> DataAddr, free |-> FALSE]>>,
            alloc |-> {1}, lists |-> <<>>, top |-> P + n, got |-> 1,
            brk |-> <<[host |-> P, addr |-> DataAddr, length |-> DataSize,
                       pages |-> pages_from_size(DataSize), prot |-> "rw", reg |-> 1]>>,
            mm |-> <<>>, cap |-> 0,
            pt |-> [q \in PageRun(DataAddr, pages_from_size(DataSize)) |->
                       1 + q - PageOf(DataAddr)],
            curbrk |-> next_page(DataAddr + DataSize), err |-> "none"]
    /\ call = [op |-> "none", addr |-> 0, len |-> 0, prot |-> "rw", ret |-> 0]
    /\ kinds = {} /\ calls = 0

\* Ranges the guest names: mapped memory, and for MAP_FIXED any memory at the
\* addresses it likes.
Ranges == {x \in {P * q : q \in DOMAIN h.pt} \X Lengths :
             PageRun(x[1], pages_from_size(x[2])) \subseteq DOMAIN h.pt}

\* The kind of a call tells apart the ranges that are neither part of one
\* mapping nor clear of all, the breaks that are not at a page, and the ranges in
\* the data segment or above it, where the break is or may get to.
InOneMapping(a, len) == \E m \in ToSet(h.mm) :
    contains_address(m, a) /\ contains_address(m, a + len - 1)
Clear(a, len) == \A m \in ToSet(h.mm) : m.addr + m.length <= a \/ a + len <= m.addr
KindOf(op, a, len) ==
    IF op = "mmap" THEN op
    ELSE IF op = "brk" THEN IF a % P = 0 THEN op ELSE "brk_unaligned"
    ELSE IF a + pagesize_align(len) > DataAddr THEN "at_break"
    ELSE IF op = "mprotect" /\ len % P # 0 THEN "mprotect_unaligned"
    ELSE IF InOneMapping(a, len) \/ Clear(a, len) THEN op ELSE "span"

Made(op, a, len, prot, d) ==
    /\ h' = d.heap /\ kinds' = kinds \cup {KindOf(op, a, len)}
    /\ call' = [op |-> op, addr |-> a, len |-> len, prot |-> prot, ret |-> d.ret]

SystemCall ==
    \/ \E len \in Lengths, prot \in Prots :
         Made("mmap", 0, len, prot, elkvm_do_mmap(h, 0, len, prot))
    \/ \E a \in Fixed, len \in Lengths, prot \in Prots :
         Made("mmap_fixed", a, len, prot, elkvm_do_mmap(h, a, len, prot))
    \/ \E x \in Ranges : Made("munmap", x[1], x[2], "rw", elkvm_do_munmap(h, x[1], x[2]))
    \/ \E x \in Ranges, prot \in Prots :
         Made("mprotect", x[1], x[2], prot, elkvm_do_mprotect(h, x[1], x[2], prot))
    \/ \E x \in Ranges, new \in Lengths : Made("mremap", x[1], new, "rw", elkvm_do_mremap(h, x[1], new))
    \/ \E brk \in Breaks : Made("brk", brk, 0, "rw", elkvm_do_brk(h, brk))

Next ==
    \/ h.err = "none" /\ calls < MaxCalls /\ calls' = calls + 1 /\ SystemCall
    \/ (h.err # "none" \/ calls = MaxCalls) /\ UNCHANGED vars

Spec == Init /\ [][Next]_vars

---------------------------------------------------------------------------
(* The memory of the heap and the guest's program.                             *)

\* A mapping for which the guest names no address has that of its memory, and
\* nothing keeps this apart from the data segment but where the host has memory
\* to give.  Here that is below the segment: the chunks of all calls end before it.
Covers(n) == ChunkSize <= n /\ \A len \in Lengths : pagesize_align(len) <= n
RoomBelowData ==
    \E n \in {ChunkSize} \cup {pagesize_align(len) : len \in Lengths} :
        Covers(n) /\ P + pagesize_align(DataSize) + MaxCalls * n <= DataAddr

---------------------------------------------------------------------------
(* Properties.                                                                 *)

\* The mixes of system calls the heap is made for: mmap with munmap, mmap with
\* MAP_FIXED and mprotect, or mmap with breaks at pages; no range of pages that
\* lies partly in a mapping, and whole pages for mprotect.
Orderly == \/ kinds \subseteq {"mmap", "munmap"}
           \/ kinds \subseteq {"mmap", "mmap_fixed", "mprotect"}
           \/ kinds \subseteq {"mmap", "brk"}

\* For these mixes, in whatever order and however mappings are split, no
\* assertion of the heap, of a mapping or of a region fails and no reference to
\* a mapping is used after the mapping was erased or moved by its vector.
AssertionsHold == Orderly => h.err = "none"

\* Only brk itself was about memory where the break is or may get to.  Other calls
\* find the copies of the break's mappings that map leaves in the vector for mmap
\* (heap.cc:253): a fixed mapping cuts the region of the break itself, or takes a
\* region into use that shrinking the break has put into a free list.
AwayFromBreak == "at_break" \notin kinds

\* For every sequence of calls that leaves the memory of the break to brk: memory
\* the guest can reach belongs to an allocated region and to one page of the guest
\* only, and lies in no free list.  What was given back is not mapped, what is
\* mapped is not handed out again.
MappedIsAllocated ==
    h.err = "none" /\ AwayFromBreak => \A q \in DOMAIN h.pt :
        /\ find_region(h, P * h.pt[q]) # 0
        /\ \A k \in DOMAIN h.lists : ~RegionContains(h, h.lists[k], P * h.pt[q])
        /\ \A q2 \in DOMAIN h.pt : h.pt[q] = h.pt[q2] => q = q2

\* For every sequence of calls that leaves the memory of the break to brk, which
\* goes up and down by any distance, to pages or not: all memory from the data
\* segment to the break is mapped, and no mapping of the break goes on above the
\* break's page.
BreakMapped ==
    h.err = "none" /\ AwayFromBreak =>
        /\ \A q \in PageOf(DataAddr) .. PageOf(h.curbrk - 1) : q \in DOMAIN h.pt
        /\ \A m \in ToSet(h.brk) : m.addr + m.length <= pagesize_align(h.curbrk)

\* In the same mixes a call that succeeds has mapped, or unmapped, the whole
\* range it was given.
CallServed ==
    h.err = "none" /\ Orderly =>
      /\ call.op \in {"mmap", "mmap_fixed"} /\ call.prot # "none" =>
            PageRun(call.ret, pages_from_size(call.len)) \subseteq DOMAIN h.pt
      /\ call.op = "munmap" =>
            PageRun(call.addr, pages_from_size(call.len)) \cap DOMAIN h.pt = {}

\* The pages a call is about.
Touched ==
    IF call'.op = "brk" THEN {q \in DOMAIN h.pt : P * q >= call'.addr}
    ELSE PageRun(call'.addr, pages_from_size(call'.len))

\* In the same mixes a call leaves alone the translation of every page outside
\* the range it is about, whatever mapping it has to split for that.
OthersUntouched ==
    [][h'.err = "none" /\ Orderly' => \A q \in DOMAIN h.pt \ Touched :
          q \in DOMAIN h'.pt /\ h'.pt[q] = h.pt[q]]_vars
================================================================================
