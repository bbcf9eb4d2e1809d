------------------------ MODULE RegionManagerPoolProofs ------------------------
(***************************************************************************)
(* More about RegionManager for every page size, number of free lists,     *)
(* chunk size, request and slice: no memory is lost, the assertions that   *)
(* allocate_region makes about its own work hold, bindings are stable,     *)
(* regions are whole pages where they are cut at pages, and the allocator  *)
(* implements MemoryPool.                                                  *)
(*                                                                         *)
(* All of it follows from what a step can be: it leaves the regions alone, *)
(* binds one, hands out a free one, possibly of a new chunk, or cuts one   *)
(* into pieces that stay in use and a gap that becomes free (StepKinds).   *)
(***************************************************************************)
EXTENDS RegionManagerProofs

USE PageAssumption, ListAssumption, SizeAssumption
--------------------------------------------------------------------------------
(***************************************************************************)
(* Free lists: what adding and erasing an entry leaves in the lists.       *)
(***************************************************************************)
\* Every entry stays where it is when one is added, and the new one is there.
LEMMA AddFreeKeeps ==
    ASSUME NEW fl \in FreeLists, NEW r \in Region
    PROVE  /\ \A i \in Lists : \A p \in 1..Len(fl[i]) :
                  /\ p \in 1..Len(add_free_region(fl, r)[i])
                  /\ add_free_region(fl, r)[i][p] = fl[i][p]
           /\ \E i \in Lists : \E p \in 1..Len(add_free_region(fl, r)[i]) :
                  /\ i = get_freelist_idx(r.size)
                  /\ add_free_region(fl, r)[i][p] = r
<1> DEFINE x == get_freelist_idx(r.size)
<1>1. x \in Lists
  BY IdxInLists DEF Region
<1> HIDE DEF x
<1>2. add_free_region(fl, r) = [fl EXCEPT ![x] = Append(fl[x], r)]
  BY DEF add_free_region, x
<1>3. \A i \in Lists : fl[i] \in Seq(Region)
  BY DEF FreeLists
<1>4. /\ add_free_region(fl, r)[x] = Append(fl[x], r)
      /\ \A i \in Lists : i # x => add_free_region(fl, r)[i] = fl[i]
  BY <1>1, <1>2 DEF FreeLists
<1>5. /\ Len(Append(fl[x], r)) = Len(fl[x]) + 1
      /\ Append(fl[x], r)[Len(fl[x]) + 1] = r
      /\ Len(fl[x]) \in Nat
      /\ \A p \in 1..Len(fl[x]) : Append(fl[x], r)[p] = fl[x][p]
  BY <1>1, <1>3
<1>6. \A i \in Lists : \A p \in 1..Len(fl[i]) :
          /\ p \in 1..Len(add_free_region(fl, r)[i])
          /\ add_free_region(fl, r)[i][p] = fl[i][p]
  <2> SUFFICES ASSUME NEW i \in Lists, NEW p \in 1..Len(fl[i])
               PROVE  /\ p \in 1..Len(add_free_region(fl, r)[i])
                      /\ add_free_region(fl, r)[i][p] = fl[i][p]
    OBVIOUS
  <2>1. CASE i = x
    BY <2>1, <1>4, <1>5
  <2>2. CASE i # x
    BY <2>2, <1>4
  <2> QED
    BY <2>1, <2>2
<1>7. /\ Len(fl[x]) + 1 \in 1..Len(add_free_region(fl, r)[x])
      /\ add_free_region(fl, r)[x][Len(fl[x]) + 1] = r
  BY <1>4, <1>5
<1> QED
  BY <1>1, <1>6, <1>7 DEF x

\* Every entry but the erased one is still in its list.
LEMMA EraseKeeps ==
    ASSUME NEW fl \in FreeLists, NEW i \in Lists, NEW p \in 1..Len(fl[i])
    PROVE  \A j \in Lists : \A q \in 1..Len(fl[j]) :
               \/ j = i /\ q = p
               \/ \E k \in 1..Len(erase(fl, i, p)[j]) : erase(fl, i, p)[j][k] = fl[j][q]
<1>1. fl[i] \in Seq(Region) /\ Len(fl[i]) \in Nat
  BY DEF FreeLists
<1> DEFINE t == RemoveAt(fl[i], p)
<1>2. /\ Len(t) = Len(fl[i]) - 1
      /\ \A k \in 1..(Len(fl[i]) - 1) : t[k] = IF k < p THEN fl[i][k] ELSE fl[i][k + 1]
  BY <1>1, RemoveAtFacts
<1>3. erase(fl, i, p) = [fl EXCEPT ![i] = t]
  BY DEF erase
<1> HIDE DEF t
<1>4. /\ erase(fl, i, p)[i] = t
      /\ \A j \in Lists : j # i => erase(fl, i, p)[j] = fl[j]
  BY <1>3 DEF FreeLists
<1> SUFFICES ASSUME NEW j \in Lists, NEW q \in 1..Len(fl[j]), ~(j = i /\ q = p)
             PROVE  \E k \in 1..Len(erase(fl, i, p)[j]) : erase(fl, i, p)[j][k] = fl[j][q]
  OBVIOUS
<1>5. CASE j # i
  BY <1>4, <1>5
<1>6. CASE j = i /\ q < p
  <2>1. q \in 1..Len(t) /\ t[q] = fl[i][q]
    BY <1>1, <1>2, <1>6
  <2> QED
    BY <1>4, <1>6, <2>1
<1>7. CASE j = i /\ q > p
  <2>1. q - 1 \in 1..(Len(fl[i]) - 1) /\ ~(q - 1 < p) /\ (q - 1) + 1 = q
    BY <1>1, <1>7
  <2>2. q - 1 \in 1..Len(t) /\ t[q - 1] = fl[i][q]
    BY <1>2, <2>1
  <2> QED
    BY <1>4, <1>7, <2>2
<1> QED
  BY <1>5, <1>6, <1>7
--------------------------------------------------------------------------------
(***************************************************************************)
(* Pages.                                                                  *)
(***************************************************************************)
\* r is whole pages.
OnPages(r) == r.base % PageSize = 0 /\ r.size % PageSize = 0

\* Regions are only sliced at page boundaries.
PageCuts == \A c \in Cuts : c % PageSize = 0

\* Adding a multiple of the page size does not change the place in a page.
LEMMA PageSums ==
    ASSUME NEW m \in Nat, NEW n \in Nat, m % PageSize = 0
    PROVE  (m + n) % PageSize = n % PageSize
<1> DEFINE a == m \div PageSize
<1> DEFINE b == n \div PageSize
<1> DEFINE c == (m + n) \div PageSize
<1>1. a \in Nat /\ b \in Nat /\ c \in Nat
  OBVIOUS
<1>2. m = PageSize * a
  OBVIOUS
<1>3. n = PageSize * b + (n % PageSize) /\ n % PageSize \in 0..(PageSize - 1)
  OBVIOUS
<1>4. m + n = PageSize * c + ((m + n) % PageSize) /\ (m + n) % PageSize \in 0..(PageSize - 1)
  OBVIOUS
<1> HIDE DEF a, b, c
<1> DEFINE d == (a + b) - c
<1>5. d \in Int /\ PageSize * d = ((m + n) % PageSize) - (n % PageSize)
  BY <1>1, <1>2, <1>3, <1>4
<1> HIDE DEF d
<1>6. PageSize * d < PageSize /\ PageSize * d > -PageSize
  BY <1>3, <1>4, <1>5
<1>7. d = 0
  BY <1>5, <1>6
<1> QED
  BY <1>3, <1>4, <1>5, <1>7

\* pagesize_align makes whole pages.
LEMMA AlignPages ==
    ASSUME NEW n \in Nat
    PROVE  pagesize_align(n) % PageSize = 0
<1>1. CASE n % PageSize = 0
  BY <1>1 DEF pagesize_align
<1>2. CASE n % PageSize # 0
  <2> DEFINE q == n \div PageSize
  <2>1. q \in Nat /\ n = PageSize * q + (n % PageSize)
    OBVIOUS
  <2>2. pagesize_align(n) = PageSize * q + PageSize
    BY <2>1, <1>2 DEF pagesize_align
  <2> HIDE DEF q
  <2>3. PageSize * q + PageSize = PageSize * (q + 1)
    BY <2>1
  <2>4. (PageSize * (q + 1)) % PageSize = 0
    BY <2>1
  <2> QED
    BY <2>2, <2>3, <2>4
<1> QED
  BY <1>1, <1>2

\* Cutting whole pages at a page boundary leaves whole pages on both sides.
LEMMA CutPages ==
    ASSUME NEW r \in Region, OnPages(r), NEW n \in Nat, n % PageSize = 0, n <= r.size
    PROVE  (r.base + n) % PageSize = 0 /\ (r.size - n) % PageSize = 0
<1>1. r.base \in Nat /\ r.size - n \in Nat /\ r.size \in Nat /\ n + (r.size - n) = r.size
  BY DEF Region
<1>2. (r.base + n) % PageSize = n % PageSize
  BY <1>1, PageSums DEF OnPages
<1>3. (n + (r.size - n)) % PageSize = (r.size - n) % PageSize
  BY <1>1, PageSums
<1> QED
  BY <1>1, <1>2, <1>3 DEF OnPages
--------------------------------------------------------------------------------
(***************************************************************************)
(* What a step can be.                                                     *)
(***************************************************************************)
\* The lists and chunks allocate_region takes a region from: as they are, or
\* with a new chunk.
Offers(fl, cs) ==
    \/ fl = freelists /\ cs = chunks
    \/ \E b \in HostBases, n \in {GrowSize(s) : s \in Sizes \cup {PagerMem}} :
           /\ ~InUse(b, n)
           /\ fl = add_free_region(freelists, [base |-> b, size |-> n, addr |-> 0])
           /\ cs = Append(chunks, [base |-> b, size |-> n])

\* allocate_region succeeds.
Takes ==
    \E fl, cs : \E i \in Lists : \E p \in 1..Len(fl[i]), size \in Sizes \cup {PagerMem} :
        /\ Offers(fl, cs)
        /\ HandOutFault(fl[i][p], size) = "none"
        /\ HandOut(fl, i, p, size)
        /\ chunks' = cs

\* e keeps the binding of r and is not empty.
PieceOf(e, r) == Inside(e, r) /\ e.size > 0 /\ e.addr - e.base = r.addr - r.base

\* r is cut into pieces and a gap.
IsCut(r, pieces, gap) ==
    /\ \A e \in pieces : PieceOf(e, r) /\ Disjoint(e, gap)
    /\ \A e, f \in pieces : e = f \/ Disjoint(e, f)
    /\ Inside(gap, r)
    /\ r.size > 0 => gap.size > 0
    /\ PageCuts /\ OnPages(r) => OnPages(gap) /\ \A e \in pieces : OnPages(e)
    /\ \A b \in Nat : contains_address(r, b) =>
           contains_address(gap, b) \/ \E e \in pieces : contains_address(e, b)

\* free_region and the slices.
Gives ==
    \E r \in allocated, pieces \in SUBSET Region, gap \in Region :
        /\ IsCut(r, pieces, gap)
        /\ allocated' = (allocated \ {r}) \cup pieces
        /\ freelists' = add_free_region(freelists, gap)
        /\ chunks' = chunks

Binds ==
    /\ \E r \in allocated, a \in GuestAddrs :
           r.addr = 0 /\ allocated' = (allocated \ {r}) \cup {set_guest_addr(r, a)}
    /\ UNCHANGED <<freelists, chunks>>

Rests == UNCHANGED <<allocated, freelists, chunks>>

\* What allocate_region does with the lists fl is to hand out a region that is
\* large enough, or to abort because of an empty request.
LEMMA TakeKinds ==
    ASSUME NEW fl \in FreeLists, NEW size \in Nat, TakeFirstFit(fl, size)
    PROVE  \/ /\ fault' = fault
              /\ \E i \in Lists : \E p \in 1..Len(fl[i]) :
                     HandOutFault(fl[i][p], size) = "none" /\ HandOut(fl, i, p, size)
           \/ fault' = "empty_slice" /\ UNCHANGED <<allocated, freelists>>
<1>1. PICK i \in Lists : \E p \in 1..Len(fl[i]) :
          /\ IsFirstFit(fl, size, i, p)
          /\ IF HandOutFault(fl[i][p], size) = "none"
             THEN HandOut(fl, i, p, size) /\ UNCHANGED fault
             ELSE Abort(HandOutFault(fl[i][p], size))
  BY DEF TakeFirstFit
<1>2. PICK p \in 1..Len(fl[i]) :
          /\ IsFirstFit(fl, size, i, p)
          /\ IF HandOutFault(fl[i][p], size) = "none"
             THEN HandOut(fl, i, p, size) /\ UNCHANGED fault
             ELSE Abort(HandOutFault(fl[i][p], size))
  BY <1>1
<1>3. fl[i][p] \in Region /\ fl[i][p].size >= size
  BY <1>2 DEF IsFirstFit, FreeLists
<1>4. HandOutFault(fl[i][p], size) \in {"none", "empty_slice"}
  BY <1>3 DEF HandOutFault, Region
<1> QED
  BY <1>2, <1>4 DEF Abort

\* A new chunk is large enough for the request it was made for, and it is in a
\* list that find_free_region looks at: the search that follows finds a region.
LEMMA GrowFits ==
    ASSUME NEW fl \in FreeLists, NEW size \in Nat, NEW base \in Nat
    PROVE  ~NoFit(add_free_region(fl, [base |-> base, size |-> GrowSize(size), addr |-> 0]), size)
<1> DEFINE r == [base |-> base, size |-> GrowSize(size), addr |-> 0]
<1>1. GrowSize(size) \in Nat /\ size <= GrowSize(size)
  BY AlignFacts DEF GrowSize
<1>2. r \in Region /\ r.size = GrowSize(size)
  BY <1>1 DEF Region
<1> HIDE DEF r
<1>3. PICK i \in Lists : \E p \in 1..Len(add_free_region(fl, r)[i]) :
          i = get_freelist_idx(r.size) /\ add_free_region(fl, r)[i][p] = r
  BY <1>2, AddFreeKeeps
<1>4. PICK p \in 1..Len(add_free_region(fl, r)[i]) : add_free_region(fl, r)[i][p] = r
  BY <1>3
<1>5. i >= get_freelist_idx(size)
  <2>1. get_freelist_idx(size) <= get_freelist_idx(r.size)
    BY <1>1, <1>2, IdxMonotonic
  <2>2. get_freelist_idx(size) \in Lists
    BY IdxInLists
  <2> QED
    BY <1>3, <2>1, <2>2 DEF Lists
<1>6. ~(r.size < size)
  BY <1>1, <1>2
<1>7. ~NoFit(add_free_region(fl, r), size)
  BY <1>4, <1>5, <1>6 DEF NoFit
<1> QED
  BY <1>7 DEF r

\* The same for allocate_region when it adds a chunk.
LEMMA GrowKinds ==
    ASSUME freelists \in FreeLists, fault = "none",
           NEW size \in Sizes \cup {PagerMem}, NEW base \in HostBases, GrowAndTake(size, base)
    PROVE  \/ Takes /\ fault' = fault
           \/ Rests /\ fault' = "empty_slice"
<1> DEFINE n == GrowSize(size)
<1> DEFINE r == [base |-> base, size |-> n, addr |-> 0]
<1> DEFINE fl == add_free_region(freelists, r)
<1> DEFINE cs == Append(chunks, [base |-> base, size |-> n])
<1>0. size \in Nat /\ base \in Nat
  OBVIOUS
<1>1. r \in Region
  BY <1>0, AlignFacts DEF GrowSize, Region
<1>2. fl \in FreeLists
  BY <1>1, AddFreeEntries
<1>3. ~NoFit(fl, size)
  BY <1>0, GrowFits
<1>4. /\ ~InUse(base, n)
      /\ TakeFirstFit(fl, size)
      /\ chunks' = IF fault' = "none" THEN cs ELSE chunks
  BY <1>3 DEF GrowAndTake
<1>5. Offers(fl, cs)
  BY <1>4 DEF Offers
<1> HIDE DEF fl, cs, n
<1>6. CASE /\ fault' = fault
           /\ \E i \in Lists : \E p \in 1..Len(fl[i]) :
                  HandOutFault(fl[i][p], size) = "none" /\ HandOut(fl, i, p, size)
  BY <1>4, <1>5, <1>6 DEF Takes
<1>7. CASE fault' = "empty_slice" /\ UNCHANGED <<allocated, freelists>>
  BY <1>4, <1>7 DEF Rests
<1> QED
  BY <1>0, <1>2, <1>4, <1>6, <1>7, TakeKinds

\* Freeing a region leaves no piece.
LEMMA FreeCut ==
    ASSUME NEW r \in Region
    PROVE  set_free(r) \in Region /\ IsCut(r, {}, set_free(r))
  BY DEF set_free, Region, IsCut, Inside, contains_address, OnPages

\* slice_begin: the front is the gap, the rest keeps its binding.
LEMMA FrontCut ==
    ASSUME NEW r \in Region, r.addr # 0, NEW off \in Nat, 0 < off, pagesize_align(off) < r.size
    PROVE  LET cut == slice_begin(r, off)
           IN cut.front \in Region /\ cut.rest \in Region /\ IsCut(r, {cut.rest}, cut.front)
<1> DEFINE n == pagesize_align(off)
<1> DEFINE front == [base |-> r.base, size |-> n, addr |-> 0]
<1> DEFINE rest == [base |-> r.base + n, size |-> r.size - n, addr |-> r.addr + n]
<1>1. n \in Nat /\ n > 0 /\ n < r.size
  BY AlignFacts
<1>2. slice_begin(r, off).front = front /\ slice_begin(r, off).rest = rest
  BY DEF slice_begin
<1> HIDE DEF n
<1>3. front \in Region /\ rest \in Region
  BY <1>1 DEF Region
<1>4. PieceOf(rest, r) /\ Disjoint(rest, front) /\ Inside(front, r) /\ front.size > 0
  BY <1>1 DEF Region, PieceOf, Inside, Disjoint
<1>5. \A b \in Nat : contains_address(r, b) => contains_address(front, b) \/ contains_address(rest, b)
  BY <1>1 DEF Region, contains_address
<1>p. OnPages(r) => OnPages(front) /\ OnPages(rest)
  <2>1. n % PageSize = 0
    BY AlignPages DEF n
  <2>2. OnPages(r) => (r.base + n) % PageSize = 0 /\ (r.size - n) % PageSize = 0
    BY <1>1, <2>1, CutPages DEF Region
  <2> QED
    BY <2>1, <2>2 DEF OnPages
<1> HIDE DEF front, rest
<1>6. IsCut(r, {rest}, front)
  BY <1>4, <1>5, <1>p DEF IsCut
<1> QED
  BY <1>2, <1>3, <1>6

\* slice_center: head and tail keep their bindings.
LEMMA CenterCut ==
    ASSUME NEW r \in Region, NEW off \in Cuts, NEW len \in Cuts,
           0 < off, 0 < len, off + len < r.size
    PROVE  LET cut  == slice_center(r, off, len)
               tail == set_guest_addr(cut.tail, r.addr + off + len)
           IN /\ cut.head \in Region /\ tail \in Region /\ cut.gap \in Region
              /\ IsCut(r, {cut.head, tail}, cut.gap)
<1> DEFINE head == [base |-> r.base, size |-> off, addr |-> r.addr]
<1> DEFINE tail == [base |-> r.base + off + len, size |-> r.size - off - len,
                    addr |-> r.addr + off + len]
<1> DEFINE gap == [base |-> r.base + off, size |-> len, addr |-> 0]
<1>1. /\ slice_center(r, off, len).head = head
      /\ slice_center(r, off, len).gap = gap
      /\ set_guest_addr(slice_center(r, off, len).tail, r.addr + off + len) = tail
  BY DEF slice_center, set_guest_addr
<1>2. head \in Region /\ tail \in Region /\ gap \in Region
  BY DEF Region
<1>3. /\ PieceOf(head, r) /\ PieceOf(tail, r) /\ Inside(gap, r) /\ gap.size > 0
      /\ Disjoint(head, gap) /\ Disjoint(tail, gap)
      /\ Disjoint(head, tail) /\ Disjoint(tail, head)
  BY DEF Region, PieceOf, Inside, Disjoint
<1>4. \A b \in Nat : contains_address(r, b) =>
          contains_address(gap, b) \/ contains_address(head, b) \/ contains_address(tail, b)
  BY DEF Region, contains_address
<1>p. PageCuts /\ OnPages(r) => OnPages(head) /\ OnPages(tail) /\ OnPages(gap)
  <2> SUFFICES ASSUME PageCuts, OnPages(r) PROVE OnPages(head) /\ OnPages(tail) /\ OnPages(gap)
    OBVIOUS
  <2>1. off \in Nat /\ len \in Nat /\ off % PageSize = 0 /\ len % PageSize = 0
    BY DEF PageCuts
  <2>2. off + len \in Nat /\ (off + len) % PageSize = 0 /\ off <= r.size /\ off + len <= r.size
    <3>1. (off + len) % PageSize = len % PageSize
      BY <2>1, PageSums
    <3> QED
      BY <2>1, <3>1 DEF Region
  <2>3. (r.base + off) % PageSize = 0
    BY <2>1, <2>2, CutPages
  <2>4. (r.base + (off + len)) % PageSize = 0 /\ (r.size - (off + len)) % PageSize = 0
    BY <2>2, CutPages
  <2>5. r.base + (off + len) = r.base + off + len /\ r.size - (off + len) = r.size - off - len
    BY <2>1 DEF Region
  <2> QED
    BY <2>1, <2>3, <2>4, <2>5 DEF OnPages
<1> HIDE DEF head, tail, gap
<1>5. IsCut(r, {head, tail}, gap)
  BY <1>3, <1>4, <1>p DEF IsCut
<1> QED
  BY <1>1, <1>2, <1>5

\* The faults that are not the fault of allocate_region.
OtherFaults == Faults \ {"no_region_after_chunk", "short_region"}

\* Every step is of one of the four kinds, and allocate_region never fails an
\* assertion about its own work.
LEMMA StepKinds ==
    ASSUME IInv, [Next]_vars
    PROVE  /\ Takes \/ Gives \/ Binds \/ Rests
           /\ fault' = fault \/ fault' \in OtherFaults
<1> DEFINE Kind == /\ Takes \/ Gives \/ Binds \/ Rests
                   /\ fault' = fault \/ fault' \in OtherFaults
<1>r. allocated \subseteq Region /\ freelists \in FreeLists
  BY DEF IInv, Good
<1>1. ASSUME NEW b \in HostBases, Construct(b) PROVE Kind
  BY <1>1, <1>r, GrowKinds DEF Construct, Running, OtherFaults, Faults
<1>2. ASSUME NEW s \in Sizes, AllocateFree(s) PROVE Kind
  <2>1. s \in Nat /\ s \in Sizes \cup {PagerMem}
    OBVIOUS
  <2>2. TakeFirstFit(freelists, s) /\ chunks' = chunks
    BY <1>2 DEF AllocateFree
  <2>3. Offers(freelists, chunks)
    BY DEF Offers
  <2>4. CASE /\ fault' = fault
             /\ \E i \in Lists : \E p \in 1..Len(freelists[i]) :
                    HandOutFault(freelists[i][p], s) = "none" /\ HandOut(freelists, i, p, s)
    BY <2>1, <2>2, <2>3, <2>4 DEF Takes
  <2>5. CASE fault' = "empty_slice" /\ UNCHANGED <<allocated, freelists>>
    BY <2>2, <2>5 DEF Rests, OtherFaults, Faults
  <2> QED
    BY <2>1, <2>2, <2>4, <2>5, <1>r, TakeKinds
<1>3. ASSUME NEW s \in Sizes, AllocateFail(s) PROVE Kind
  BY <1>3 DEF AllocateFail, Abort, Rests, OtherFaults, Faults
<1>4. ASSUME NEW s \in Sizes, NEW b \in HostBases, AllocateGrow(s, b) PROVE Kind
  BY <1>4, <1>r, GrowKinds DEF AllocateGrow, Ready, Running, OtherFaults, Faults
<1>5. ASSUME NEW r \in allocated, NEW a \in GuestAddrs, Bind(r, a) PROVE Kind
  BY <1>5 DEF Bind, Binds
<1>6. ASSUME NEW r \in allocated, free_region(r) PROVE Kind
  <2>1. /\ allocated' = (allocated \ {r}) \cup {} /\ chunks' = chunks /\ fault' = fault
        /\ freelists' = add_free_region(freelists, set_free(r))
    BY <1>6 DEF free_region
  <2>2. set_free(r) \in Region /\ IsCut(r, {}, set_free(r)) /\ {} \in SUBSET Region
    BY <1>r, FreeCut
  <2>3. Gives
    BY <2>1, <2>2 DEF Gives
  <2> QED
    BY <2>1, <2>3
<1>7. ASSUME NEW p, NEW s, free_region_at(p, s) PROVE Kind
  <2>1. CASE \E r \in allocated : contains_address(r, p) /\ r.size = s /\ free_region(r)
    BY <2>1, <1>6
  <2>2. CASE Abort("bad_free") /\ UNCHANGED <<chunks, sys>>
    BY <2>2 DEF Abort, Rests, OtherFaults, Faults
  <2> QED
    BY <2>1, <2>2, <1>7 DEF free_region_at
<1>8. ASSUME NEW r \in allocated, NEW off \in Cuts, SliceFront(r, off) PROVE Kind
  <2> DEFINE cut == slice_begin(r, off)
  <2>1. CASE pagesize_align(off) < r.size
    <3>1. r \in Region /\ r.addr # 0 /\ off \in Nat /\ 0 < off
      BY <1>8, <1>r DEF SliceFront
    <3>2. cut.front \in Region /\ cut.rest \in Region /\ IsCut(r, {cut.rest}, cut.front)
      BY <2>1, <3>1, FrontCut
    <3>3. /\ allocated' = (allocated \ {r}) \cup {cut.rest} /\ chunks' = chunks /\ fault' = fault
          /\ freelists' = add_free_region(freelists, cut.front)
      BY <1>8, <2>1 DEF SliceFront
    <3> HIDE DEF cut
    <3>4. Gives
      BY <3>2, <3>3 DEF Gives
    <3> QED
      BY <3>3, <3>4
  <2>2. CASE ~(pagesize_align(off) < r.size)
    BY <1>8, <2>2 DEF SliceFront, Abort, Rests, OtherFaults, Faults
  <2> QED
    BY <2>1, <2>2
<1>9. ASSUME NEW r \in allocated, NEW off \in Cuts, NEW len \in Cuts, SliceCenter(r, off, len)
      PROVE  Kind
  <2> DEFINE cut == slice_center(r, off, len)
  <2> DEFINE tail == set_guest_addr(cut.tail, r.addr + off + len)
  <2>1. r \in Region /\ off \in Nat /\ len \in Nat /\ 0 < off /\ 0 < len /\ off + len < r.size
    BY <1>9, <1>r DEF SliceCenter
  <2>2. /\ cut.head \in Region /\ tail \in Region /\ cut.gap \in Region
        /\ IsCut(r, {cut.head, tail}, cut.gap)
    BY <2>1, CenterCut
  <2>3. /\ allocated' = (allocated \ {r}) \cup {cut.head, tail}
        /\ freelists' = add_free_region(freelists, cut.gap)
        /\ chunks' = chunks /\ fault' = fault
    BY <1>9 DEF SliceCenter
  <2> HIDE DEF cut, tail
  <2>4. Gives
    BY <2>2, <2>3 DEF Gives
  <2> QED
    BY <2>3, <2>4
<1>10. CASE UNCHANGED vars
  BY <1>10 DEF vars, Rests
<1> QED
  BY <1>1, <1>2, <1>3, <1>4, <1>5, <1>6, <1>7, <1>8, <1>9, <1>10 DEF Next, Halted

--------------------------------------------------------------------------------
(***************************************************************************)
(* The parts of a successful allocation.                                   *)
(***************************************************************************)
\* r is cut into new, which is whole pages, and a rest.
IsSplit(r, new, rest) ==
    /\ new.base = r.base /\ rest.base = r.base + new.size
    /\ new.size + rest.size = r.size
    /\ new.size > 0 /\ rest.size > 0
    /\ new.size % PageSize = 0

\* allocate_region takes entry p of list i of fl: all of it, or its front.
HandsOut(fl, i, p, new) ==
    /\ allocated' = allocated \cup {new}
    /\ \/ new = fl[i][p] /\ freelists' = erase(fl, i, p)
       \/ \E rest \in Region :
              /\ IsSplit(fl[i][p], new, rest)
              /\ freelists' = add_free_region(erase(fl, i, p), rest)

\* What is offered is as good as what is there.
LEMMA OffersGood ==
    ASSUME Good(allocated, freelists, chunks), NEW fl, NEW cs, Offers(fl, cs)
    PROVE  Good(allocated, fl, cs)
<1>1. CASE fl = freelists /\ cs = chunks
  BY <1>1
<1>2. ASSUME NEW b \in HostBases, NEW n \in {GrowSize(s) : s \in Sizes \cup {PagerMem}},
             ~InUse(b, n),
             fl = add_free_region(freelists, [base |-> b, size |-> n, addr |-> 0]),
             cs = Append(chunks, [base |-> b, size |-> n])
      PROVE  Good(allocated, fl, cs)
  <2>1. n \in Nat /\ b \in Nat
    BY AlignFacts DEF GrowSize
  <2> QED
    BY <1>2, <2>1, ChunkKeepsGood
<1> QED
  BY <1>1, <1>2 DEF Offers

\* Allocation takes a free region whole, or cuts whole pages off its front.
LEMMA TakeParts ==
    ASSUME Good(allocated, freelists, chunks), Takes
    PROVE  \E fl, cs : \E i \in Lists : \E p \in 1..Len(fl[i]), new \in Region :
               /\ Offers(fl, cs) /\ Good(allocated, fl, cs) /\ chunks' = cs
               /\ HandsOut(fl, i, p, new)
<1>1. PICK fl, cs : \E i \in Lists : \E p \in 1..Len(fl[i]), size \in Sizes \cup {PagerMem} :
          /\ Offers(fl, cs)
          /\ HandOutFault(fl[i][p], size) = "none"
          /\ HandOut(fl, i, p, size)
          /\ chunks' = cs
  BY DEF Takes
<1>2. PICK i \in Lists : \E p \in 1..Len(fl[i]), size \in Sizes \cup {PagerMem} :
          /\ Offers(fl, cs)
          /\ HandOutFault(fl[i][p], size) = "none"
          /\ HandOut(fl, i, p, size)
          /\ chunks' = cs
  BY <1>1
<1>3. PICK p \in 1..Len(fl[i]), size \in Sizes \cup {PagerMem} :
          /\ Offers(fl, cs)
          /\ HandOutFault(fl[i][p], size) = "none"
          /\ HandOut(fl, i, p, size)
          /\ chunks' = cs
  BY <1>2
<1>4. Good(allocated, fl, cs) /\ size \in Nat
  BY <1>3, OffersGood
<1> DEFINE r == fl[i][p]
<1> DEFINE n == pagesize_align(size)
<1>5. r \in Region /\ n \in Nat /\ n % PageSize = 0
  <2>1. r \in Region
    BY <1>4 DEF Good, FreeLists
  <2>2. n \in Nat /\ n % PageSize = 0
    BY <1>4, AlignFacts, AlignPages
  <2> QED
    BY <2>1, <2>2
<1>6. CASE r.size > n
  <2> DEFINE new == slice_begin(r, size).front
  <2> DEFINE rest == slice_begin(r, size).rest
  <2>1. freelists' = add_free_region(erase(fl, i, p), rest) /\ allocated' = allocated \cup {new}
    BY <1>3, <1>6 DEF HandOut, erase
  <2>2. size # 0
    BY <1>3, <1>6 DEF HandOutFault
  <2>3. n > 0
    BY <2>2, <1>4, AlignFacts
  <2>4. new.base = r.base /\ new.size = n /\ rest.base = r.base + n /\ rest.size = r.size - n
    BY DEF slice_begin
  <2>5. new \in Region /\ rest \in Region
    BY <1>4, <1>5, <1>6, SliceBeginFacts
  <2> HIDE DEF new, rest, n
  <2>6. IsSplit(r, new, rest)
    BY <1>5, <1>6, <2>3, <2>4 DEF IsSplit, Region
  <2> HIDE DEF r
  <2>7. HandsOut(fl, i, p, new)
    BY <2>1, <2>5, <2>6 DEF HandsOut, r
  <2> QED
    BY <1>3, <1>4, <2>5, <2>7
<1>7. CASE ~(r.size > n)
  <2>1. freelists' = erase(fl, i, p) /\ allocated' = allocated \cup {r}
    BY <1>3, <1>7 DEF HandOut, erase
  <2>2. HandsOut(fl, i, p, r)
    BY <2>1 DEF HandsOut
  <2> QED
    BY <1>3, <1>4, <1>5, <2>2
<1> QED
  BY <1>6, <1>7

\* What is handed out was free: nobody in use has a byte of it, and it is
\* memory of a chunk.
LEMMA HandsOutFree ==
    ASSUME NEW fl, NEW cs, Good(allocated, fl, cs), NEW i \in Lists, NEW p \in 1..Len(fl[i]),
           NEW new \in Region, HandsOut(fl, i, p, new)
    PROVE  /\ \A x \in allocated : Disjoint(x, new) /\ Disjoint(new, x)
           /\ Owned(new, cs)
<1> DEFINE r == fl[i][p]
<1>1. r \in Region /\ Owned(r, cs) /\ \A x \in allocated : Disjoint(x, r)
  BY ErasePreserves DEF Good
<1>2. Inside(new, r)
  <2>1. /\ r.base \in Nat /\ r.size \in Nat
        /\ new.base \in Nat /\ new.size \in Nat
    BY <1>1 DEF Region
  <2>2. CASE new = r
    BY <2>1, <2>2 DEF Inside
  <2>3. ASSUME NEW rest \in Region, IsSplit(r, new, rest)
        PROVE  Inside(new, r)
    <3>1. rest.size \in Nat /\ new.base = r.base /\ new.size + rest.size = r.size
      BY <2>3 DEF IsSplit, Region
    <3> HIDE DEF r
    <3> QED
      BY <2>1, <3>1 DEF Inside
  <2> QED
    BY <2>2, <2>3 DEF HandsOut
<1>3. cs \in Seq(Chunk) /\ allocated \subseteq Region /\ fl \in FreeLists
  BY DEF Good
<1> HIDE DEF r
<1>4. /\ \A s \in Region : Disjoint(r, s) => Disjoint(new, s) /\ Disjoint(s, new)
      /\ Owned(new, cs)
  BY <1>1, <1>2, <1>3, PieceFacts
<1>5. \A x \in allocated : Disjoint(r, x)
  BY <1>1, <1>3 DEF Disjoint
<1> QED
  BY <1>3, <1>4, <1>5
--------------------------------------------------------------------------------
(***************************************************************************)
(* Assertions.                                                             *)
(***************************************************************************)
\* "should have free region after allocation" and "size <= r->size()" never
\* fail in allocate_region, whatever is requested and however memory was cut.
THEOREM AllocateAssertionsTheorem == Spec => []AllocateAssertionsHold
<1>1. Init => AllocateAssertionsHold
  BY DEF Init, AllocateAssertionsHold
<1>2. AllocateAssertionsHold /\ IInv /\ [Next]_vars => AllocateAssertionsHold'
  BY StepKinds DEF AllocateAssertionsHold, OtherFaults
<1> QED
  BY <1>1, <1>2, Inductive, PTL DEF Spec

--------------------------------------------------------------------------------
(***************************************************************************)
(* The free regions as a set.                                              *)
(***************************************************************************)
Listed(fl) == UNION {ToSet(fl[i]) : i \in Lists}

\* A free region is an entry of a list.
LEMMA ListedEntries ==
    ASSUME NEW fl \in FreeLists
    PROVE  /\ Listed(fl) \subseteq Region
           /\ \A x : x \in Listed(fl) <=> \E i \in Lists : \E p \in 1..Len(fl[i]) : fl[i][p] = x
<1>1. \A i \in Lists : fl[i] \in Seq(Region) /\ DOMAIN fl[i] = 1..Len(fl[i])
  BY DEF FreeLists
<1>2. \A x : x \in Listed(fl) <=> \E i \in Lists : \E p \in 1..Len(fl[i]) : fl[i][p] = x
  BY <1>1 DEF Listed, ToSet
<1>3. \A i \in Lists : \A p \in 1..Len(fl[i]) : fl[i][p] \in Region
  BY <1>1
<1> QED
  BY <1>2, <1>3

\* add_free_region adds one free region.
LEMMA ListedAdd ==
    ASSUME NEW fl \in FreeLists, NEW r \in Region
    PROVE  Listed(add_free_region(fl, r)) = Listed(fl) \cup {r}
<1> DEFINE new == add_free_region(fl, r)
<1>1. new \in FreeLists
  BY AddFreeEntries
<1>2. \A x : x \in Listed(new) <=> \E i \in Lists : \E p \in 1..Len(new[i]) : new[i][p] = x
  BY <1>1, ListedEntries
<1>3. \A x : x \in Listed(fl) <=> \E i \in Lists : \E p \in 1..Len(fl[i]) : fl[i][p] = x
  BY ListedEntries
<1>4. \A i \in Lists : \A p \in 1..Len(new[i]) :
          \/ p \in 1..Len(fl[i]) /\ new[i][p] = fl[i][p]
          \/ i = get_freelist_idx(r.size) /\ p = Len(fl[i]) + 1 /\ new[i][p] = r
  BY AddFreeEntries
<1>5. /\ \A i \in Lists : \A p \in 1..Len(fl[i]) : p \in 1..Len(new[i]) /\ new[i][p] = fl[i][p]
      /\ \E i \in Lists : \E p \in 1..Len(new[i]) : new[i][p] = r
  BY AddFreeKeeps
<1> HIDE DEF new
<1>6. ASSUME NEW x \in Listed(new)
      PROVE  x \in Listed(fl) \cup {r}
  <2>1. PICK j \in Lists : \E q \in 1..Len(new[j]) : new[j][q] = x
    BY <1>2
  <2>2. PICK q \in 1..Len(new[j]) : new[j][q] = x
    BY <2>1
  <2>3. (q \in 1..Len(fl[j]) /\ fl[j][q] = x) \/ x = r
    BY <2>2, <1>4
  <2> QED
    BY <2>3, <1>3
<1>7. ASSUME NEW x \in Listed(fl)
      PROVE  x \in Listed(new)
  <2>1. PICK j \in Lists : \E q \in 1..Len(fl[j]) : fl[j][q] = x
    BY <1>3
  <2>2. PICK q \in 1..Len(fl[j]) : fl[j][q] = x
    BY <2>1
  <2>3. q \in 1..Len(new[j]) /\ new[j][q] = x
    BY <2>2, <1>5
  <2> QED
    BY <2>3, <1>2
<1>8. r \in Listed(new)
  BY <1>2, <1>5
<1> QED
  BY <1>6, <1>7, <1>8 DEF new

\* Erasing an entry removes its region and no other.
LEMMA ListedErase ==
    ASSUME NEW fl \in FreeLists, NEW i \in Lists, NEW p \in 1..Len(fl[i])
    PROVE  /\ fl[i][p] \in Listed(fl)
           /\ Listed(erase(fl, i, p)) \subseteq Listed(fl)
           /\ Listed(fl) \subseteq Listed(erase(fl, i, p)) \cup {fl[i][p]}
<1> DEFINE new == erase(fl, i, p)
<1> DEFINE was(j, q) == IF j = i /\ q >= p THEN q + 1 ELSE q
<1>1. new \in FreeLists
  BY EraseEntries
<1>2. \A x : x \in Listed(new) <=> \E j \in Lists : \E q \in 1..Len(new[j]) : new[j][q] = x
  BY <1>1, ListedEntries
<1>3. \A x : x \in Listed(fl) <=> \E j \in Lists : \E q \in 1..Len(fl[j]) : fl[j][q] = x
  BY ListedEntries
<1>4. \A j \in Lists : \A q \in 1..Len(new[j]) :
          was(j, q) \in 1..Len(fl[j]) /\ new[j][q] = fl[j][was(j, q)]
  BY EraseEntries
<1>5. \A j \in Lists : \A q \in 1..Len(fl[j]) :
          (j = i /\ q = p) \/ \E k \in 1..Len(new[j]) : new[j][k] = fl[j][q]
  BY EraseKeeps
<1> HIDE DEF new, was
<1>6. fl[i][p] \in Listed(fl)
  BY <1>3
<1>7. ASSUME NEW x \in Listed(new)
      PROVE  x \in Listed(fl)
  <2>1. PICK j \in Lists : \E q \in 1..Len(new[j]) : new[j][q] = x
    BY <1>2
  <2>2. PICK q \in 1..Len(new[j]) : new[j][q] = x
    BY <2>1
  <2>3. was(j, q) \in 1..Len(fl[j]) /\ fl[j][was(j, q)] = x
    BY <2>2, <1>4
  <2> QED
    BY <2>3, <1>3
<1>8. ASSUME NEW x \in Listed(fl)
      PROVE  x \in Listed(new) \cup {fl[i][p]}
  <2>1. PICK j \in Lists : \E q \in 1..Len(fl[j]) : fl[j][q] = x
    BY <1>3
  <2>2. PICK q \in 1..Len(fl[j]) : fl[j][q] = x
    BY <2>1
  <2>3. x = fl[i][p] \/ \E k \in 1..Len(new[j]) : new[j][k] = x
    BY <2>2, <1>5
  <2> QED
    BY <2>3, <1>2
<1> QED
  BY <1>6, <1>7, <1>8 DEF new

\* What allocation may take from: the free regions and perhaps one that is a
\* whole new chunk.
LEMMA OffersListed ==
    ASSUME Good(allocated, freelists, chunks), NEW fl, NEW cs, Offers(fl, cs)
    PROVE  \/ Listed(fl) = Listed(freelists) /\ cs = chunks
           \/ \E b \in HostBases, n \in {GrowSize(s) : s \in Sizes \cup {PagerMem}} :
                  /\ Listed(fl) = Listed(freelists) \cup {[base |-> b, size |-> n, addr |-> 0]}
                  /\ cs = Append(chunks, [base |-> b, size |-> n])
<1>1. CASE fl = freelists /\ cs = chunks
  BY <1>1
<1>2. ASSUME NEW b \in HostBases, NEW n \in {GrowSize(s) : s \in Sizes \cup {PagerMem}},
             fl = add_free_region(freelists, [base |-> b, size |-> n, addr |-> 0]),
             cs = Append(chunks, [base |-> b, size |-> n])
      PROVE  /\ Listed(fl) = Listed(freelists) \cup {[base |-> b, size |-> n, addr |-> 0]}
             /\ cs = Append(chunks, [base |-> b, size |-> n])
  <2>1. n \in Nat /\ b \in Nat
    BY AlignFacts DEF GrowSize
  <2>2. [base |-> b, size |-> n, addr |-> 0] \in Region
    BY <2>1 DEF Region
  <2> QED
    BY <1>2, <2>2, ListedAdd DEF Good
<1> QED
  BY <1>1, <1>2 DEF Offers

\* new is a region of the free ones, or the front of one, and every other free
\* region stays.
DrawnFrom(free, new) ==
    \E r \in free :
        \/ /\ new = r
           /\ Listed(freelists') \subseteq free
           /\ free \subseteq Listed(freelists') \cup {r}
        \/ \E rest \in Region :
               /\ IsSplit(r, new, rest)
               /\ Listed(freelists') \subseteq free \cup {rest}
               /\ free \cup {rest} \subseteq Listed(freelists') \cup {r}

\* What a successful allocation does to the sets of regions.
LEMMA HandsOutListed ==
    ASSUME NEW fl, NEW cs, Good(allocated, fl, cs), NEW i \in Lists, NEW p \in 1..Len(fl[i]),
           NEW new \in Region, HandsOut(fl, i, p, new)
    PROVE  DrawnFrom(Listed(fl), new)
<1> DEFINE r == fl[i][p]
<1> DEFINE fl2 == erase(fl, i, p)
<1>1. fl \in FreeLists /\ fl2 \in FreeLists
  BY EraseEntries DEF Good
<1>2. r \in Listed(fl) /\ Listed(fl2) \subseteq Listed(fl) /\ Listed(fl) \subseteq Listed(fl2) \cup {r}
  BY <1>1, ListedErase
<1>3. \A rest \in Region : Listed(add_free_region(fl2, rest)) = Listed(fl2) \cup {rest}
  BY <1>1, ListedAdd
<1>4. \/ new = r /\ freelists' = fl2
      \/ \E rest \in Region : IsSplit(r, new, rest) /\ freelists' = add_free_region(fl2, rest)
  BY DEF HandsOut
<1> HIDE DEF r, fl2
<1>5. CASE new = r /\ freelists' = fl2
  BY <1>2, <1>5 DEF DrawnFrom
<1>6. ASSUME NEW rest \in Region, IsSplit(r, new, rest), freelists' = add_free_region(fl2, rest)
      PROVE  DrawnFrom(Listed(fl), new)
  BY <1>2, <1>3, <1>6 DEF DrawnFrom
<1> QED
  BY <1>4, <1>5, <1>6

\* The same with the lists and chunks left to be found.
LEMMA TakeSets ==
    ASSUME Good(allocated, freelists, chunks), Takes
    PROVE  \E fl \in FreeLists, cs \in Seq(Chunk), new \in Region :
               /\ Offers(fl, cs) /\ chunks' = cs
               /\ allocated' = allocated \cup {new}
               /\ \A x \in allocated : Disjoint(x, new) /\ Disjoint(new, x)
               /\ Owned(new, cs)
               /\ DrawnFrom(Listed(fl), new)
<1>1. ASSUME NEW fl, NEW cs, NEW i \in Lists, NEW p \in 1..Len(fl[i]), NEW new \in Region,
             Offers(fl, cs), Good(allocated, fl, cs), chunks' = cs, HandsOut(fl, i, p, new)
      PROVE  /\ fl \in FreeLists /\ cs \in Seq(Chunk)
             /\ allocated' = allocated \cup {new}
             /\ \A x \in allocated : Disjoint(x, new) /\ Disjoint(new, x)
             /\ Owned(new, cs)
             /\ DrawnFrom(Listed(fl), new)
  <2>1. fl \in FreeLists /\ cs \in Seq(Chunk) /\ allocated' = allocated \cup {new}
    BY <1>1 DEF Good, HandsOut
  <2>2. (\A x \in allocated : Disjoint(x, new) /\ Disjoint(new, x)) /\ Owned(new, cs)
    BY <1>1, HandsOutFree
  <2>3. DrawnFrom(Listed(fl), new)
    BY <1>1, HandsOutListed
  <2> QED
    BY <2>1, <2>2, <2>3
<1> QED
  BY <1>1, TakeParts

--------------------------------------------------------------------------------
(***************************************************************************)
(* No memory is lost.                                                      *)
(***************************************************************************)
\* Byte b belongs to a region in use or to a free one.
Kept(b, al, free) == \E r \in al \cup free : contains_address(r, b)

AllKept(al, free, cs) ==
    \A k \in 1..Len(cs) : \A b \in cs[k].base..(cs[k].base + cs[k].size - 1) : Kept(b, al, free)

\* What is offered is still all of the memory.
LEMMA OffersKept ==
    ASSUME Good(allocated, freelists, chunks), NEW fl, NEW cs, Offers(fl, cs),
           AllKept(allocated, Listed(freelists), chunks)
    PROVE  AllKept(allocated, Listed(fl), cs)
<1>1. CASE Listed(fl) = Listed(freelists) /\ cs = chunks
  BY <1>1
<1>2. ASSUME NEW b \in HostBases, NEW n \in {GrowSize(s) : s \in Sizes \cup {PagerMem}},
             Listed(fl) = Listed(freelists) \cup {[base |-> b, size |-> n, addr |-> 0]},
             cs = Append(chunks, [base |-> b, size |-> n])
      PROVE  AllKept(allocated, Listed(fl), cs)
  <2>1. n \in Nat /\ b \in Nat
    BY AlignFacts DEF GrowSize
  <2>2. chunks \in Seq(Chunk) /\ [base |-> b, size |-> n] \in Chunk
    BY <2>1 DEF Good, Chunk
  <2>3. \A k \in 1..Len(cs) : \/ k \in 1..Len(chunks) /\ cs[k] = chunks[k]
                              \/ cs[k] = [base |-> b, size |-> n]
    BY <1>2, <2>2
  <2> SUFFICES ASSUME NEW k \in 1..Len(cs), NEW c \in cs[k].base..(cs[k].base + cs[k].size - 1)
               PROVE  Kept(c, allocated, Listed(fl))
    BY DEF AllKept
  <2>4. CASE k \in 1..Len(chunks) /\ cs[k] = chunks[k]
    BY <1>2, <2>4 DEF AllKept, Kept
  <2>5. CASE cs[k] = [base |-> b, size |-> n]
    <3>1. contains_address([base |-> b, size |-> n, addr |-> 0], c)
      BY <2>1, <2>5 DEF contains_address
    <3> QED
      BY <1>2, <3>1 DEF Kept
  <2> QED
    BY <2>3, <2>4, <2>5
<1>3. \/ Listed(fl) = Listed(freelists) /\ cs = chunks
      \/ \E b \in HostBases, n \in {GrowSize(s) : s \in Sizes \cup {PagerMem}} :
             /\ Listed(fl) = Listed(freelists) \cup {[base |-> b, size |-> n, addr |-> 0]}
             /\ cs = Append(chunks, [base |-> b, size |-> n])
  BY OffersListed
<1> QED
  BY <1>1, <1>2, <1>3

\* A step keeps every byte of every chunk in a region.
LEMMA StepKept ==
    ASSUME IInv, AllKept(allocated, Listed(freelists), chunks), [Next]_vars
    PROVE  AllKept(allocated', Listed(freelists'), chunks')
<1>0. /\ Good(allocated, freelists, chunks) /\ allocated \subseteq Region
      /\ freelists \in FreeLists /\ chunks \in Seq(Chunk)
  BY DEF IInv, Good
<1>n. \A cs \in Seq(Chunk) : \A k \in 1..Len(cs) :
          cs[k].base..(cs[k].base + cs[k].size - 1) \subseteq Nat
  <2> SUFFICES ASSUME NEW cs \in Seq(Chunk), NEW k \in 1..Len(cs)
               PROVE  cs[k].base..(cs[k].base + cs[k].size - 1) \subseteq Nat
    OBVIOUS
  <2>1. cs[k] \in Chunk
    OBVIOUS
  <2> QED
    BY <2>1 DEF Chunk
<1>1. CASE Takes
  <2>1. PICK fl \in FreeLists, cs \in Seq(Chunk), new \in Region :
            /\ Offers(fl, cs) /\ chunks' = cs
            /\ allocated' = allocated \cup {new}
            /\ DrawnFrom(Listed(fl), new)
    BY <1>0, <1>1, TakeSets
  <2>2. AllKept(allocated, Listed(fl), cs)
    BY <1>0, <2>1, OffersKept
  <2>3. Listed(fl) \subseteq Region
    BY ListedEntries
  <2>5. ASSUME NEW b \in Nat, Kept(b, allocated, Listed(fl))
        PROVE  Kept(b, allocated', Listed(freelists'))
    <3>1. PICK x \in allocated \cup Listed(fl) : contains_address(x, b)
      BY <2>5 DEF Kept
    <3>2. PICK r \in Listed(fl) :
              \/ /\ new = r
                 /\ Listed(fl) \subseteq Listed(freelists') \cup {r}
              \/ \E rest \in Region :
                     /\ IsSplit(r, new, rest)
                     /\ Listed(fl) \cup {rest} \subseteq Listed(freelists') \cup {r}
      BY <2>1 DEF DrawnFrom
    <3>3. CASE x # r \/ new = r
      BY <2>1, <3>1, <3>2, <3>3 DEF Kept
    <3>4. ASSUME x = r, NEW rest \in Region, IsSplit(r, new, rest),
                 Listed(fl) \cup {rest} \subseteq Listed(freelists') \cup {r}
          PROVE  Kept(b, allocated', Listed(freelists'))
      <4>1. contains_address(new, b) \/ contains_address(rest, b)
        BY <2>3, <3>1, <3>4 DEF IsSplit, Region, contains_address
      <4>2. rest # r
        BY <2>3, <3>4 DEF IsSplit, Region
      <4> QED
        BY <2>1, <3>4, <4>1, <4>2 DEF Kept
    <3> QED
      BY <3>2, <3>3, <3>4
  <2> QED
    BY <1>n, <2>1, <2>2, <2>5 DEF AllKept
<1>2. CASE Gives
  <2>1. PICK r \in allocated, pieces \in SUBSET Region, gap \in Region :
            /\ IsCut(r, pieces, gap)
            /\ allocated' = (allocated \ {r}) \cup pieces
            /\ freelists' = add_free_region(freelists, gap)
            /\ chunks' = chunks
    BY <1>2 DEF Gives
  <2>2. Listed(freelists') = Listed(freelists) \cup {gap}
    BY <1>0, <2>1, ListedAdd
  <2>3. \A b \in Nat : contains_address(r, b) =>
            contains_address(gap, b) \/ \E e \in pieces : contains_address(e, b)
    BY <2>1 DEF IsCut
  <2>4. \A b \in Nat : Kept(b, allocated, Listed(freelists)) =>
                           Kept(b, allocated', Listed(freelists'))
    BY <2>1, <2>2, <2>3 DEF Kept
  <2> QED
    BY <1>0, <1>n, <2>1, <2>4 DEF AllKept
<1>3. CASE Binds
  <2>1. PICK r \in allocated, a \in GuestAddrs :
            allocated' = (allocated \ {r}) \cup {set_guest_addr(r, a)}
    BY <1>3 DEF Binds
  <2>2. freelists' = freelists /\ chunks' = chunks
    BY <1>3 DEF Binds
  <2>3. \A b : contains_address(r, b) => contains_address(set_guest_addr(r, a), b)
    BY DEF contains_address, set_guest_addr
  <2>4. \A b : Kept(b, allocated, Listed(freelists)) => Kept(b, allocated', Listed(freelists'))
    BY <2>1, <2>2, <2>3 DEF Kept
  <2> QED
    BY <2>2, <2>4 DEF AllKept
<1>4. CASE Rests
  BY <1>4 DEF Rests
<1> QED
  BY <1>1, <1>2, <1>3, <1>4, StepKinds

\* After any history of allocations, slices and frees every unit of every chunk
\* belongs to a region in use or to a free region.
THEOREM NoLeakTheorem == Spec => []NoLeak
<1> DEFINE Kpt == AllKept(allocated, Listed(freelists), chunks)
<1>1. Init => Kpt
  BY DEF Init, AllKept
<1>2. Kpt /\ IInv /\ [Next]_vars => Kpt'
  BY StepKept
<1>3. IInv /\ Kpt => NoLeak
  <2> SUFFICES ASSUME IInv, Kpt, NEW k \in 1..Len(chunks),
                      NEW b \in chunks[k].base..(chunks[k].base + chunks[k].size - 1)
               PROVE  \/ \E r \in allocated : contains_address(r, b)
                      \/ \E i \in Lists : \E p \in 1..Len(freelists[i]) :
                             contains_address(freelists[i][p], b)
    BY DEF NoLeak
  <2>1. PICK r \in allocated \cup Listed(freelists) : contains_address(r, b)
    BY DEF AllKept, Kept
  <2>2. r \in Listed(freelists) => \E i \in Lists : \E p \in 1..Len(freelists[i]) : freelists[i][p] = r
    BY ListedEntries DEF IInv, Good
  <2> QED
    BY <2>1, <2>2
<1> HIDE DEF Kpt
<1> QED
  BY <1>1, <1>2, <1>3, Inductive, PTL DEF Spec

--------------------------------------------------------------------------------
(***************************************************************************)
(* Bindings.                                                               *)
(***************************************************************************)
\* A step changes the guest address of no unit that stays in use and bound.
LEMMA StepBindings ==
    ASSUME IInv, [Next]_vars, NEW r \in allocated, NEW s \in allocated',
           r.addr # 0, ~Disjoint(r, s)
    PROVE  s.addr - s.base = r.addr - r.base
<1>0. /\ Good(allocated, freelists, chunks) /\ allocated \subseteq Region
      /\ \A x, y \in allocated : x = y \/ Disjoint(x, y)
      /\ freelists \in FreeLists /\ chunks \in Seq(Chunk)
  BY DEF IInv, Good
<1>1. CASE s \in allocated
  BY <1>0, <1>1
<1>2. CASE s \notin allocated /\ Takes
  BY <1>0, <1>2, TakeSets
<1>3. CASE s \notin allocated /\ Gives
  <2>1. PICK x \in allocated, pieces \in SUBSET Region :
            /\ \A e \in pieces : PieceOf(e, x)
            /\ allocated' = (allocated \ {x}) \cup pieces
    BY <1>3 DEF Gives, IsCut
  <2>2. s \in Region /\ PieceOf(s, x)
    BY <1>3, <2>1
  <2>3. CASE r = x
    BY <2>2, <2>3 DEF PieceOf
  <2>4. CASE r # x
    <3>1. Disjoint(x, r) /\ x \in Region /\ r \in Region
      BY <1>0, <2>4
    <3> QED
      BY <2>2, <3>1 DEF PieceOf, Inside, Disjoint, Region
  <2> QED
    BY <2>3, <2>4
<1>4. CASE s \notin allocated /\ Binds
  <2>1. PICK x \in allocated, a \in GuestAddrs :
            x.addr = 0 /\ allocated' = (allocated \ {x}) \cup {set_guest_addr(x, a)}
    BY <1>4 DEF Binds
  <2>2. s = set_guest_addr(x, a) /\ r # x
    BY <1>4, <2>1
  <2>3. Disjoint(r, x)
    BY <1>0, <2>2
  <2> QED
    BY <2>2, <2>3 DEF set_guest_addr, Disjoint
<1>5. CASE s \notin allocated /\ Rests
  BY <1>5 DEF Rests
<1> QED
  BY <1>1, <1>2, <1>3, <1>4, <1>5, StepKinds

\* Whatever is sliced, freed or allocated, memory that stays in use keeps the
\* guest address it is bound to.
THEOREM BindingStableTheorem == Spec => BindingStable
<1>1. IInv /\ [Next]_vars =>
          [\A r \in allocated, s \in allocated' :
               (r.addr # 0 /\ ~Disjoint(r, s)) => s.addr - s.base = r.addr - r.base]_vars
  BY StepBindings
<1> QED
  BY <1>1, Inductive, PTL DEF Spec, BindingStable
--------------------------------------------------------------------------------
(***************************************************************************)
(* No region is empty.                                                     *)
(***************************************************************************)
NonEmpty == \A r \in allocated \cup Listed(freelists) : r.size > 0

\* A chunk is not empty, and no cut leaves an empty part.
LEMMA StepNonEmpty ==
    ASSUME IInv, NonEmpty, [Next]_vars
    PROVE  NonEmpty'
<1>0. /\ Good(allocated, freelists, chunks) /\ allocated \subseteq Region
      /\ freelists \in FreeLists /\ chunks \in Seq(Chunk)
  BY DEF IInv, Good
<1>1. CASE Takes
  <2>1. PICK fl \in FreeLists, cs \in Seq(Chunk), new \in Region :
            /\ Offers(fl, cs)
            /\ allocated' = allocated \cup {new}
            /\ DrawnFrom(Listed(fl), new)
    BY <1>0, <1>1, TakeSets
  <2>2. \A r \in Listed(fl) : r.size > 0
    <3>1. CASE Listed(fl) = Listed(freelists)
      BY <3>1 DEF NonEmpty
    <3>2. ASSUME NEW b \in HostBases, NEW n \in {GrowSize(s) : s \in Sizes \cup {PagerMem}},
                 Listed(fl) = Listed(freelists) \cup {[base |-> b, size |-> n, addr |-> 0]}
          PROVE  \A r \in Listed(fl) : r.size > 0
      <4>1. PICK s \in Sizes \cup {PagerMem} : n = GrowSize(s)
        OBVIOUS
      <4>2. s \in Nat /\ pagesize_align(s) \in Nat /\ s <= pagesize_align(s)
        BY AlignFacts
      <4>3. n > 0
        BY <4>1, <4>2 DEF GrowSize
      <4> QED
        BY <3>2, <4>3 DEF NonEmpty
    <3>3. \/ Listed(fl) = Listed(freelists)
          \/ \E b \in HostBases, n \in {GrowSize(s) : s \in Sizes \cup {PagerMem}} :
                 Listed(fl) = Listed(freelists) \cup {[base |-> b, size |-> n, addr |-> 0]}
      BY <1>0, <2>1, OffersListed
    <3> QED
      BY <3>1, <3>2, <3>3
  <2>3. new.size > 0 /\ \A r \in Listed(freelists') : r.size > 0
    BY <2>1, <2>2 DEF DrawnFrom, IsSplit
  <2> QED
    BY <2>1, <2>3 DEF NonEmpty
<1>2. CASE Gives
  <2>1. PICK r \in allocated, pieces \in SUBSET Region, gap \in Region :
            /\ IsCut(r, pieces, gap)
            /\ allocated' = (allocated \ {r}) \cup pieces
            /\ freelists' = add_free_region(freelists, gap)
    BY <1>2 DEF Gives
  <2>2. Listed(freelists') = Listed(freelists) \cup {gap}
    BY <1>0, <2>1, ListedAdd
  <2>3. gap.size > 0 /\ \A e \in pieces : e.size > 0
    BY <2>1 DEF IsCut, PieceOf, NonEmpty
  <2> QED
    BY <2>1, <2>2, <2>3 DEF NonEmpty
<1>3. CASE Binds
  BY <1>3 DEF Binds, NonEmpty, set_guest_addr
<1>4. CASE Rests
  BY <1>4 DEF Rests, NonEmpty
<1> QED
  BY <1>1, <1>2, <1>3, <1>4, StepKinds

\* The allocator never hands out or files an empty region.
THEOREM NonEmptyTheorem == Spec => []NonEmpty
<1>1. Init => NonEmpty
  BY ListedEntries DEF Init, NonEmpty, Listed, ToSet, FreeLists
<1>2. NonEmpty /\ IInv /\ [Next]_vars => NonEmpty'
  BY StepNonEmpty
<1> QED
  BY <1>1, <1>2, Inductive, PTL DEF Spec

--------------------------------------------------------------------------------
(***************************************************************************)
(* RegionManager implements MemoryPool.                                    *)
(***************************************************************************)
Ext(r) == [base |-> r.base, size |-> r.size]

Held(al) == {Ext(r) : r \in al}

PoolOf(cs) == UNION {cs[k].base..(cs[k].base + cs[k].size - 1) : k \in 1..Len(cs)}

\* An interval between the ends of another is part of it.
LEMMA IntervalWithin ==
    ASSUME NEW a \in Nat, NEW n \in Nat, NEW c \in Nat, NEW m \in Nat,
           c <= a, a + n <= c + m
    PROVE  \A b \in a..(a + n - 1) : b \in c..(c + m - 1)
OBVIOUS

\* An extent handed out is memory of the chunks that nobody holds.
LEMMA TakeAcquires ==
    ASSUME Good(allocated, freelists, chunks), NonEmpty', Takes
    PROVE  \E e \in Held(allocated') :
               /\ PoolOf(chunks) \subseteq PoolOf(chunks')
               /\ e.size > 0
               /\ \A b \in e.base..(e.base + e.size - 1) : b \in PoolOf(chunks')
               /\ \A f \in Held(allocated) :
                      e.base + e.size <= f.base \/ f.base + f.size <= e.base
               /\ Held(allocated') = Held(allocated) \cup {e}
<1>1. PICK fl \in FreeLists, cs \in Seq(Chunk), new \in Region :
          /\ Offers(fl, cs) /\ chunks' = cs
          /\ allocated' = allocated \cup {new}
          /\ \A x \in allocated : Disjoint(x, new) /\ Disjoint(new, x)
          /\ Owned(new, cs)
  BY TakeSets
<1> DEFINE e == Ext(new)
<1>2. e \in Held(allocated') /\ Held(allocated') = Held(allocated) \cup {e}
  BY <1>1 DEF Held
<1>3. e.base = new.base /\ e.size = new.size /\ e.size > 0
  BY <1>1 DEF Ext, NonEmpty
<1>4. \A f \in Held(allocated) : e.base + e.size <= f.base \/ f.base + f.size <= e.base
  BY <1>1 DEF Held, Ext, Disjoint
<1> HIDE DEF e
<1>5. PoolOf(chunks) \subseteq PoolOf(cs)
  <2>1. CASE cs = chunks
    BY <2>1
  <2>2. ASSUME NEW c, cs = Append(chunks, c)
        PROVE  PoolOf(chunks) \subseteq PoolOf(cs)
    <3>1. chunks \in Seq(Chunk)
      BY DEF Good
    <3>2. \A k \in 1..Len(chunks) : k \in 1..Len(cs) /\ cs[k] = chunks[k]
      BY <2>2, <3>1
    <3> QED
      BY <3>2 DEF PoolOf
  <2> QED
    BY <1>1, <2>1, <2>2 DEF Offers
<1>6. \A b \in e.base..(e.base + e.size - 1) : b \in PoolOf(cs)
  <2>1. PICK k \in 1..Len(cs) : Inside(new, cs[k])
    BY <1>1 DEF Owned
  <2>2. cs[k] \in Chunk
    OBVIOUS
  <2> DEFINE c == cs[k]
  <2>3. /\ c.base \in Nat /\ c.size \in Nat
        /\ c.base <= new.base /\ new.base + new.size <= c.base + c.size
    BY <2>1, <2>2 DEF Inside, Chunk
  <2>4. new.base \in Nat /\ new.size \in Nat
    BY DEF Region
  <2> HIDE DEF c
  <2>5. \A b \in new.base..(new.base + new.size - 1) : b \in c.base..(c.base + c.size - 1)
    BY <2>3, <2>4, IntervalWithin
  <2>6. \A b \in e.base..(e.base + e.size - 1) : b \in cs[k].base..(cs[k].base + cs[k].size - 1)
    BY <1>3, <2>5 DEF c
  <2> QED
    BY <2>6 DEF PoolOf
<1> QED
  BY <1>1, <1>2, <1>3, <1>4, <1>5, <1>6

\* Freeing and slicing replace an extent by disjoint pieces of itself.
LEMMA GiveShrinks ==
    ASSUME Good(allocated, freelists, chunks), NonEmpty, Gives
    PROVE  \E e \in Held(allocated) : LET pieces == Held(allocated') \ Held(allocated) IN
               /\ \A p \in pieces : /\ p.size > 0
                                    /\ e.base <= p.base
                                    /\ p.base + p.size <= e.base + e.size
               /\ \A p, q \in pieces :
                      p = q \/ p.base + p.size <= q.base \/ q.base + q.size <= p.base
               /\ Held(allocated') = (Held(allocated) \ {e}) \cup pieces
<1>1. PICK r \in allocated, pieces \in SUBSET Region, gap \in Region :
          /\ IsCut(r, pieces, gap)
          /\ allocated' = (allocated \ {r}) \cup pieces
  BY DEF Gives
<1> DEFINE e == Ext(r)
<1> DEFINE P == Held(allocated') \ Held(allocated)
<1>2. allocated \subseteq Region /\ \A x, y \in allocated : x = y \/ Disjoint(x, y)
  BY DEF Good
<1>3. e \in Held(allocated) /\ e.base = r.base /\ e.size = r.size
  BY DEF Held, Ext
<1>4. \A p \in P : \E x \in pieces : p = Ext(x)
  BY <1>1 DEF Held
<1>5. \A x \in pieces : /\ Ext(x).size > 0 /\ e.base <= Ext(x).base
                        /\ Ext(x).base + Ext(x).size <= e.base + e.size
  BY <1>1 DEF IsCut, PieceOf, Inside, Ext
<1>6. \A x, y \in pieces : \/ x = y
                           \/ Ext(x).base + Ext(x).size <= Ext(y).base
                           \/ Ext(y).base + Ext(y).size <= Ext(x).base
  BY <1>1 DEF IsCut, Disjoint, Ext
<1>7. e \notin Held(allocated')
  <2>1. ASSUME NEW x \in allocated', Ext(x) = e PROVE FALSE
    <3>1. x.base = r.base /\ x.size = r.size
      BY <2>1 DEF Ext
    <3>2. r \in Region /\ r.size > 0
      BY <1>2 DEF NonEmpty
    <3>3. CASE x \in allocated \ {r}
      <4>1. Disjoint(x, r)
        BY <1>2, <3>3
      <4> QED
        BY <3>1, <3>2, <4>1 DEF Disjoint, Region
    <3>4. CASE x \in pieces
      <4>1. Disjoint(x, gap) /\ Inside(gap, r) /\ gap.size > 0
        BY <1>1, <3>2, <3>4 DEF IsCut
      <4> QED
        BY <3>1, <3>2, <4>1 DEF Disjoint, Inside, Region
    <3> QED
      BY <1>1, <3>3, <3>4
  <2> QED
    BY <2>1 DEF Held
<1>8. Held(allocated) \ {e} \subseteq Held(allocated')
  BY <1>1 DEF Held
<1>9. Held(allocated') = (Held(allocated) \ {e}) \cup P
  BY <1>7, <1>8
<1> HIDE DEF e, P
<1> QED
  BY <1>3, <1>4, <1>5, <1>6, <1>9 DEF P

\* A step of the allocator is a step of the pool, or leaves the pool alone.
LEMMA StepRefines == IInv /\ NonEmpty /\ NonEmpty' /\ [Next]_vars => [Pool!Next]_(Pool!vars)
<1> SUFFICES ASSUME IInv, NonEmpty, NonEmpty', [Next]_vars
             PROVE  [Pool!Next]_(Pool!vars)
  OBVIOUS
<1>0. Good(allocated, freelists, chunks)
  BY DEF IInv
<1>1. CASE Takes
  <2>1. Pool!Next
    BY <1>0, <1>1, TakeAcquires DEF Pool!Next, Pool!Acquire, Pool!Bytes, Pool!Disjoint, Held, PoolOf, Ext
  <2> QED
    BY <2>1
<1>2. CASE Gives
  <2>1. chunks' = chunks
    BY <1>2 DEF Gives
  <2>2. Pool!Next
    BY <1>0, <1>2, <2>1, GiveShrinks DEF Pool!Next, Pool!Shrink, Pool!Disjoint, Held, Ext
  <2> QED
    BY <2>2
<1>3. CASE Binds
  <2>1. PICK r \in allocated, a \in GuestAddrs :
            allocated' = (allocated \ {r}) \cup {set_guest_addr(r, a)}
    BY <1>3 DEF Binds
  <2>2. Ext(set_guest_addr(r, a)) = Ext(r)
    BY DEF Ext, set_guest_addr
  <2>3. Held(allocated') = Held(allocated)
    BY <2>1, <2>2 DEF Held
  <2>4. chunks' = chunks
    BY <1>3 DEF Binds
  <2> QED
    BY <2>3, <2>4 DEF Pool!vars, Held, Ext
<1>4. CASE Rests
  BY <1>4 DEF Rests, Pool!vars
<1> QED
  BY <1>1, <1>2, <1>3, <1>4, StepKinds

\* The allocator with its free lists, size classes and slices implements the
\* pool: memory is handed out only where nobody holds any, and a holder only
\* ever gives memory back.
THEOREM ImplementsPoolTheorem == Spec => ImplementsPool
<1>1. Init => Pool!Init
  BY DEF Init, Pool!Init
<1>2. IInv /\ NonEmpty /\ NonEmpty' /\ [Next]_vars => [Pool!Next]_(Pool!vars)
  BY StepRefines
<1> QED
  BY <1>1, <1>2, Inductive, NonEmptyTheorem, PTL DEF Spec, ImplementsPool, Pool!Spec

--------------------------------------------------------------------------------
(***************************************************************************)
(* Pages are not shared between regions.                                   *)
(***************************************************************************)
\* posix_memalign returns page addresses, ELKVM_SYSTEM_MEMGROW is whole pages
\* and regions are sliced at page boundaries.  The sizes that are requested
\* may be anything.
WholePages ==
    /\ \A b \in HostBases : b % PageSize = 0
    /\ MemGrow % PageSize = 0
    /\ PageCuts

AllOnPages == \A r \in allocated \cup Listed(freelists) : OnPages(r)

\* A step cuts whole pages.
LEMMA StepOnPages ==
    ASSUME WholePages, IInv, AllOnPages, [Next]_vars
    PROVE  AllOnPages'
<1>0. /\ Good(allocated, freelists, chunks) /\ allocated \subseteq Region
      /\ freelists \in FreeLists /\ chunks \in Seq(Chunk)
  BY DEF IInv, Good
<1>1. CASE Takes
  <2>1. PICK fl \in FreeLists, cs \in Seq(Chunk), new \in Region :
            /\ Offers(fl, cs)
            /\ allocated' = allocated \cup {new}
            /\ DrawnFrom(Listed(fl), new)
    BY <1>0, <1>1, TakeSets
  <2>2. \A r \in Listed(fl) : OnPages(r) /\ r \in Region
    <3>1. CASE Listed(fl) = Listed(freelists)
      BY <3>1, ListedEntries DEF AllOnPages
    <3>2. ASSUME NEW b \in HostBases, NEW n \in {GrowSize(s) : s \in Sizes \cup {PagerMem}},
                 Listed(fl) = Listed(freelists) \cup {[base |-> b, size |-> n, addr |-> 0]}
          PROVE  \A r \in Listed(fl) : OnPages(r) /\ r \in Region
      <4>1. PICK s \in Sizes \cup {PagerMem} : n = GrowSize(s)
        OBVIOUS
      <4>2. s \in Nat /\ pagesize_align(s) % PageSize = 0
        BY AlignPages
      <4>3. n % PageSize = 0 /\ b % PageSize = 0
        BY <4>1, <4>2 DEF GrowSize, WholePages
      <4> QED
        BY <3>2, <4>3, ListedEntries DEF AllOnPages, OnPages
    <3>3. \/ Listed(fl) = Listed(freelists)
          \/ \E b \in HostBases, n \in {GrowSize(s) : s \in Sizes \cup {PagerMem}} :
                 Listed(fl) = Listed(freelists) \cup {[base |-> b, size |-> n, addr |-> 0]}
      BY <1>0, <2>1, OffersListed
    <3> QED
      BY <3>1, <3>2, <3>3
  <2>3. PICK r \in Listed(fl) :
            \/ new = r /\ Listed(freelists') \subseteq Listed(fl)
            \/ \E rest \in Region :
                   IsSplit(r, new, rest) /\ Listed(freelists') \subseteq Listed(fl) \cup {rest}
    BY <2>1 DEF DrawnFrom
  <2>4. CASE new = r /\ Listed(freelists') \subseteq Listed(fl)
    BY <2>1, <2>2, <2>4 DEF AllOnPages
  <2>5. ASSUME NEW rest \in Region, IsSplit(r, new, rest),
               Listed(freelists') \subseteq Listed(fl) \cup {rest}
        PROVE  AllOnPages'
    <3>1. new.size \in Nat /\ new.size % PageSize = 0 /\ new.size <= r.size
      BY <2>2, <2>5 DEF IsSplit, Region
    <3>2. (r.base + new.size) % PageSize = 0 /\ (r.size - new.size) % PageSize = 0
      BY <2>2, <3>1, CutPages
    <3>3. rest.base = r.base + new.size /\ rest.size = r.size - new.size /\ new.base = r.base
      BY <2>2, <2>5 DEF IsSplit, Region
    <3>4. OnPages(new) /\ OnPages(rest)
      BY <2>2, <3>1, <3>2, <3>3 DEF OnPages
    <3> QED
      BY <2>1, <2>2, <2>5, <3>4 DEF AllOnPages
  <2> QED
    BY <2>3, <2>4, <2>5
<1>2. CASE Gives
  <2>1. PICK r \in allocated, pieces \in SUBSET Region, gap \in Region :
            /\ IsCut(r, pieces, gap)
            /\ allocated' = (allocated \ {r}) \cup pieces
            /\ freelists' = add_free_region(freelists, gap)
    BY <1>2 DEF Gives
  <2>2. Listed(freelists') = Listed(freelists) \cup {gap}
    BY <1>0, <2>1, ListedAdd
  <2>3. OnPages(gap) /\ \A e \in pieces : OnPages(e)
    BY <2>1 DEF IsCut, AllOnPages, WholePages
  <2> QED
    BY <2>1, <2>2, <2>3 DEF AllOnPages
<1>3. CASE Binds
  BY <1>3 DEF Binds, AllOnPages, OnPages, set_guest_addr
<1>4. CASE Rests
  BY <1>4 DEF Rests, AllOnPages
<1> QED
  BY <1>1, <1>2, <1>3, <1>4, StepKinds

\* As long as regions are sliced at page boundaries a page is never split
\* between two regions, whatever sizes are requested.
THEOREM PagesNotSharedTheorem ==
    ASSUME WholePages
    PROVE  Spec => []PagesNotShared
<1>1. Init => AllOnPages
  BY DEF Init, AllOnPages, Listed, ToSet
<1>2. AllOnPages /\ IInv /\ [Next]_vars => AllOnPages'
  BY StepOnPages
<1>3. AllOnPages => PagesNotShared
  BY DEF AllOnPages, PagesNotShared, OnPages, Listed
<1> QED
  BY <1>1, <1>2, <1>3, Inductive, PTL DEF Spec
===============================================================================
