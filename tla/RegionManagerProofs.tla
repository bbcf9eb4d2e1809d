-------------------------- MODULE RegionManagerProofs --------------------------
(***************************************************************************)
(* Theorems about RegionManager for every page size, number of free lists, *)
(* chunk size, request size and slice.                                     *)
(***************************************************************************)
EXTENDS RegionManager, FiniteSetTheorems, SequenceTheorems, TLAPS

USE PageAssumption, ListAssumption, SizeAssumption
--------------------------------------------------------------------------------
(***************************************************************************)
(* Operators.                                                              *)
(***************************************************************************)
\* pagesize_align rounds up to less than a page more.
LEMMA AlignFacts ==
    ASSUME NEW n \in Nat
    PROVE  /\ pagesize_align(n) \in Nat
           /\ n <= pagesize_align(n)
           /\ n > 0 => pagesize_align(n) > 0
<1>1. n % PageSize \in 0..(PageSize - 1)
  OBVIOUS
<1>2. CASE n % PageSize = 0
  BY <1>2 DEF pagesize_align
<1>3. CASE n % PageSize # 0
  <2>1. pagesize_align(n) = (n - (n % PageSize)) + PageSize
    BY <1>3 DEF pagesize_align
  <2>2. QED
    BY <2>1, <1>1
<1>4. QED
  BY <1>2, <1>3

\* The index of a size is the index of a list.
LEMMA IdxInLists ==
    ASSUME NEW size \in Nat
    PROVE  get_freelist_idx(size) \in Lists
<1> DEFINE All == 0..(NumLists - 2)
<1> DEFINE Exceeded == {i \in All : size > PageSize * 2^i}
<1>1. IsFiniteSet(All) /\ Cardinality(All) = NumLists - 1
  BY FS_Interval
<1>2. IsFiniteSet(Exceeded) /\ Cardinality(Exceeded) <= Cardinality(All)
  BY <1>1, FS_Subset
<1>3. Cardinality(Exceeded) \in Nat
  BY <1>2, FS_CardinalityType
<1>4. QED
  BY <1>1, <1>2, <1>3 DEF get_freelist_idx, Lists

\* A larger size never has a smaller index: find_free_region may start at the
\* list of the size it looks for.
LEMMA IdxMonotonic ==
    ASSUME NEW s \in Nat, NEW t \in Nat, s <= t
    PROVE  get_freelist_idx(s) <= get_freelist_idx(t)
<1> DEFINE All == 0..(NumLists - 2)
<1> DEFINE Exceeded(n) == {i \in All : n > PageSize * 2^i}
<1>1. IsFiniteSet(All)
  BY FS_Interval
<1>2. IsFiniteSet(Exceeded(t))
  BY <1>1, FS_Subset
<1>3. Exceeded(s) \subseteq Exceeded(t)
  <2>1. \A i \in All : 2^i \in Int
    OBVIOUS
  <2>2. \A i \in All : PageSize * 2^i \in Int
    BY <2>1
  <2>3. QED
    BY <2>2
<1>4. Cardinality(Exceeded(s)) <= Cardinality(Exceeded(t))
  BY <1>2, <1>3, FS_Subset
<1>5. QED
  BY <1>4 DEF get_freelist_idx

\* What erasing an element of a vector leaves.
LEMMA RemoveAtFacts ==
    ASSUME NEW S, NEW s \in Seq(S), NEW p \in 1..Len(s)
    PROVE  /\ RemoveAt(s, p) \in Seq(S)
           /\ Len(RemoveAt(s, p)) = Len(s) - 1
           /\ \A k \in 1..(Len(s) - 1) :
                  RemoveAt(s, p)[k] = IF k < p THEN s[k] ELSE s[k + 1]
<1> DEFINE a == SubSeq(s, 1, p - 1)
<1> DEFINE b == SubSeq(s, p + 1, Len(s))
<1>1. a \in Seq(S) /\ Len(a) = p - 1 /\ \A k \in 1..(p - 1) : a[k] = s[k]
  OBVIOUS
<1>2. b \in Seq(S) /\ Len(b) = Len(s) - p /\ \A k \in 1..(Len(s) - p) : b[k] = s[k + p]
  OBVIOUS
<1>3. RemoveAt(s, p) = a \o b
  BY DEF RemoveAt
<1> HIDE DEF a, b
<1>4. /\ a \o b \in Seq(S)
      /\ Len(a \o b) = Len(a) + Len(b)
      /\ \A k \in 1..(Len(a) + Len(b)) :
             (a \o b)[k] = IF k <= Len(a) THEN a[k] ELSE b[k - Len(a)]
  BY <1>1, <1>2, ConcatProperties
<1>5. ASSUME NEW k \in 1..(Len(s) - 1)
      PROVE  (a \o b)[k] = IF k < p THEN s[k] ELSE s[k + 1]
  <2>1. CASE k < p
    BY <2>1, <1>1, <1>2, <1>4
  <2>2. CASE ~(k < p)
    <3>1. (a \o b)[k] = b[k - (p - 1)]
      BY <2>2, <1>1, <1>2, <1>4
    <3>2. k - (p - 1) \in 1..(Len(s) - p) /\ (k - (p - 1)) + p = k + 1
      BY <2>2
    <3>3. QED
      BY <2>2, <3>1, <3>2, <1>2
  <2>3. QED
    BY <2>1, <2>2
<1>6. QED
  BY <1>1, <1>2, <1>3, <1>4, <1>5
--------------------------------------------------------------------------------
(***************************************************************************)
(* Free lists: what adding and erasing an entry does to each property.     *)
(***************************************************************************)
FreeLists == [Lists -> Seq(Region)]

erase(fl, i, p) == [fl EXCEPT ![i] = RemoveAt(@, p)]

\* An entry of the lists after add_free_region is the new region, at the back
\* of its list, or the entry that was there before.
LEMMA AddFreeEntries ==
    ASSUME NEW fl \in FreeLists, NEW r \in Region
    PROVE  /\ add_free_region(fl, r) \in FreeLists
           /\ get_freelist_idx(r.size) \in Lists
           /\ \A i \in Lists : \A p \in 1..Len(add_free_region(fl, r)[i]) :
                  \/ p \in 1..Len(fl[i]) /\ add_free_region(fl, r)[i][p] = fl[i][p]
                  \/ /\ i = get_freelist_idx(r.size) /\ p = Len(fl[i]) + 1
                     /\ add_free_region(fl, r)[i][p] = r
<1> DEFINE x == get_freelist_idx(r.size)
<1>1. x \in Lists
  BY IdxInLists DEF Region
<1> HIDE DEF x
<1>2. add_free_region(fl, r) = [fl EXCEPT ![x] = Append(fl[x], r)]
  BY DEF add_free_region, x
<1>3. \A i \in Lists : fl[i] \in Seq(Region)
  BY DEF FreeLists
<1>4. Append(fl[x], r) \in Seq(Region)
  BY <1>1, <1>3
<1>5. add_free_region(fl, r) \in FreeLists
  BY <1>1, <1>2, <1>4 DEF FreeLists
<1>6. ASSUME NEW i \in Lists, NEW p \in 1..Len(add_free_region(fl, r)[i])
      PROVE  \/ p \in 1..Len(fl[i]) /\ add_free_region(fl, r)[i][p] = fl[i][p]
             \/ /\ i = x /\ p = Len(fl[i]) + 1
                /\ add_free_region(fl, r)[i][p] = r
  <2>1. CASE i = x
    <3>1. add_free_region(fl, r)[i] = Append(fl[i], r)
      BY <2>1, <1>2, <1>1 DEF FreeLists
    <3>2. fl[i] \in Seq(Region)
      BY <1>3
    <3>3. QED
      BY <3>1, <3>2, <2>1
  <2>2. CASE i # x
    BY <2>2, <1>2 DEF FreeLists
  <2>3. QED
    BY <2>1, <2>2
<1>7. QED
  BY <1>1, <1>5, <1>6 DEF x

\* An entry of the lists after erasing position p of list i was an entry at
\* another position before, and different positions stay different.
LEMMA EraseEntries ==
    ASSUME NEW fl \in FreeLists, NEW i \in Lists, NEW p \in 1..Len(fl[i])
    PROVE  /\ erase(fl, i, p) \in FreeLists
           /\ \A j \in Lists : \A q \in 1..Len(erase(fl, i, p)[j]) :
                  LET was == IF j = i /\ q >= p THEN q + 1 ELSE q
                  IN /\ was \in 1..Len(fl[j])
                     /\ ~(j = i /\ was = p)
                     /\ erase(fl, i, p)[j][q] = fl[j][was]
<1>1. fl[i] \in Seq(Region)
  BY DEF FreeLists
<1> DEFINE t == RemoveAt(fl[i], p)
<1>2. /\ t \in Seq(Region)
      /\ Len(t) = Len(fl[i]) - 1
      /\ \A k \in 1..(Len(fl[i]) - 1) : t[k] = IF k < p THEN fl[i][k] ELSE fl[i][k + 1]
  BY <1>1, RemoveAtFacts
<1>3. erase(fl, i, p) = [fl EXCEPT ![i] = t]
  BY DEF erase
<1> HIDE DEF t
<1>4. erase(fl, i, p) \in FreeLists
  BY <1>2, <1>3 DEF FreeLists
<1>5. ASSUME NEW j \in Lists, NEW q \in 1..Len(erase(fl, i, p)[j])
      PROVE  LET was == IF j = i /\ q >= p THEN q + 1 ELSE q
             IN /\ was \in 1..Len(fl[j])
                /\ ~(j = i /\ was = p)
                /\ erase(fl, i, p)[j][q] = fl[j][was]
  <2>1. CASE j = i
    <3>1. erase(fl, i, p)[j] = t
      BY <2>1, <1>3 DEF FreeLists
    <3>2. Len(fl[i]) \in Nat
      BY <1>1
    <3>3. q \in 1..(Len(fl[i]) - 1)
      BY <3>1, <1>2
    <3>4. QED
      BY <3>1, <3>2, <3>3, <2>1, <1>2
  <2>2. CASE j # i
    BY <2>2, <1>3 DEF FreeLists
  <2>3. QED
    BY <2>1, <2>2
<1>6. QED
  BY <1>4, <1>5

\* add_free_region keeps what holds of every entry if it holds of the new one.
LEMMA AddFreePreserves ==
    ASSUME NEW fl \in FreeLists, NEW r \in Region, NEW cs
    PROVE  /\ ListsDisjoint(fl) /\ Apart(r, fl) => ListsDisjoint(add_free_region(fl, r))
           /\ \A x \in Region : Apart(x, fl) /\ Disjoint(x, r) => Apart(x, add_free_region(fl, r))
           /\ ListsOwned(fl, cs) /\ Owned(r, cs) => ListsOwned(add_free_region(fl, r), cs)
           /\ ListsSorted(fl) => ListsSorted(add_free_region(fl, r))
<1> DEFINE new == add_free_region(fl, r)
<1> DEFINE x == get_freelist_idx(r.size)
<1>1. \A i \in Lists : \A p \in 1..Len(new[i]) :
          \/ p \in 1..Len(fl[i]) /\ new[i][p] = fl[i][p]
          \/ i = x /\ p = Len(fl[i]) + 1 /\ new[i][p] = r
  BY AddFreeEntries
<1> HIDE DEF new
<1>2. ASSUME ListsDisjoint(fl), Apart(r, fl)
      PROVE  ListsDisjoint(new)
  <2> SUFFICES ASSUME NEW i \in Lists, NEW j \in Lists,
                      NEW p \in 1..Len(new[i]), NEW q \in 1..Len(new[j]),
                      ~(i = j /\ p = q)
               PROVE  Disjoint(new[i][p], new[j][q])
    BY DEF ListsDisjoint
  <2>1. CASE p \in 1..Len(fl[i]) /\ new[i][p] = fl[i][p]
    <3>1. CASE q \in 1..Len(fl[j]) /\ new[j][q] = fl[j][q]
      BY <2>1, <3>1, <1>2 DEF ListsDisjoint
    <3>2. CASE new[j][q] = r
      BY <2>1, <3>2, <1>2 DEF Apart, Disjoint
    <3>3. QED
      BY <3>1, <3>2, <1>1
  <2>2. CASE i = x /\ p = Len(fl[i]) + 1 /\ new[i][p] = r
    <3>1. CASE q \in 1..Len(fl[j]) /\ new[j][q] = fl[j][q]
      BY <2>2, <3>1, <1>2 DEF Apart
    <3>2. CASE j = x /\ q = Len(fl[j]) + 1 /\ new[j][q] = r
      BY <2>2, <3>2
    <3>3. QED
      BY <3>1, <3>2, <1>1
  <2>3. QED
    BY <2>1, <2>2, <1>1
<1>3. ASSUME NEW y \in Region, Apart(y, fl), Disjoint(y, r)
      PROVE  Apart(y, new)
  BY <1>1, <1>3 DEF Apart
<1>4. ASSUME ListsOwned(fl, cs), Owned(r, cs)
      PROVE  ListsOwned(new, cs)
  <2> SUFFICES ASSUME NEW i \in Lists, NEW p \in 1..Len(new[i])
               PROVE  Owned(new[i][p], cs)
    BY DEF ListsOwned
  <2>1. CASE p \in 1..Len(fl[i]) /\ new[i][p] = fl[i][p]
    BY <2>1, <1>4 DEF ListsOwned
  <2>2. CASE new[i][p] = r
    BY <2>2, <1>4
  <2>3. QED
    BY <2>1, <2>2, <1>1
<1>5. ASSUME ListsSorted(fl)
      PROVE  ListsSorted(new)
  <2> SUFFICES ASSUME NEW i \in Lists, NEW p \in 1..Len(new[i])
               PROVE  get_freelist_idx(new[i][p].size) = i
    BY DEF ListsSorted
  <2>1. CASE p \in 1..Len(fl[i]) /\ new[i][p] = fl[i][p]
    BY <2>1, <1>5 DEF ListsSorted
  <2>2. CASE i = x /\ new[i][p] = r
    BY <2>2
  <2>3. QED
    BY <2>1, <2>2, <1>1
<1>6. QED
  BY <1>2, <1>3, <1>4, <1>5 DEF new

\* Erasing an entry keeps what holds of every entry, and the erased region is
\* apart from what stays.
LEMMA ErasePreserves ==
    ASSUME NEW fl \in FreeLists, NEW i \in Lists, NEW p \in 1..Len(fl[i]), NEW cs
    PROVE  /\ fl[i][p] \in Region
           /\ ListsDisjoint(fl) => /\ ListsDisjoint(erase(fl, i, p))
                                   /\ Apart(fl[i][p], erase(fl, i, p))
           /\ \A x \in Region : Apart(x, fl) =>
                  Disjoint(x, fl[i][p]) /\ Apart(x, erase(fl, i, p))
           /\ ListsOwned(fl, cs) => Owned(fl[i][p], cs) /\ ListsOwned(erase(fl, i, p), cs)
           /\ ListsSorted(fl) => ListsSorted(erase(fl, i, p))
<1> DEFINE new == erase(fl, i, p)
<1> DEFINE was(j, q) == IF j = i /\ q >= p THEN q + 1 ELSE q
<1>1. \A j \in Lists : \A q \in 1..Len(new[j]) :
          /\ was(j, q) \in 1..Len(fl[j])
          /\ ~(j = i /\ was(j, q) = p)
          /\ new[j][q] = fl[j][was(j, q)]
  BY EraseEntries
<1> HIDE DEF new
<1>2. fl[i][p] \in Region
  BY DEF FreeLists
<1>3. ASSUME ListsDisjoint(fl)
      PROVE  ListsDisjoint(new) /\ Apart(fl[i][p], new)
  <2>1. ASSUME NEW j \in Lists, NEW k \in Lists,
               NEW q \in 1..Len(new[j]), NEW s \in 1..Len(new[k]),
               ~(j = k /\ q = s)
        PROVE  Disjoint(new[j][q], new[k][s])
    <3>1. ~(j = k /\ was(j, q) = was(k, s))
      BY <2>1
    <3> HIDE DEF was
    <3>2. Disjoint(fl[j][was(j, q)], fl[k][was(k, s)])
      BY <3>1, <1>1, <1>3 DEF ListsDisjoint
    <3>3. QED
      BY <3>2, <1>1
  <2>2. ASSUME NEW j \in Lists, NEW q \in 1..Len(new[j])
        PROVE  Disjoint(fl[i][p], new[j][q])
    <3> HIDE DEF was
    <3>1. Disjoint(fl[i][p], fl[j][was(j, q)])
      BY <1>1, <1>3 DEF ListsDisjoint
    <3>2. QED
      BY <3>1, <1>1
  <2>3. QED
    BY <2>1, <2>2 DEF ListsDisjoint, Apart
<1> HIDE DEF was
<1>4. ASSUME NEW x \in Region, Apart(x, fl)
      PROVE  Disjoint(x, fl[i][p]) /\ Apart(x, new)
  BY <1>1, <1>4 DEF Apart
<1>5. ASSUME ListsOwned(fl, cs)
      PROVE  Owned(fl[i][p], cs) /\ ListsOwned(new, cs)
  BY <1>1, <1>5 DEF ListsOwned
<1>6. ASSUME ListsSorted(fl)
      PROVE  ListsSorted(new)
  BY <1>1, <1>6 DEF ListsSorted
<1>7. QED
  BY <1>2, <1>3, <1>4, <1>5, <1>6 DEF new

\* A piece of a region inherits that the region shares no memory with others
\* and that it is memory of a chunk.
LEMMA PieceFacts ==
    ASSUME NEW r \in Region, NEW e \in Region, Inside(e, r), NEW fl \in FreeLists,
           NEW cs \in Seq(Chunk)
    PROVE  /\ \A s \in Region : Disjoint(r, s) => Disjoint(e, s) /\ Disjoint(s, e)
           /\ Apart(r, fl) => Apart(e, fl)
           /\ Owned(r, cs) => Owned(e, cs)
<1>1. ASSUME NEW s \in Region, Disjoint(r, s)
      PROVE  Disjoint(e, s) /\ Disjoint(s, e)
  BY <1>1 DEF Disjoint, Inside, Region
<1>2. \A i \in Lists : \A p \in 1..Len(fl[i]) : fl[i][p] \in Region
  BY DEF FreeLists
<1>3. \A k \in 1..Len(cs) : cs[k] \in Chunk
  OBVIOUS
<1>4. ASSUME Owned(r, cs)
      PROVE  Owned(e, cs)
  <2>1. PICK k \in 1..Len(cs) : Inside(r, cs[k])
    BY <1>4 DEF Owned
  <2>2. Inside(e, cs[k])
    BY <2>1, <1>3 DEF Inside, Region, Chunk
  <2>3. QED
    BY <2>2 DEF Owned
<1>5. QED
  BY <1>1, <1>2, <1>4 DEF Apart
--------------------------------------------------------------------------------
(***************************************************************************)
(* The inductive invariant, over the regions in use, the free lists and    *)
(* the chunks.  NoOverlap alone is not inductive: that a new chunk overlaps *)
(* no region needs every region to be inside a chunk.                      *)
(***************************************************************************)
Good(al, fl, cs) ==
    /\ al \subseteq Region
    /\ fl \in FreeLists
    /\ cs \in Seq(Chunk)
    /\ \A r, s \in al : r = s \/ Disjoint(r, s)
    /\ \A r \in al : Apart(r, fl)
    /\ \A r \in al : Owned(r, cs)
    /\ ListsDisjoint(fl)
    /\ ListsOwned(fl, cs)
    /\ ListsSorted(fl)

IInv == /\ Good(allocated, freelists, chunks)
        /\ sys \in Nat
        /\ fault \in Faults

\* Replacing a region in use by pieces of itself and freeing another piece
\* keeps the invariant: this covers freeing and both ways of slicing.
LEMMA ReplaceKeepsGood ==
    ASSUME NEW al, NEW fl, NEW cs, Good(al, fl, cs),
           NEW r \in al, NEW pieces \in SUBSET Region, NEW gap \in Region,
           \A e \in pieces : Inside(e, r) /\ Disjoint(e, gap),
           \A e, f \in pieces : e = f \/ Disjoint(e, f),
           Inside(gap, r)
    PROVE  Good((al \ {r}) \cup pieces, add_free_region(fl, gap), cs)
<1> DEFINE al2 == (al \ {r}) \cup pieces
<1> DEFINE fl2 == add_free_region(fl, gap)
<1> USE DEF Good
<1>1. r \in Region /\ al2 \subseteq Region /\ fl2 \in FreeLists
  BY AddFreeEntries
<1>2. \A e \in pieces : /\ \A s \in Region : Disjoint(r, s) => Disjoint(e, s) /\ Disjoint(s, e)
                        /\ Apart(e, fl) /\ Owned(e, cs)
  BY <1>1, PieceFacts
<1>3. /\ \A s \in Region : Disjoint(r, s) => Disjoint(gap, s) /\ Disjoint(s, gap)
      /\ Apart(gap, fl) /\ Owned(gap, cs)
  BY <1>1, PieceFacts
<1>4. \A s \in al \ {r} : Disjoint(r, s)
  OBVIOUS
<1>5. \A x, y \in al2 : x = y \/ Disjoint(x, y)
  BY <1>2, <1>4
<1>6. ListsDisjoint(fl2) /\ ListsOwned(fl2, cs) /\ ListsSorted(fl2)
  BY <1>3, AddFreePreserves
<1>7. \A x \in al2 : Disjoint(x, gap) /\ Apart(x, fl)
  BY <1>2, <1>3, <1>4
<1>8. \A x \in al2 : Apart(x, fl2)
  BY <1>1, <1>7, AddFreePreserves
<1>9. \A x \in al2 : Owned(x, cs)
  BY <1>2
<1>10. QED
  BY <1>1, <1>5, <1>6, <1>8, <1>9

\* Rebinding a region to another guest address keeps the invariant.
LEMMA BindKeepsGood ==
    ASSUME NEW al, NEW fl, NEW cs, Good(al, fl, cs), NEW r \in al, NEW a \in Nat
    PROVE  Good((al \ {r}) \cup {set_guest_addr(r, a)}, fl, cs)
<1> DEFINE s == set_guest_addr(r, a)
<1> USE DEF Good
<1>1. r \in Region /\ s \in Region /\ Inside(s, r)
  BY DEF set_guest_addr, Region, Inside
<1>2. /\ \A x \in Region : Disjoint(r, x) => Disjoint(s, x) /\ Disjoint(x, s)
      /\ Apart(s, fl) /\ Owned(s, cs)
  BY <1>1, PieceFacts
<1> HIDE DEF s
<1>3. \A x \in al \ {r} : x \in Region /\ Disjoint(r, x)
  OBVIOUS
<1>4. \A x, y \in (al \ {r}) \cup {s} : x = y \/ Disjoint(x, y)
  BY <1>2, <1>3
<1>5. QED
  BY <1>1, <1>2, <1>4 DEF s

\* The two regions slice_begin makes are disjoint and cover the region.
LEMMA SliceBeginFacts ==
    ASSUME NEW r \in Region, NEW size \in Nat, pagesize_align(size) < r.size
    PROVE  LET cut == slice_begin(r, size)
           IN /\ cut.front \in Region /\ cut.rest \in Region
              /\ Inside(cut.front, r) /\ Inside(cut.rest, r)
              /\ Disjoint(cut.front, cut.rest) /\ Disjoint(cut.rest, cut.front)
<1>1. pagesize_align(size) \in Nat
  BY AlignFacts
<1>2. QED
  BY <1>1 DEF slice_begin, Region, Inside, Disjoint

\* Handing out a region of the free lists keeps the invariant.
LEMMA HandOutKeepsGood ==
    ASSUME NEW fl, NEW cs, Good(allocated, fl, cs), NEW i \in Lists,
           NEW p \in 1..Len(fl[i]), NEW size \in Nat, HandOut(fl, i, p, size)
    PROVE  Good(allocated', freelists', cs)
<1> DEFINE r == fl[i][p]
<1> DEFINE fl2 == erase(fl, i, p)
<1> DEFINE cut == slice_begin(r, size)
<1>1. /\ r \in Region
      /\ fl2 \in FreeLists
      /\ ListsDisjoint(fl2) /\ Apart(r, fl2) /\ ListsSorted(fl2)
      /\ Owned(r, cs) /\ ListsOwned(fl2, cs)
      /\ \A x \in allocated : Disjoint(x, r) /\ Apart(x, fl2)
  BY ErasePreserves, EraseEntries DEF Good
<1>2. CASE r.size > pagesize_align(size)
  <2>1. allocated' = allocated \cup {cut.front} /\ freelists' = add_free_region(fl2, cut.rest)
    BY <1>2 DEF HandOut, erase
  <2>2. /\ cut.front \in Region /\ cut.rest \in Region
        /\ Inside(cut.front, r) /\ Inside(cut.rest, r)
        /\ Disjoint(cut.front, cut.rest) /\ Disjoint(cut.rest, cut.front)
    BY <1>1, <1>2, SliceBeginFacts, AlignFacts DEF Region
  <2> HIDE DEF cut, fl2, r
  <2>3. Good(allocated \cup {r}, fl2, cs)
    <3>1. \A x, y \in allocated \cup {r} : x = y \/ Disjoint(x, y)
      BY <1>1 DEF Good, Disjoint
    <3>2. QED
      BY <1>1, <3>1 DEF Good
  <2>4. Good(((allocated \cup {r}) \ {r}) \cup {cut.front}, add_free_region(fl2, cut.rest), cs)
    <3>1. {cut.front} \in SUBSET Region
      BY <2>2
    <3>2. \A e \in {cut.front} : Inside(e, r) /\ Disjoint(e, cut.rest)
      BY <2>2
    <3>3. \A e, f \in {cut.front} : e = f \/ Disjoint(e, f)
      OBVIOUS
    <3>4. QED
      BY <2>2, <2>3, <3>1, <3>2, <3>3, ReplaceKeepsGood
  <2>5. Good(allocated \cup {cut.front}, add_free_region(fl2, cut.rest), cs)
    <3>1. CASE r \notin allocated
      <4>1. (allocated \cup {r}) \ {r} = allocated
        BY <3>1
      <4>2. QED
        BY <2>4, <4>1
    <3>2. CASE r \in allocated
      <4>1. r.size = 0
        BY <3>2, <1>1 DEF Disjoint, Region
      <4>2. QED
        BY <4>1, <1>2, <1>1, AlignFacts DEF r
    <3>3. QED
      BY <3>1, <3>2
  <2>6. QED
    BY <2>1, <2>5
<1>3. CASE ~(r.size > pagesize_align(size))
  <2>1. allocated' = allocated \cup {r} /\ freelists' = fl2
    BY <1>3 DEF HandOut, erase
  <2> HIDE DEF cut, fl2, r
  <2>2. \A x, y \in allocated \cup {r} : x = y \/ Disjoint(x, y)
    BY <1>1 DEF Good, Disjoint
  <2>3. QED
    BY <1>1, <2>1, <2>2 DEF Good
<1>4. QED
  BY <1>2, <1>3

\* A new chunk, entered as one free region, keeps the invariant.
LEMMA ChunkKeepsGood ==
    ASSUME Good(allocated, freelists, chunks), NEW base \in Nat, NEW grow \in Nat,
           ~InUse(base, grow)
    PROVE  Good(allocated,
                add_free_region(freelists, [base |-> base, size |-> grow, addr |-> 0]),
                Append(chunks, [base |-> base, size |-> grow]))
<1> DEFINE n == [base |-> base, size |-> grow, addr |-> 0]
<1> DEFINE c == [base |-> base, size |-> grow]
<1> DEFINE cs == Append(chunks, c)
<1> DEFINE fl == add_free_region(freelists, n)
<1>1. n \in Region /\ c \in Chunk /\ chunks \in Seq(Chunk) /\ freelists \in FreeLists
  BY DEF Region, Chunk, Good
<1>2. /\ cs \in Seq(Chunk) /\ Len(cs) = Len(chunks) + 1
      /\ \A k \in 1..Len(chunks) : cs[k] = chunks[k]
      /\ cs[Len(cs)] = c
  BY <1>1
<1>3. ASSUME NEW r \in Region, Owned(r, chunks)
      PROVE  Disjoint(r, n) /\ Disjoint(n, r) /\ Owned(r, cs)
  <2>1. PICK k \in 1..Len(chunks) : Inside(r, chunks[k])
    BY <1>3 DEF Owned
  <2>2. chunks[k] \in Chunk
    BY <1>1
  <2>3. Disjoint(r, n) /\ Disjoint(n, r)
    BY <2>1, <2>2 DEF InUse, Inside, Disjoint, Region, Chunk
  <2>4. Inside(r, cs[k]) /\ k \in 1..Len(cs)
    BY <2>1, <1>1, <1>2
  <2>5. QED
    BY <2>3, <2>4 DEF Owned
<1>4. Owned(n, cs)
  <2>1. Inside(n, c)
    BY DEF Inside
  <2>2. Len(cs) \in 1..Len(cs)
    BY <1>1, <1>2
  <2>3. QED
    BY <2>1, <2>2, <1>2 DEF Owned
<1>5. \A i \in Lists : \A p \in 1..Len(freelists[i]) : freelists[i][p] \in Region
  BY <1>1 DEF FreeLists
<1> HIDE DEF cs, n, c
<1>6. Apart(n, freelists) /\ ListsOwned(freelists, cs)
  BY <1>3, <1>5 DEF Good, Apart, ListsOwned
<1>7. \A r \in allocated : Apart(r, fl) /\ Owned(r, cs)
  BY <1>1, <1>3, AddFreePreserves DEF Good
<1>8. ListsDisjoint(fl) /\ ListsOwned(fl, cs) /\ ListsSorted(fl) /\ fl \in FreeLists
  BY <1>1, <1>4, <1>6, AddFreePreserves, AddFreeEntries DEF Good
<1>9. Good(allocated, fl, cs)
  BY <1>2, <1>7, <1>8 DEF Good
<1>10. QED
  BY <1>9 DEF fl, cs, n, c

\* Taking the first fit out of the lists fl keeps the invariant, or aborts.
LEMMA TakeKeepsGood ==
    ASSUME NEW fl, NEW cs, Good(allocated, fl, cs), NEW size \in Nat,
           TakeFirstFit(fl, size), fault = "none"
    PROVE  /\ fault' \in Faults
           /\ \/ fault' = "none" /\ Good(allocated', freelists', cs)
              \/ fault' # "none" /\ UNCHANGED <<allocated, freelists>>
<1>0. PICK i \in Lists : \E p \in 1..Len(fl[i]) :
          IF HandOutFault(fl[i][p], size) = "none"
          THEN HandOut(fl, i, p, size) /\ UNCHANGED fault
          ELSE Abort(HandOutFault(fl[i][p], size))
  BY DEF TakeFirstFit
<1>1. PICK p \in 1..Len(fl[i]) :
          IF HandOutFault(fl[i][p], size) = "none"
          THEN HandOut(fl, i, p, size) /\ UNCHANGED fault
          ELSE Abort(HandOutFault(fl[i][p], size))
  BY <1>0
<1>2. HandOutFault(fl[i][p], size) \in Faults
  BY DEF HandOutFault, Faults
<1>3. CASE HandOutFault(fl[i][p], size) = "none"
  BY <1>1, <1>2, <1>3, HandOutKeepsGood
<1>4. CASE HandOutFault(fl[i][p], size) # "none"
  BY <1>1, <1>2, <1>4 DEF Abort
<1>5. QED
  BY <1>3, <1>4

\* Adding a chunk and taking the first fit keeps the invariant, or aborts.
LEMMA GrowKeepsGood ==
    ASSUME Good(allocated, freelists, chunks), NEW size \in Nat, NEW base \in Nat,
           GrowAndTake(size, base), fault = "none"
    PROVE  fault' \in Faults /\ Good(allocated', freelists', chunks')
<1> DEFINE grow == GrowSize(size)
<1> DEFINE fl == add_free_region(freelists, [base |-> base, size |-> grow, addr |-> 0])
<1> DEFINE cs == Append(chunks, [base |-> base, size |-> grow])
<1>1. grow \in Nat
  BY AlignFacts DEF GrowSize
<1>2. /\ ~InUse(base, grow)
      /\ IF NoFit(fl, size) THEN Abort("no_region_after_chunk") ELSE TakeFirstFit(fl, size)
      /\ chunks' = IF fault' = "none" THEN cs ELSE chunks
  BY DEF GrowAndTake
<1> HIDE DEF grow
<1>3. Good(allocated, fl, cs)
  BY <1>1, <1>2, ChunkKeepsGood
<1> HIDE DEF fl, cs
<1>4. CASE NoFit(fl, size)
  BY <1>2, <1>4 DEF Abort, Faults
<1>5. CASE ~NoFit(fl, size)
  BY <1>2, <1>3, <1>5, TakeKeepsGood
<1>6. QED
  BY <1>4, <1>5
--------------------------------------------------------------------------------
(***************************************************************************)
(* Theorems.                                                               *)
(***************************************************************************)
\* Before the constructor has run there is nothing to be wrong about.
LEMMA InitIInv == Init => IInv
<1> SUFFICES ASSUME Init PROVE IInv
  OBVIOUS
<1> USE DEF Init
<1>1. freelists \in FreeLists /\ chunks \in Seq(Chunk)
  BY DEF FreeLists
<1>2. \A i \in Lists : 1..Len(freelists[i]) = {}
  OBVIOUS
<1>3. ListsDisjoint(freelists) /\ ListsOwned(freelists, chunks) /\ ListsSorted(freelists)
  BY <1>2 DEF ListsDisjoint, ListsOwned, ListsSorted
<1>4. QED
  BY <1>1, <1>3 DEF IInv, Good, Faults

\* Every operation of RegionManager, and every slice its users ask for, keeps
\* the inductive invariant: one step per action of Next.
LEMMA NextIInv == IInv /\ [Next]_vars => IInv'
<1> SUFFICES ASSUME IInv, [Next]_vars PROVE IInv'
  OBVIOUS
<1> DEFINE G == Good(allocated, freelists, chunks)
<1>0. G /\ sys \in Nat /\ fault \in Faults
  BY DEF IInv
<1>i. G' /\ sys' \in Nat /\ fault' \in Faults => IInv'
  BY DEF IInv
<1>u. allocated' = allocated /\ freelists' = freelists /\ chunks' = chunks => G'
  BY <1>0
<1>r. \A r \in allocated : r \in Region
  BY <1>0 DEF Good
<1> HIDE DEF G
<1>1. ASSUME NEW b \in HostBases, Construct(b) PROVE IInv'
  BY <1>1, <1>0, <1>i, GrowKeepsGood DEF Construct, Running, G
<1>2. ASSUME NEW s \in Sizes, AllocateFree(s) PROVE IInv'
  <2>1. /\ fault = "none" /\ TakeFirstFit(freelists, s)
        /\ chunks' = chunks /\ sys' = sys
    BY <1>2 DEF AllocateFree, Ready, Running
  <2>2. /\ fault' \in Faults
        /\ \/ fault' = "none" /\ Good(allocated', freelists', chunks)
           \/ fault' # "none" /\ UNCHANGED <<allocated, freelists>>
    BY <2>1, <1>0, TakeKeepsGood DEF G
  <2>3. QED
    BY <2>1, <2>2, <1>0, <1>i, <1>u DEF G
<1>3. ASSUME NEW s \in Sizes, AllocateFail(s) PROVE IInv'
  BY <1>3, <1>0, <1>i, <1>u DEF AllocateFail, Abort, Faults
<1>4. ASSUME NEW s \in Sizes, NEW b \in HostBases, AllocateGrow(s, b) PROVE IInv'
  BY <1>4, <1>0, <1>i, GrowKeepsGood DEF AllocateGrow, Ready, Running, G
<1>5. ASSUME NEW r \in allocated, NEW a \in GuestAddrs, Bind(r, a) PROVE IInv'
  BY <1>5, <1>0, <1>i, BindKeepsGood DEF Bind, G
<1>6. ASSUME NEW r \in allocated, free_region(r) PROVE IInv'
  <2>1. set_free(r) \in Region /\ Inside(set_free(r), r)
    BY <1>r DEF set_free, Region, Inside
  <2>2. Good((allocated \ {r}) \cup {}, add_free_region(freelists, set_free(r)), chunks)
    BY <2>1, <1>0, ReplaceKeepsGood DEF G
  <2>3. (allocated \ {r}) \cup {} = allocated \ {r}
    OBVIOUS
  <2>4. QED
    BY <2>2, <2>3, <1>6, <1>0, <1>i DEF free_region, G
<1>7. ASSUME NEW p, NEW s, free_region_at(p, s) PROVE IInv'
  <2>1. CASE \E r \in allocated : contains_address(r, p) /\ r.size = s /\ free_region(r)
    BY <2>1, <1>6
  <2>2. CASE Abort("bad_free") /\ UNCHANGED <<chunks, sys>>
    BY <2>2, <1>0, <1>i, <1>u DEF Abort, Faults
  <2>3. QED
    BY <2>1, <2>2, <1>7 DEF free_region_at
<1>8. ASSUME NEW r \in allocated, NEW off \in Cuts, SliceFront(r, off) PROVE IInv'
  <2>1. CASE pagesize_align(off) < r.size
    <3> DEFINE cut == slice_begin(r, off)
    <3>1. /\ cut.front \in Region /\ cut.rest \in Region
          /\ Inside(cut.front, r) /\ Inside(cut.rest, r)
          /\ Disjoint(cut.rest, cut.front)
      BY <2>1, <1>r, SliceBeginFacts
    <3> HIDE DEF cut
    <3>2. Good((allocated \ {r}) \cup {cut.rest}, add_free_region(freelists, cut.front), chunks)
      <4>1. {cut.rest} \in SUBSET Region
        BY <3>1
      <4>2. \A e \in {cut.rest} : Inside(e, r) /\ Disjoint(e, cut.front)
        BY <3>1
      <4>3. \A e, f \in {cut.rest} : e = f \/ Disjoint(e, f)
        OBVIOUS
      <4>4. QED
        BY <3>1, <4>1, <4>2, <4>3, <1>0, ReplaceKeepsGood DEF G
    <3>3. QED
      BY <3>2, <2>1, <1>8, <1>0, <1>i DEF SliceFront, G, cut
  <2>2. CASE ~(pagesize_align(off) < r.size)
    BY <2>2, <1>8, <1>0, <1>i, <1>u DEF SliceFront, Abort, Faults
  <2>3. QED
    BY <2>1, <2>2
<1>9. ASSUME NEW r \in allocated, NEW off \in Cuts, NEW len \in Cuts, SliceCenter(r, off, len)
      PROVE  IInv'
  <2> DEFINE cut == slice_center(r, off, len)
  <2> DEFINE tail == set_guest_addr(cut.tail, r.addr + off + len)
  <2>1. off + len < r.size /\ off \in Nat /\ len \in Nat /\ r \in Region
    BY <1>9, <1>r DEF SliceCenter
  <2>2. /\ cut.head \in Region /\ tail \in Region /\ cut.gap \in Region
        /\ Inside(cut.head, r) /\ Inside(tail, r) /\ Inside(cut.gap, r)
        /\ Disjoint(cut.head, tail) /\ Disjoint(tail, cut.head)
        /\ Disjoint(cut.head, cut.gap) /\ Disjoint(tail, cut.gap)
    BY <2>1 DEF slice_center, set_guest_addr, Region, Inside, Disjoint
  <2>3. /\ allocated' = (allocated \ {r}) \cup {cut.head, tail}
        /\ freelists' = add_free_region(freelists, cut.gap)
        /\ chunks' = chunks /\ sys' = sys /\ fault' = fault
    BY <1>9 DEF SliceCenter
  <2> HIDE DEF cut, tail
  <2>4. Good((allocated \ {r}) \cup {cut.head, tail}, add_free_region(freelists, cut.gap), chunks)
    <3>1. {cut.head, tail} \in SUBSET Region
      BY <2>2
    <3>2. \A e \in {cut.head, tail} : Inside(e, r) /\ Disjoint(e, cut.gap)
      BY <2>2
    <3>3. \A e, f \in {cut.head, tail} : e = f \/ Disjoint(e, f)
      BY <2>2
    <3>4. QED
      BY <2>2, <3>1, <3>2, <3>3, <1>0, ReplaceKeepsGood DEF G
  <2>5. QED
    BY <2>3, <2>4, <1>0, <1>i DEF G
<1>10. CASE UNCHANGED vars
  BY <1>10, <1>0, <1>i, <1>u DEF vars
<1>11. QED
  BY <1>1, <1>2, <1>3, <1>4, <1>5, <1>6, <1>7, <1>8, <1>9, <1>10 DEF Next, Halted

\* The inductive invariant holds in every reachable state of the allocator.
THEOREM Inductive == Spec => []IInv
  BY InitIInv, NextIInv, PTL DEF Spec

\* Type correctness of the allocator.
THEOREM TypeCorrect == Spec => []TypeOK
<1>1. IInv => TypeOK
  BY DEF IInv, Good, TypeOK, FreeLists
<1>2. QED
  BY <1>1, Inductive, PTL

\* allocate_region, free_region and the slices never let two regions share
\* memory, for every page size, chunk size, request and cut.
THEOREM NoOverlapTheorem == Spec => []NoOverlap
<1>1. IInv => NoOverlap
  BY DEF IInv, Good, NoOverlap
<1>2. QED
  BY <1>1, Inductive, PTL

\* Every region is memory that was given to KVM.
THEOREM InsideChunksTheorem == Spec => []InsideChunks
<1>1. IInv => InsideChunks
  BY DEF IInv, Good, InsideChunks
<1>2. QED
  BY <1>1, Inductive, PTL

\* find_free_region overlooks no free region that is large enough.
THEOREM SearchCompleteTheorem == Spec => []SearchComplete
<1>1. IInv => SearchComplete
  <2> SUFFICES ASSUME IInv, NEW size \in Sizes, NoFit(freelists, size),
                      NEW i \in Lists, NEW p \in 1..Len(freelists[i]),
                      ~(freelists[i][p].size < size)
               PROVE  FALSE
    BY DEF SearchComplete
  <2>1. freelists[i][p] \in Region /\ get_freelist_idx(freelists[i][p].size) = i
    BY DEF IInv, Good, FreeLists, ListsSorted
  <2>2. freelists[i][p].size \in Nat /\ size <= freelists[i][p].size
    BY <2>1 DEF Region
  <2>3. get_freelist_idx(size) <= i
    BY <2>1, <2>2, IdxMonotonic
  <2>4. get_freelist_idx(size) \in Lists
    BY IdxInLists
  <2>5. QED
    BY <2>3, <2>4 DEF NoFit, Lists
<1>2. QED
  BY <1>1, Inductive, PTL
===============================================================================
