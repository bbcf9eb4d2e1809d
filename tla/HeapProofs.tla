------------------------------- MODULE HeapProofs -------------------------------
(***************************************************************************)
(* The heap under mmap and munmap, for every size of pages and chunks, all *)
(* lengths and every number of calls: regions are cut, handed out, partly  *)
(* unmapped, given back and handed out again in any order.                 *)
(***************************************************************************)
EXTENDS Heap, SequenceTheorems, FiniteSetTheorems, WellFoundedInduction, TLAPS

--------------------------------------------------------------------------------
(***************************************************************************)
(* Pages.                                                                  *)
(***************************************************************************)
LEMMA PageSize == P \in Nat \ {0}
BY HeapConstants

LEMMA PageBytes ==
    ASSUME NEW n \in Nat
    PROVE  P * n \in Nat
BY PageSize

\* Division by the size of a page.
LEMMA Division ==
    ASSUME NEW q \in Int, NEW r \in 0 .. P - 1
    PROVE  (P * q + r) \div P = q /\ (P * q + r) % P = r
<1> DEFINE a == P * q + r
<1>1. a \in Int /\ P * q \in Int
  BY PageSize
<1>2. a \div P \in Int /\ a % P \in 0 .. P - 1 /\ a = P * (a \div P) + (a % P)
  BY PageSize, <1>1
<1> DEFINE d == a \div P
           s == a % P
<1>3. d \in Int /\ s \in 0 .. P - 1 /\ P * (d - q) = r - s
  BY PageSize, <1>1, <1>2
<1> HIDE DEF d, s, a
<1>4. d - q = 0
  <2>1. CASE d - q >= 1
    <3>1. P * (d - q) >= P
      BY PageSize, <1>3, <2>1
    <3> QED
      BY PageSize, <1>3, <3>1
  <2>2. CASE d - q <= -1
    <3>1. P * (d - q) <= -P
      BY PageSize, <1>3, <2>2
    <3> QED
      BY PageSize, <1>3, <3>1
  <2> QED
    BY <1>3, <2>1, <2>2
<1>5. d = q /\ s = r
  BY PageSize, <1>3, <1>4
<1> QED
  BY <1>5 DEF d, s, a

\* Addresses of pages are ordered as the pages are.
LEMMA PageOrder ==
    ASSUME NEW a \in Int, NEW b \in Int
    PROVE  /\ P * a \in Int /\ (a \in Nat => P * a \in Nat)
           /\ a < b <=> P * a < P * b
           /\ a <= b <=> P * a <= P * b
           /\ P * (a + b) = P * a + P * b /\ P * (a - b) = P * a - P * b
           /\ P * (a + 1) = P * a + P
           /\ P * 1 = P /\ P * 0 = 0
<1>1. P * a \in Int /\ P * b \in Int /\ (a \in Nat => P * a \in Nat)
  BY PageSize
<1>2. P * (a - b) = P * a - P * b /\ P * (a + b) = P * a + P * b
      /\ P * (a + 1) = P * a + P /\ P * 1 = P /\ P * 0 = 0
  BY PageSize
<1>3. a < b => P * a < P * b
  <2>1. a < b => P * (b - a) > 0
    BY PageSize
  <2>2. P * (b - a) = P * b - P * a
    BY PageSize
  <2> QED
    BY <1>1, <2>1, <2>2
<1>4. b < a => P * b < P * a
  <2>1. b < a => P * (a - b) > 0
    BY PageSize
  <2> QED
    BY <1>1, <1>2, <2>1
<1> QED
  BY <1>1, <1>2, <1>3, <1>4

\* An address at the beginning of a page.
Whole(a) == \E n \in Nat : a = P * n

LEMMA WholePages ==
    ASSUME NEW n \in Nat
    PROVE  /\ PageOf(P * n) = n /\ (P * n) % P = 0
           /\ pages_from_size(P * n) = n /\ pagesize_align(P * n) = P * n
<1>1. 0 \in 0 .. P - 1 /\ P * n \in Nat
  BY PageSize
<1>2. (P * n + 0) \div P = n /\ (P * n + 0) % P = 0
  BY <1>1, Division
<1>3. P * n + 0 = P * n
  BY <1>1
<1> QED
  BY <1>2, <1>3 DEF PageOf, pages_from_size, pagesize_align

LEMMA WholeAligned ==
    ASSUME NEW a, Whole(a)
    PROVE  a \in Nat /\ pagesize_align(a) = a /\ a = P * PageOf(a) /\ PageOf(a) \in Nat
<1>1. PICK n \in Nat : a = P * n
  BY DEF Whole
<1>2. P * n \in Nat
  BY PageSize
<1>3. PageOf(P * n) = n /\ pagesize_align(P * n) = P * n
  BY WholePages
<1> QED
  BY <1>1, <1>2, <1>3

\* A size is rounded up to whole pages.
LEMMA RoundedUp ==
    ASSUME NEW n \in Nat \ {0}
    PROVE  /\ pages_from_size(n) \in Nat \ {0}
           /\ pagesize_align(n) \in Nat /\ pagesize_align(n) = P * pages_from_size(n)
           /\ n <= pagesize_align(n) /\ pagesize_align(n) < n + P
<1>1. n \div P \in Nat /\ n % P \in 0 .. P - 1 /\ n = P * (n \div P) + (n % P)
  BY PageSize
<1> DEFINE d == n \div P
           r == n % P
<1>2. d \in Nat /\ r \in 0 .. P - 1 /\ n = P * d + r
  BY <1>1
<1>3. pages_from_size(n) = d + (IF r = 0 THEN 0 ELSE 1) /\ pagesize_align(n) = P * pages_from_size(n)
  BY DEF pages_from_size, pagesize_align
<1> HIDE DEF d, r
<1>4. P * d \in Nat /\ P * (d + 1) = P * d + P /\ P * 0 = 0
  BY <1>2, PageOrder
<1>5. CASE r = 0
  <2>1. pages_from_size(n) = d /\ d # 0
    BY <1>2, <1>3, <1>4, <1>5
  <2> QED
    BY <2>1, <1>2, <1>3, <1>4, <1>5, PageSize
<1>6. CASE r # 0
  <2>1. pages_from_size(n) = d + 1
    BY <1>2, <1>3, <1>6
  <2> QED
    BY <2>1, <1>2, <1>3, <1>4, <1>6, PageSize
<1> QED
  BY <1>5, <1>6

\* The pages of a range that begins with a page.
LEMMA Run ==
    ASSUME NEW b \in Nat, NEW n \in Nat
    PROVE  /\ PageRun(P * b, n) = b .. b + n - 1
           /\ IsFiniteSet(PageRun(P * b, n)) /\ Cardinality(PageRun(P * b, n)) = n
           /\ \A q \in Int : q \in PageRun(P * b, n) <=> P * b <= P * q /\ P * q < P * b + P * n
           /\ PageRun(P * b, n) \subseteq Nat
<1>1. PageOf(P * b) = b
  BY WholePages
<1>2. PageRun(P * b, n) = b .. b + n - 1
  <2>1. PageRun(P * b, n) = {b + i : i \in 0 .. n - 1}
    BY <1>1 DEF PageRun
  <2>2. ASSUME NEW q \in b .. b + n - 1 PROVE \E i \in 0 .. n - 1 : q = b + i
    <3> WITNESS q - b \in 0 .. n - 1
    <3> QED
      OBVIOUS
  <2>3. \A i \in 0 .. n - 1 : b + i \in b .. b + n - 1
    OBVIOUS
  <2> QED
    BY <2>1, <2>2, <2>3
<1>3. IsFiniteSet(b .. b + n - 1) /\ Cardinality(b .. b + n - 1) = n
  BY FS_Interval
<1>4. ASSUME NEW q \in Int
      PROVE  q \in b .. b + n - 1 <=> P * b <= P * q /\ P * q < P * b + P * n
  <2>1. /\ b <= q <=> P * b <= P * q
        /\ q < b + n <=> P * q < P * (b + n)
        /\ P * (b + n) = P * b + P * n
    BY PageOrder
  <2> QED
    BY <2>1
<1> QED
  BY <1>2, <1>3, <1>4

--------------------------------------------------------------------------------
(***************************************************************************)
(* Heaps.                                                                  *)
(***************************************************************************)
RegionType == [base : Nat, size : Nat, guest : Nat, free : BOOLEAN]
MappingType == [host : Nat, addr : Nat, length : Nat, pages : Nat,
                prot : {"none", "r", "rw"}, reg : Nat]
PageTables == UNION {[D -> Nat] : D \in SUBSET Nat}

\* A heap on which no assertion has failed.
HeapType == [reg : Seq(RegionType), alloc : SUBSET Nat, lists : Seq(Nat), top : Nat, got : Nat,
             brk : Seq(MappingType), mm : Seq(MappingType), cap : Nat, pt : PageTables,
             curbrk : Nat, err : {"none"}]

Apart(x, y) == x.base + x.size <= y.base \/ y.base + y.size <= x.base

\* Regions are made of pages, lie below the top and do not meet; the free ones are
\* those that are not allocated, and a list has only free ones, and each once.
RegionsOK(g) ==
    /\ \A i \in DOMAIN g.reg :
         /\ Whole(g.reg[i].base) /\ Whole(g.reg[i].size) /\ g.reg[i].size > 0
         /\ P <= g.reg[i].base /\ g.reg[i].base + g.reg[i].size <= g.top
         /\ g.reg[i].free <=> i \notin g.alloc
    /\ \A i, j \in DOMAIN g.reg : i # j => Apart(g.reg[i], g.reg[j])
    /\ g.alloc \subseteq DOMAIN g.reg
    /\ Whole(g.top) /\ P <= g.top
    /\ \A k \in DOMAIN g.lists : g.lists[k] \in DOMAIN g.reg \ g.alloc
    /\ \A k, l \in DOMAIN g.lists : g.lists[k] = g.lists[l] => k = l

LEMMA LeastElement ==
    ASSUME NEW T, T \subseteq Nat, T # {}
    PROVE  \E x \in T : \A y \in T : x <= y
<1>1. PICK R : IsWellFoundedOn(R, Nat) /\ \A x, y \in Nat : y < x => <<y, x>> \in R
  <2>1. \A x, y \in Nat : y < x => <<y, x>> \in OpToRel(<, Nat)
    BY DEF OpToRel
  <2>2. \E R : IsWellFoundedOn(R, Nat) /\ \A x, y \in Nat : y < x => <<y, x>> \in R
    <3> WITNESS OpToRel(<, Nat)
    <3> QED
      BY <2>1, NatLessThanWellFounded
  <2> QED
    BY <2>2
<1>2. PICK x \in T : \A y \in T : ~(<<y, x>> \in R)
  BY <1>1, WFMin
<1>3. \A y \in T : y \in Nat /\ x \in Nat /\ ~(y < x)
  BY <1>1, <1>2
<1>4. \A y \in T : x <= y
  BY <1>3
<1> QED
  BY <1>4

LEMMA IndexOrder ==
    ASSUME NEW a \in Nat, NEW b \in Nat, a <= b
    PROVE  FreelistIdx(a) \in Nat /\ FreelistIdx(b) \in Nat /\ FreelistIdx(a) <= FreelistIdx(b)
<1> DEFINE A == {k \in {1, 2, 4, 8} : a > k * P}
           B == {k \in {1, 2, 4, 8} : b > k * P}
<1>1. A \subseteq B
  <2>1. 1 * P \in Int /\ 2 * P \in Int /\ 4 * P \in Int /\ 8 * P \in Int
    BY PageSize
  <2>2. \A c \in Int : a > c => b > c
    OBVIOUS
  <2> QED
    BY <2>1, <2>2
<1>2. B \subseteq 1 .. 8
  OBVIOUS
<1> HIDE DEF A, B
<1>3. IsFiniteSet(B)
  <2>1. PICK i \in Int, j \in Int : i = 1 /\ j = 8
    OBVIOUS
  <2>2. IsFiniteSet(i .. j)
    BY FS_Interval
  <2> QED
    BY <1>2, <2>1, <2>2, FS_Subset
<1>4. IsFiniteSet(A) /\ Cardinality(A) \in Nat /\ Cardinality(B) \in Nat
  BY <1>1, <1>3, FS_Subset, FS_CardinalityType
<1>5. Cardinality(A) <= Cardinality(B)
  BY <1>1, <1>3, FS_Subset
<1> QED
  BY <1>4, <1>5 DEF FreelistIdx, A, B

\* The search for a free region that fits ends at one of them.
LEMMA FirstFreeIn ==
    ASSUME NEW g \in HeapType, RegionsOK(g), NEW C, C \subseteq DOMAIN g.lists, C # {}
    PROVE  FirstFree(g, C) \in C
<1> DEFINE X(k) == FreelistIdx(g.reg[g.lists[k]].size)
<1>1. \A k \in C : X(k) \in Nat /\ k \in Nat
  <2>1. \A k \in C : g.reg[g.lists[k]].size \in Nat /\ k \in Nat
    <3>1. g.reg \in Seq(RegionType) /\ g.lists \in Seq(Nat)
      BY DEF HeapType
    <3>2. DOMAIN g.lists = 1 .. Len(g.lists) /\ \A i \in DOMAIN g.reg : g.reg[i] \in RegionType
      BY <3>1
    <3>3. \A k \in DOMAIN g.lists : g.lists[k] \in DOMAIN g.reg
      BY DEF RegionsOK
    <3> QED
      BY <3>2, <3>3 DEF RegionType
  <2> QED
    BY <2>1, IndexOrder
<1> HIDE DEF X
<1>2. PICK x \in {X(k) : k \in C} : \A y \in {X(k) : k \in C} : x <= y
  BY <1>1, LeastElement
<1>3. PICK k \in {j \in C : X(j) = x} : \A l \in {j \in C : X(j) = x} : k <= l
  <2>1. {j \in C : X(j) = x} # {} /\ {j \in C : X(j) = x} \subseteq Nat
    BY <1>1, <1>2
  <2> QED
    BY <2>1, LeastElement
<1>4. \A j \in C : X(k) < X(j) \/ (X(k) = X(j) /\ k <= j)
  BY <1>1, <1>2, <1>3
<1>5. FirstFree(g, C) = CHOOSE i \in C : \A j \in C : X(i) < X(j) \/ (X(i) = X(j) /\ i <= j)
  BY DEF FirstFree, X
<1> QED
  BY <1>3, <1>4, <1>5

\* A sequence with one more entry.
LEMMA Appended ==
    ASSUME NEW S, NEW s \in Seq(S), NEW e \in S
    PROVE  /\ Append(s, e) \in Seq(S) /\ Len(Append(s, e)) = Len(s) + 1 /\ Len(s) \in Nat
           /\ DOMAIN s = 1 .. Len(s)
           /\ DOMAIN Append(s, e) = DOMAIN s \cup {Len(s) + 1} /\ Len(s) + 1 \notin DOMAIN s
           /\ Append(s, e)[Len(s) + 1] = e /\ \A j \in DOMAIN s : Append(s, e)[j] = s[j]
OBVIOUS

Replaced(s, k, v) == [s EXCEPT ![k] = v]

LEMMA LastReplaced ==
    ASSUME NEW S, NEW s \in Seq(S), NEW e \in S, NEW f \in S
    PROVE  Replaced(Append(s, e), Len(s) + 1, f) = Append(s, f)
<1> DEFINE a == Append(s, e)
           t == [a EXCEPT ![Len(s) + 1] = f]
           c == Append(s, f)
<1>1. /\ Len(s) \in Nat /\ a \in Seq(S) /\ c \in Seq(S)
      /\ Len(a) = Len(s) + 1 /\ Len(c) = Len(s) + 1
  OBVIOUS
<1>2. \A j \in 1 .. Len(s) + 1 : a[j] = (IF j = Len(s) + 1 THEN e ELSE s[j])
                                 /\ c[j] = (IF j = Len(s) + 1 THEN f ELSE s[j])
  OBVIOUS
<1> HIDE DEF a, c
<1>3. /\ t \in Seq(S) /\ Len(t) = Len(s) + 1
      /\ \A j \in 1 .. Len(s) + 1 : t[j] = IF j = Len(s) + 1 THEN f ELSE a[j]
  BY ONLY <1>1, f \in S
<1> HIDE DEF t
<1>4. \A j \in 1 .. Len(s) + 1 : t[j] = c[j]
  BY ONLY <1>2, <1>3
<1>5. t = c
  BY ONLY <1>1, <1>3, <1>4, SeqEqual
<1> QED
  BY ONLY <1>5 DEF t, c, a, Replaced

\* What allocate_region may add to the top.
Growth(N) == IF N > ChunkSize THEN N ELSE ChunkSize

\* A free region of the given size that was put at the end of the list.
LEMMA ChunkAdded ==
    ASSUME NEW g \in HeapType, RegionsOK(g), NEW N \in Nat \ {0}, Whole(N),
           NEW x, x = add_chunk(g, N)
    PROVE  /\ x \in HeapType /\ RegionsOK(x)
           /\ find_free_region(x, N) # {}
           /\ x.alloc = g.alloc /\ x.err = g.err
           /\ x.brk = g.brk /\ x.mm = g.mm /\ x.cap = g.cap /\ x.pt = g.pt /\ x.curbrk = g.curbrk
           /\ x.top = g.top + Growth(N)
           /\ DOMAIN g.reg \subseteq DOMAIN x.reg
           /\ \A i \in DOMAIN g.reg : x.reg[i] = g.reg[i]
<1> DEFINE c == IF N > ChunkSize THEN pagesize_align(N) ELSE ChunkSize
           r == NewRegion(g.top, c)
<1>1. N \in Nat /\ N > 0 /\ pagesize_align(N) = N /\ ChunkSize \in Nat
  BY WholeAligned, HeapConstants
<1>2. c \in Nat /\ c >= N /\ c > 0 /\ Whole(c)
  <2>1. ChunkSize > 0 /\ Whole(ChunkSize)
    BY HeapConstants DEF Whole
  <2> QED
    BY <1>1, <2>1
<1>3. /\ g.reg \in Seq(RegionType) /\ g.lists \in Seq(Nat) /\ g.top \in Nat
  BY DEF HeapType
<1>4. r \in RegionType /\ r.base = g.top /\ r.size = c /\ r.free
  BY <1>2, <1>3 DEF NewRegion, RegionType
<1>5. /\ x = [g EXCEPT !.reg = Append(g.reg, r), !.lists = Append(g.lists, Len(g.reg) + 1),
                       !.top = g.top + c]
  BY DEF add_chunk
<1> HIDE DEF c, r
<1>6. /\ Append(g.reg, r) \in Seq(RegionType) /\ Append(g.lists, Len(g.reg) + 1) \in Seq(Nat)
      /\ g.top + c \in Nat
  BY <1>2, <1>3, <1>4
<1>7. x \in HeapType
  BY <1>5, <1>6 DEF HeapType
<1>8. /\ x.reg = Append(g.reg, r) /\ x.lists = Append(g.lists, Len(g.reg) + 1)
      /\ x.top = g.top + c /\ x.alloc = g.alloc
  BY <1>5 DEF HeapType
<1> DEFINE l == Len(g.reg) + 1
<1>9. /\ DOMAIN g.reg = 1 .. Len(g.reg) /\ DOMAIN x.reg = DOMAIN g.reg \cup {l}
      /\ l \notin DOMAIN g.reg /\ x.reg[l] = r /\ l \in Nat
      /\ \A i \in DOMAIN g.reg : x.reg[i] = g.reg[i] /\ g.reg[i] \in RegionType
  <2>1. \A i \in DOMAIN g.reg : g.reg[i] \in RegionType
    BY ONLY <1>3
  <2>2. Len(g.reg) \in Nat
    BY ONLY <1>3
  <2> QED
    BY ONLY <1>3, <1>4, <1>8, <2>1, <2>2, Appended
<1>10. /\ DOMAIN x.lists = DOMAIN g.lists \cup {Len(g.lists) + 1}
       /\ Len(g.lists) + 1 \notin DOMAIN g.lists /\ x.lists[Len(g.lists) + 1] = l
       /\ \A k \in DOMAIN g.lists : x.lists[k] = g.lists[k]
  BY ONLY <1>3, <1>8, <1>9, Appended
<1> HIDE DEF l
<1>11. /\ Whole(g.top) /\ g.alloc \subseteq DOMAIN g.reg
       /\ \A k \in DOMAIN g.lists : g.lists[k] \in DOMAIN g.reg \ g.alloc
       /\ P <= g.top
  BY DEF RegionsOK
<1>12. RegionsOK(x)
  <2>1. ASSUME NEW i \in DOMAIN x.reg
        PROVE  /\ Whole(x.reg[i].base) /\ Whole(x.reg[i].size) /\ x.reg[i].size > 0
               /\ P <= x.reg[i].base /\ x.reg[i].base + x.reg[i].size <= x.top
               /\ x.reg[i].free <=> i \notin x.alloc
    <3>1. CASE i = l
      BY <3>1, <1>2, <1>3, <1>4, <1>8, <1>9, <1>11
    <3>2. CASE i # l
      <4>1. i \in DOMAIN g.reg /\ x.reg[i] = g.reg[i] /\ g.reg[i] \in RegionType
        BY <3>2, <1>9
      <4>2. g.reg[i].base \in Nat /\ g.reg[i].size \in Nat
        BY <4>1 DEF RegionType
      <4>3. g.reg[i].base + g.reg[i].size <= g.top
        BY <4>1 DEF RegionsOK
      <4>4. x.reg[i].base + x.reg[i].size <= x.top
        <5>1. c \in Nat /\ x.top = g.top + c /\ g.top \in Nat
          BY ONLY <1>2, <1>3, <1>8
        <5> QED
          BY ONLY <4>1, <4>2, <4>3, <5>1
      <4>5. /\ Whole(g.reg[i].base) /\ Whole(g.reg[i].size) /\ g.reg[i].size > 0
            /\ P <= g.reg[i].base /\ (g.reg[i].free <=> i \notin g.alloc)
        BY <4>1 DEF RegionsOK
      <4> QED
        BY <4>1, <4>4, <4>5, <1>8
    <3> QED
      BY <3>1, <3>2
  <2>2. ASSUME NEW i \in DOMAIN x.reg, NEW j \in DOMAIN x.reg, i # j
        PROVE  Apart(x.reg[i], x.reg[j])
    BY <2>2, <1>3, <1>4, <1>9 DEF Apart, RegionsOK
  <2>3. Whole(x.top)
    <3>1. PICK a \in Nat, b \in Nat : g.top = P * a /\ c = P * b
      BY <1>2, <1>11 DEF Whole
    <3>2. x.top = P * (a + b)
      BY <1>8, <3>1, PageOrder
    <3> QED
      BY <3>2 DEF Whole
  <2>4. P <= x.top
    BY PageSize, <1>2, <1>3, <1>8, <1>11
  <2>5. \A k \in DOMAIN x.lists : x.lists[k] \in DOMAIN x.reg \ x.alloc
    BY <1>8, <1>9, <1>10, <1>11
  <2>6. \A k, j \in DOMAIN x.lists : x.lists[k] = x.lists[j] => k = j
    <3>1. \A k, j \in DOMAIN g.lists : g.lists[k] = g.lists[j] => k = j
      BY DEF RegionsOK
    <3> QED
      BY <3>1, <1>9, <1>10, <1>11
  <2>7. x.alloc \subseteq DOMAIN x.reg
    BY <1>8, <1>9, <1>11
  <2> QED
    BY <2>1, <2>2, <2>3, <2>4, <2>5, <2>6, <2>7 DEF RegionsOK
<1>13. find_free_region(x, N) # {}
  <2>1. FreelistIdx(c) >= FreelistIdx(N)
    BY <1>1, <1>2, IndexOrder
  <2>2. Len(g.lists) + 1 \in find_free_region(x, N)
    BY <1>2, <1>4, <1>9, <1>10, <2>1 DEF find_free_region
  <2> QED
    BY <2>2
<1> QED
  BY <1>1, <1>5, <1>7, <1>8, <1>9, <1>12, <1>13 DEF c, HeapType, Growth

\* A sequence without one of its entries.
LEMMA Removed ==
    ASSUME NEW S, NEW s \in Seq(S), NEW k \in DOMAIN s
    PROVE  /\ RemoveAt(s, k) \in Seq(S)
           /\ DOMAIN RemoveAt(s, k) = 1 .. Len(s) - 1
           /\ \A j \in 1 .. Len(s) - 1 : RemoveAt(s, k)[j] = s[IF j < k THEN j ELSE j + 1]
<1> DEFINE a == SubSeq(s, 1, k - 1)
           b == SubSeq(s, k + 1, Len(s))
<1>1. k \in 1 .. Len(s) /\ Len(s) \in Nat
  OBVIOUS
<1>2. /\ a \in Seq(S) /\ Len(a) = k - 1 /\ \A j \in 1 .. k - 1 : a[j] = s[j]
  BY <1>1
<1>3. /\ b \in Seq(S) /\ Len(b) = Len(s) - k /\ \A j \in 1 .. Len(s) - k : b[j] = s[k + j]
  BY <1>1
<1> HIDE DEF a, b
<1>4. /\ a \o b \in Seq(S) /\ Len(a \o b) = Len(a) + Len(b)
      /\ \A j \in 1 .. Len(a) + Len(b) : (a \o b)[j] = IF j <= Len(a) THEN a[j] ELSE b[j - Len(a)]
  BY <1>2, <1>3
<1>5. ASSUME NEW j \in 1 .. Len(s) - 1 PROVE (a \o b)[j] = s[IF j < k THEN j ELSE j + 1]
  <2>1. CASE j < k
    BY <1>1, <1>2, <1>3, <1>4, <2>1
  <2>2. CASE ~(j < k)
    <3>0. j \in 1 .. Len(a) + Len(b) /\ ~(j <= Len(a)) /\ j - (k - 1) \in 1 .. Len(s) - k
      BY <1>1, <1>2, <1>3, <2>2
    <3>1. (a \o b)[j] = b[j - (k - 1)] /\ j - (k - 1) \in 1 .. Len(s) - k
      BY <1>2, <1>4, <3>0
    <3>2. k + (j - (k - 1)) = j + 1
      BY <1>1
    <3> QED
      BY <1>3, <2>2, <3>1, <3>2
  <2> QED
    BY <2>1, <2>2
<1>6. Len(a \o b) = Len(s) - 1 /\ DOMAIN (a \o b) = 1 .. Len(s) - 1
  BY <1>1, <1>2, <1>3, <1>4
<1> QED
  BY <1>4, <1>5, <1>6 DEF RemoveAt, a, b

\* The same, for the entries: those of the other places, in their order.
LEMMA RemovedEntries ==
    ASSUME NEW S, NEW s \in Seq(S), NEW k \in DOMAIN s
    PROVE  /\ \A j \in DOMAIN RemoveAt(s, k) : \E l \in DOMAIN s : l # k /\ RemoveAt(s, k)[j] = s[l]
           /\ \A l \in DOMAIN s : l # k => \E j \in DOMAIN RemoveAt(s, k) : RemoveAt(s, k)[j] = s[l]
           /\ \A i, j \in DOMAIN RemoveAt(s, k) : i # j =>
                \E l, o \in DOMAIN s : /\ l # o /\ RemoveAt(s, k)[i] = s[l]
                                       /\ RemoveAt(s, k)[j] = s[o]
<1> DEFINE t == RemoveAt(s, k)
           At(j) == IF j < k THEN j ELSE j + 1
<1>1. /\ DOMAIN t = 1 .. Len(s) - 1 /\ \A j \in 1 .. Len(s) - 1 : t[j] = s[At(j)]
      /\ DOMAIN s = 1 .. Len(s) /\ Len(s) \in Nat /\ k \in 1 .. Len(s)
  BY Removed
<1> HIDE DEF t
<1>2. ASSUME NEW j \in DOMAIN t PROVE At(j) \in DOMAIN s /\ At(j) # k /\ t[j] = s[At(j)]
  BY <1>1
<1>3. ASSUME NEW l \in DOMAIN s, l # k PROVE \E j \in DOMAIN t : t[j] = s[l]
  <2>1. CASE l < k
    <3>1. l \in DOMAIN t /\ At(l) = l
      BY <1>1, <1>3, <2>1
    <3> QED
      BY <1>1, <3>1
  <2>2. CASE ~(l < k)
    <3>1. l - 1 \in DOMAIN t /\ At(l - 1) = l
      BY <1>1, <1>3, <2>2
    <3> QED
      BY <1>1, <3>1
  <2> QED
    BY <2>1, <2>2
<1>4. ASSUME NEW i \in DOMAIN t, NEW j \in DOMAIN t, i # j PROVE At(i) # At(j)
  BY <1>1, <1>4
<1> HIDE DEF At
<1> QED
  BY <1>2, <1>3, <1>4 DEF t

\* A region is taken from the list: the front part of a larger one, or all of it.
TakesPart(g, x, k, N) ==
    LET i == g.lists[k] IN
    /\ g.reg[i].size > N
    /\ x.got = Len(g.reg) + 1
    /\ x.lists = Append(RemoveAt(g.lists, k), i)
    /\ x.alloc = g.alloc \cup {x.got}
    /\ DOMAIN x.reg = DOMAIN g.reg \cup {x.got}
    /\ \A j \in DOMAIN g.reg : j # i => x.reg[j] = g.reg[j]
    /\ x.reg[i].base = g.reg[i].base + N /\ x.reg[i].size = g.reg[i].size - N
    /\ x.reg[i].free
    /\ x.reg[x.got].base = g.reg[i].base /\ x.reg[x.got].size = N
    /\ ~x.reg[x.got].free
TakesAll(g, x, k, N) ==
    LET i == g.lists[k] IN
    /\ ~(g.reg[i].size > N)
    /\ x.got = i
    /\ x.lists = RemoveAt(g.lists, k)
    /\ x.alloc = g.alloc \cup {i}
    /\ DOMAIN x.reg = DOMAIN g.reg
    /\ \A j \in DOMAIN g.reg : j # i => x.reg[j] = g.reg[j]
    /\ x.reg[i].base = g.reg[i].base /\ x.reg[i].size = g.reg[i].size
    /\ ~x.reg[i].free

LEMMA RegionTaken ==
    ASSUME NEW g \in HeapType, RegionsOK(g), NEW N \in Nat \ {0}, Whole(N),
           NEW k \in find_free_region(g, N),
           NEW x \in HeapType, x.top = g.top,
           TakesPart(g, x, k, N) \/ TakesAll(g, x, k, N)
    PROVE  /\ RegionsOK(x)
           /\ x.got \in x.alloc \ g.alloc /\ x.alloc = g.alloc \cup {x.got}
           /\ x.reg[x.got].size = N
           /\ \A j \in g.alloc : x.reg[j] = g.reg[j]
<1> DEFINE i == g.lists[k]
           l == Len(g.reg) + 1
           t == RemoveAt(g.lists, k)
           b == g.reg[i].base
           z == g.reg[i].size
<1>0. N \in Nat /\ N > 0
  OBVIOUS
<1>1. k \in DOMAIN g.lists /\ z >= N
  BY DEF find_free_region
<1>2. i \in DOMAIN g.reg /\ i \notin g.alloc /\ g.alloc \subseteq DOMAIN g.reg
  BY <1>1 DEF RegionsOK
<1>3. /\ g.reg \in Seq(RegionType) /\ g.lists \in Seq(Nat) /\ x.reg \in Seq(RegionType)
      /\ g.top \in Nat
  BY DEF HeapType
<1>4. /\ DOMAIN g.reg = 1 .. Len(g.reg) /\ l \notin DOMAIN g.reg
      /\ \A j \in DOMAIN g.reg : g.reg[j].base \in Nat /\ g.reg[j].size \in Nat
  <2>1. DOMAIN g.reg = 1 .. Len(g.reg) /\ Len(g.reg) \in Nat
        /\ \A j \in DOMAIN g.reg : g.reg[j] \in RegionType
    BY <1>3
  <2> QED
    BY <2>1 DEF RegionType
<1>5. /\ t \in Seq(Nat)
      /\ \A j \in DOMAIN t : t[j] \in DOMAIN g.reg \ g.alloc /\ t[j] # i
      /\ \A j, o \in DOMAIN t : t[j] = t[o] => j = o
  <2> HIDE DEF l, b, z
  <2>0. t \in Seq(Nat)
    BY <1>1, <1>3, Removed
  <2>1. /\ \A j \in DOMAIN t : \E o \in DOMAIN g.lists : o # k /\ t[j] = g.lists[o]
        /\ \A j, o \in DOMAIN t : j # o =>
             \E c, d \in DOMAIN g.lists : c # d /\ t[j] = g.lists[c] /\ t[o] = g.lists[d]
    BY ONLY <1>1, <1>3, RemovedEntries DEF t
  <2> HIDE DEF t
  <2>2. /\ \A o \in DOMAIN g.lists : g.lists[o] \in DOMAIN g.reg \ g.alloc
        /\ \A c, d \in DOMAIN g.lists : g.lists[c] = g.lists[d] => c = d
    BY DEF RegionsOK
  <2> QED
    BY <2>0, <2>1, <2>2, <1>1
<1>6. /\ Whole(b) /\ Whole(z) /\ P <= b
      /\ b + z <= g.top /\ b \in Nat /\ z \in Nat
      /\ Whole(N) /\ Whole(b + N)
      /\ z > N => Whole(z - N)
  <2>0. /\ Whole(b) /\ Whole(z) /\ P <= b /\ b + z <= g.top
    BY <1>2 DEF RegionsOK
  <2>1. PICK c \in Nat, d \in Nat, n \in Nat : b = P * c /\ z = P * d /\ N = P * n
    BY <2>0 DEF Whole
  <2>2. /\ P * c + P * n = P * (c + n) /\ P * d - P * n = P * (d - n)
        /\ (P * d > P * n => d - n \in Nat)
    <3>1. n \in Int /\ d \in Int /\ c \in Int
      OBVIOUS
    <3>2. P * (c + n) = P * c + P * n /\ P * (d - n) = P * d - P * n /\ (n < d <=> P * n < P * d)
      BY <3>1, PageOrder
    <3>3. P * n \in Int /\ P * d \in Int
      BY PageSize
    <3> QED
      BY <3>2, <3>3
  <2> HIDE DEF b, z
  <2>3. Whole(N) /\ Whole(b + N)
    BY <2>1, <2>2 DEF Whole
  <2>4. z > N => Whole(z - N)
    BY <2>1, <2>2 DEF Whole
  <2> QED
    BY <1>2, <1>4, <2>0, <2>3, <2>4 DEF b, z
<1>7. CASE TakesPart(g, x, k, N)
  <2>0. /\ z > N /\ x.got = l /\ x.lists = Append(t, i) /\ x.alloc = g.alloc \cup {l}
        /\ DOMAIN x.reg = DOMAIN g.reg \cup {l}
        /\ \A j \in DOMAIN g.reg : j # i => x.reg[j] = g.reg[j]
        /\ x.reg[i].base = b + N /\ x.reg[i].size = z - N /\ x.reg[i].free
        /\ x.reg[l].base = b /\ x.reg[l].size = N /\ ~x.reg[l].free
    BY <1>7 DEF TakesPart
  <2> HIDE DEF i, t, b, z, l
  <2>1. ASSUME NEW j \in DOMAIN x.reg
        PROVE  /\ Whole(x.reg[j].base) /\ Whole(x.reg[j].size) /\ x.reg[j].size > 0
               /\ P <= x.reg[j].base /\ x.reg[j].base + x.reg[j].size <= x.top
               /\ x.reg[j].free <=> j \notin x.alloc
    <3>1. CASE j = l
      <4>1. x.reg[l].size > 0 /\ P <= x.reg[l].base /\ x.reg[l].base + x.reg[l].size <= x.top
        BY <1>0, <1>3, <1>6, <2>0, PageSize
      <4>2. l \in x.alloc
        BY <2>0
      <4> QED
        BY <3>1, <4>1, <4>2, <1>6, <2>0
    <3>2. CASE j = i
      <4>1. x.reg[i].size > 0 /\ P <= x.reg[i].base /\ x.reg[i].base + x.reg[i].size <= x.top
        BY <1>0, <1>3, <1>6, <2>0, PageSize
      <4>2. i \notin x.alloc
        BY <1>2, <1>4, <2>0
      <4> QED
        BY <3>2, <4>1, <4>2, <1>6, <2>0
    <3>3. CASE j # l /\ j # i
      <4>1. j \in DOMAIN g.reg /\ x.reg[j] = g.reg[j] /\ (j \in x.alloc <=> j \in g.alloc)
        BY <3>3, <2>0
      <4> QED
        BY <4>1 DEF RegionsOK
    <3> QED
      BY <3>1, <3>2, <3>3
  <2>2. ASSUME NEW j \in DOMAIN x.reg, NEW o \in DOMAIN x.reg, j # o
        PROVE  Apart(x.reg[j], x.reg[o])
    <3>1. ASSUME NEW v \in DOMAIN g.reg, v # i
          PROVE  /\ x.reg[v] = g.reg[v]
                 /\ Apart(x.reg[v], x.reg[i]) /\ Apart(x.reg[i], x.reg[v])
                 /\ Apart(x.reg[v], x.reg[l]) /\ Apart(x.reg[l], x.reg[v])
      <4>1. Apart(g.reg[v], g.reg[i]) /\ x.reg[v] = g.reg[v]
        BY <3>1, <1>2, <2>0 DEF RegionsOK
      <4>2. Apart(g.reg[v], g.reg[i]) <=> \/ g.reg[v].base + g.reg[v].size <= b
                                         \/ b + z <= g.reg[v].base
        BY DEF Apart, b, z
      <4>3. g.reg[v].base \in Nat /\ g.reg[v].size \in Nat
        BY <1>4
      <4> QED
        BY <4>1, <4>2, <4>3, <1>0, <1>6, <2>0 DEF Apart
    <3>2. Apart(x.reg[i], x.reg[l]) /\ Apart(x.reg[l], x.reg[i])
      BY <1>0, <1>6, <2>0 DEF Apart
    <3>3. \A v, w \in DOMAIN g.reg : v # w => Apart(g.reg[v], g.reg[w])
      BY DEF RegionsOK
    <3>4. j \in DOMAIN g.reg \cup {l} /\ o \in DOMAIN g.reg \cup {l}
      BY <2>0
    <3> QED
      BY <2>2, <3>1, <3>2, <3>3, <3>4
  <2>3. /\ \A j \in DOMAIN x.lists : x.lists[j] \in DOMAIN x.reg \ x.alloc
        /\ \A j, o \in DOMAIN x.lists : x.lists[j] = x.lists[o] => j = o
    <3>1. /\ DOMAIN x.lists = DOMAIN t \cup {Len(t) + 1} /\ Len(t) + 1 \notin DOMAIN t
          /\ x.lists[Len(t) + 1] = i /\ \A j \in DOMAIN t : x.lists[j] = t[j]
      BY <1>5, <2>0
    <3> QED
      BY <3>1, <1>2, <1>4, <1>5, <2>0
  <2>4. Whole(x.top) /\ P <= x.top /\ x.alloc \subseteq DOMAIN x.reg
    BY <1>2, <2>0 DEF RegionsOK
  <2>5. RegionsOK(x)
    BY <2>1, <2>2, <2>3, <2>4 DEF RegionsOK
  <2>6. l \notin g.alloc /\ \A j \in g.alloc : x.reg[j] = g.reg[j]
    BY <1>2, <1>4, <2>0
  <2> QED
    BY <2>5, <2>6, <2>0
<1>8. CASE TakesAll(g, x, k, N)
  <2>0. /\ ~(z > N) /\ x.got = i /\ x.lists = t /\ x.alloc = g.alloc \cup {i}
        /\ DOMAIN x.reg = DOMAIN g.reg
        /\ \A j \in DOMAIN g.reg : j # i => x.reg[j] = g.reg[j]
        /\ x.reg[i].base = b /\ x.reg[i].size = z /\ ~x.reg[i].free
        /\ b = g.reg[i].base /\ z = g.reg[i].size
    BY <1>8 DEF TakesAll
  <2> HIDE DEF i, t, b, z, l
  <2>9. z = N
    BY <1>0, <1>1, <1>6, <2>0
  <2>1. ASSUME NEW j \in DOMAIN x.reg
        PROVE  /\ Whole(x.reg[j].base) /\ Whole(x.reg[j].size) /\ x.reg[j].size > 0
               /\ P <= x.reg[j].base /\ x.reg[j].base + x.reg[j].size <= x.top
               /\ x.reg[j].free <=> j \notin x.alloc
    <3>1. CASE j = i
      BY <3>1, <2>0, <2>9, <1>0, <1>6
    <3>2. CASE j # i
      <4>1. j \in DOMAIN g.reg /\ x.reg[j] = g.reg[j] /\ (j \in x.alloc <=> j \in g.alloc)
        BY <3>2, <2>0
      <4> QED
        BY <4>1 DEF RegionsOK
    <3> QED
      BY <3>1, <3>2
  <2>2. ASSUME NEW j \in DOMAIN x.reg, NEW o \in DOMAIN x.reg, j # o
        PROVE  Apart(x.reg[j], x.reg[o])
    <3>1. Apart(g.reg[j], g.reg[o])
      BY <2>2, <2>0 DEF RegionsOK
    <3>2. /\ x.reg[j].base = g.reg[j].base /\ x.reg[j].size = g.reg[j].size
          /\ x.reg[o].base = g.reg[o].base /\ x.reg[o].size = g.reg[o].size
      BY <2>0
    <3> QED
      BY <3>1, <3>2 DEF Apart
  <2>3. /\ \A j \in DOMAIN x.lists : x.lists[j] \in DOMAIN x.reg \ x.alloc
        /\ \A j, o \in DOMAIN x.lists : x.lists[j] = x.lists[o] => j = o
    BY <1>5, <2>0
  <2>4. Whole(x.top) /\ P <= x.top /\ x.alloc \subseteq DOMAIN x.reg
    BY <1>2, <2>0 DEF RegionsOK
  <2>5. RegionsOK(x)
    BY <2>1, <2>2, <2>3, <2>4 DEF RegionsOK
  <2> QED
    BY <2>0, <2>5, <2>9, <1>2
<1> QED
  BY <1>7, <1>8 DEF i, t

\* Everything but regions, lists and top, which allocation leaves alone.
SameMappings(x, g) ==
    x.brk = g.brk /\ x.mm = g.mm /\ x.cap = g.cap /\ x.pt = g.pt /\ x.curbrk = g.curbrk

\* use_region of a free region.
LEMMA Used ==
    ASSUME NEW g \in HeapType, NEW i \in DOMAIN g.reg, g.reg[i].free,
           NEW x, x = use_region(g, i)
    PROVE  /\ x \in HeapType /\ x.err = g.err /\ SameMappings(x, g)
           /\ x.lists = g.lists /\ x.top = g.top /\ x.got = g.got
           /\ x.alloc = g.alloc \cup {i} /\ DOMAIN x.reg = DOMAIN g.reg
           /\ \A j \in DOMAIN g.reg : j # i => x.reg[j] = g.reg[j]
           /\ x.reg[i].base = g.reg[i].base /\ x.reg[i].size = g.reg[i].size /\ ~x.reg[i].free
<1>1. g.reg \in Seq(RegionType) /\ g.alloc \in SUBSET Nat /\ i \in Nat
  BY DEF HeapType
<1>2. g.reg[i] \in RegionType
  BY ONLY <1>1, i \in DOMAIN g.reg
<1> DEFINE v == [g.reg[i] EXCEPT !.free = FALSE]
           R == [g.reg EXCEPT ![i] = v]
<1>3. v \in RegionType /\ v.base = g.reg[i].base /\ v.size = g.reg[i].size /\ ~v.free
  BY <1>2 DEF RegionType
<1>4. x = [g EXCEPT !.reg = R, !.alloc = g.alloc \cup {i}]
  BY DEF use_region, Check, HeapType
<1> HIDE DEF v
<1>5. R \in Seq(RegionType) /\ DOMAIN R = DOMAIN g.reg
  BY ONLY <1>1, <1>3, i \in DOMAIN g.reg
<1>6. R[i] = v /\ \A j \in DOMAIN g.reg : j # i => R[j] = g.reg[j]
  BY ONLY <1>1, i \in DOMAIN g.reg
<1> HIDE DEF R
<1>7. x \in HeapType /\ x.reg = R /\ x.alloc = g.alloc \cup {i}
  <2>1. g.alloc \cup {i} \in SUBSET Nat
    BY ONLY <1>1
  <2> QED
    BY <2>1, <1>4, <1>5 DEF HeapType
<1>8. /\ x.err = g.err /\ SameMappings(x, g)
      /\ x.lists = g.lists /\ x.top = g.top /\ x.got = g.got
  BY <1>4 DEF HeapType, SameMappings
<1> QED
  BY ONLY <1>3, <1>5, <1>6, <1>7, <1>8, i \in DOMAIN g.reg

\* allocate_region: the region it got is new, has the size asked for and meets no
\* other, and the regions in use are as before.
LEMMA Allocated ==
    ASSUME NEW f \in HeapType, RegionsOK(f), f.err = "none", NEW N \in Nat \ {0}, Whole(N),
           NEW x, x = allocate_region(f, N)
    PROVE  /\ x \in HeapType /\ RegionsOK(x) /\ x.err = "none"
           /\ x.got \in x.alloc \ f.alloc /\ x.alloc = f.alloc \cup {x.got}
           /\ x.reg[x.got].size = N
           /\ \A j \in f.alloc : x.reg[j] = f.reg[j]
           /\ x.top <= f.top + Growth(N)
           /\ SameMappings(x, f)
<1> DEFINE g == IF find_free_region(f, N) = {} THEN add_chunk(f, N) ELSE f
           k == FirstFree(g, find_free_region(g, N))
           i == g.lists[k]
           l == Len(g.reg) + 1
           taken == [g EXCEPT !.lists = RemoveAt(@, k)]
           cut == CutFront(taken, i, N)
           put == add_free_region(cut, i)
<1>0. N \in Nat /\ N > 0 /\ pagesize_align(N) = N
  BY WholeAligned
<1>1. /\ g \in HeapType /\ RegionsOK(g) /\ find_free_region(g, N) # {} /\ g.err = "none"
      /\ g.alloc = f.alloc /\ \A j \in f.alloc : g.reg[j] = f.reg[j]
      /\ g.top <= f.top + Growth(N)
      /\ SameMappings(g, f)
  <2>1. f.alloc \subseteq DOMAIN f.reg /\ f.top \in Nat /\ Growth(N) \in Nat
    BY <1>0, HeapConstants DEF RegionsOK, HeapType, Growth
  <2>2. CASE find_free_region(f, N) = {}
    <3>0. g = add_chunk(f, N)
      BY <2>2
    <3> HIDE DEF g
    <3>1. /\ g \in HeapType /\ RegionsOK(g)
          /\ find_free_region(g, N) # {}
          /\ g.err = "none" /\ g.alloc = f.alloc
          /\ SameMappings(g, f)
          /\ g.top = f.top + Growth(N)
          /\ \A j \in DOMAIN f.reg : g.reg[j] = f.reg[j]
      BY <3>0, ChunkAdded DEF SameMappings
    <3> QED
      BY <2>1, <3>1
  <2>3. CASE find_free_region(f, N) # {}
    <3>1. g = f
      BY <2>3
    <3> HIDE DEF g
    <3>2. f.top <= f.top + Growth(N)
      BY <2>1
    <3> QED
      BY <2>3, <3>1, <3>2 DEF SameMappings
  <2> QED
    BY <2>2, <2>3
<1> HIDE DEF g
<1>2. k \in find_free_region(g, N)
  BY <1>1, FirstFreeIn DEF find_free_region
<1>3. k \in DOMAIN g.lists /\ i \in DOMAIN g.reg \ g.alloc /\ g.reg[i].free /\ g.reg[i].size >= N
  BY <1>1, <1>2 DEF RegionsOK, find_free_region
<1> HIDE DEF k, i
<1>4. /\ g.reg \in Seq(RegionType) /\ g.lists \in Seq(Nat) /\ i \in Nat
  <2>1. g.reg \in Seq(RegionType) /\ g.lists \in Seq(Nat)
    BY <1>1 DEF HeapType
  <2> QED
    BY ONLY <1>3, <2>1
<1>5. taken \in HeapType /\ taken = [g EXCEPT !.lists = RemoveAt(g.lists, k)]
  <2>1. RemoveAt(g.lists, k) \in Seq(Nat)
    BY <1>3, <1>4, Removed
  <2> QED
    BY <1>1, <2>1 DEF HeapType
<1>6. CASE g.reg[i].size > N
  <2> DEFINE new == NewRegion(g.reg[i].base, N)
             v == [g.reg[i] EXCEPT !.base = @ + N, !.size = @ - N, !.guest = IF @ = 0 THEN 0 ELSE @ + N]
             R == [g.reg EXCEPT ![i] = v]
  <2>0. g.reg[i] \in RegionType
    BY ONLY <1>3, <1>4
  <2>1. /\ R \in Seq(RegionType) /\ Len(R) = Len(g.reg) /\ DOMAIN R = DOMAIN g.reg
        /\ \A j \in DOMAIN g.reg : j # i => R[j] = g.reg[j]
        /\ R[i].base = g.reg[i].base + N /\ R[i].size = g.reg[i].size - N /\ R[i].free
    <3>1. g.reg[i].base + N \in Nat /\ g.reg[i].size - N \in Nat
          /\ (IF g.reg[i].guest = 0 THEN 0 ELSE g.reg[i].guest + N) \in Nat
      BY <1>0, <1>6, <2>0 DEF RegionType
    <3>2. /\ v \in RegionType /\ v.base = g.reg[i].base + N /\ v.size = g.reg[i].size - N
          /\ v.free = g.reg[i].free
      BY <2>0, <3>1 DEF RegionType
    <3> HIDE DEF v
    <3>3. R \in Seq(RegionType) /\ Len(R) = Len(g.reg) /\ DOMAIN R = DOMAIN g.reg
      BY ONLY <1>3, <1>4, <3>2
    <3>4. R[i] = v /\ \A j \in DOMAIN g.reg : j # i => R[j] = g.reg[j]
      BY ONLY <1>3, <1>4
    <3> HIDE DEF R
    <3> QED
      BY ONLY <1>3, <3>2, <3>3, <3>4
  <2>2. new \in RegionType /\ new.base = g.reg[i].base /\ new.size = N /\ new.free
    BY <1>0, <2>0 DEF NewRegion, RegionType
  <2>3. x = [use_region(put, l) EXCEPT !.got = l]
    BY <1>0, <1>6 DEF allocate_region, g, k, i
  <2>4. cut = [taken EXCEPT !.reg = Append(R, new)]
    <3>1. taken.reg = g.reg
      BY <1>1 DEF HeapType
    <3> HIDE DEF taken
    <3> QED
      BY ONLY <3>1 DEF CutFront
  <2> HIDE DEF R, new, cut, taken
  <2>5. Append(R, new) \in Seq(RegionType) /\ l \in Nat /\ l \in DOMAIN Append(R, new)
        /\ Append(R, new)[l] = new /\ DOMAIN Append(R, new) = DOMAIN g.reg \cup {l}
        /\ \A j \in DOMAIN g.reg : Append(R, new)[j] = R[j]
    BY ONLY <2>1, <2>2, Appended
  <2>6. cut \in HeapType /\ cut.reg = Append(R, new) /\ cut.lists = RemoveAt(g.lists, k)
    BY <1>5, <2>4, <2>5 DEF HeapType
  <2>7. put = [cut EXCEPT !.lists = Append(RemoveAt(g.lists, k), i)]
    BY <2>6 DEF add_free_region
  <2>8. Append(RemoveAt(g.lists, k), i) \in Seq(Nat)
    BY <1>3, <1>4, Removed
  <2> HIDE DEF put, l
  <2>9. /\ put \in HeapType /\ put.lists = Append(RemoveAt(g.lists, k), i)
        /\ put.reg = Append(R, new) /\ put.alloc = g.alloc /\ put.top = g.top
        /\ put.err = "none" /\ SameMappings(put, g)
    BY <1>1, <1>5, <2>4, <2>5, <2>6, <2>7, <2>8 DEF HeapType, SameMappings
  <2> DEFINE u == use_region(put, l)
  <2>u. u = use_region(put, l) /\ l \in DOMAIN put.reg /\ put.reg[l].free
    BY <2>2, <2>5, <2>9
  <2> HIDE DEF u
  <2>10. /\ u \in HeapType /\ u.err = "none" /\ SameMappings(u, put)
         /\ u.lists = put.lists /\ u.top = put.top
         /\ u.alloc = put.alloc \cup {l} /\ DOMAIN u.reg = DOMAIN put.reg
         /\ \A j \in DOMAIN put.reg : j # l => u.reg[j] = put.reg[j]
         /\ u.reg[l].base = put.reg[l].base /\ u.reg[l].size = put.reg[l].size /\ ~u.reg[l].free
    BY ONLY <2>9, <2>u, Used
  <2>11. /\ x \in HeapType /\ x.err = "none" /\ SameMappings(x, u) /\ x.got = l
         /\ x.lists = u.lists /\ x.top = u.top /\ x.alloc = u.alloc /\ x.reg = u.reg
    BY <2>3, <2>5, <2>u, <2>10 DEF HeapType, SameMappings
  <2>12. l \notin DOMAIN g.reg /\ i # l
    BY <1>3, <1>4 DEF l
  <2>13. TakesPart(g, x, k, N)
    BY <1>3, <1>6, <2>1, <2>2, <2>5, <2>9, <2>10, <2>11, <2>12 DEF TakesPart, i, l
  <2>14. SameMappings(x, f) /\ x.top = g.top
    BY <1>1, <2>9, <2>10, <2>11 DEF SameMappings
  <2> QED
    BY <1>1, <1>2, <2>11, <2>13, <2>14, RegionTaken
<1>7. CASE ~(g.reg[i].size > N)
  <2> DEFINE u == use_region(taken, i)
  <2>1. x = [u EXCEPT !.got = i]
    BY <1>0, <1>7 DEF allocate_region, g, k, i
  <2>2. /\ taken.lists = RemoveAt(g.lists, k) /\ taken.reg = g.reg /\ taken.alloc = g.alloc
        /\ taken.top = g.top /\ taken.err = "none" /\ SameMappings(taken, g)
    BY <1>1, <1>5 DEF HeapType, SameMappings
  <2> HIDE DEF taken
  <2>u. u = use_region(taken, i) /\ i \in DOMAIN taken.reg /\ taken.reg[i].free
    BY <1>3, <2>2
  <2> HIDE DEF u
  <2>3. /\ u \in HeapType /\ u.err = "none" /\ SameMappings(u, taken)
        /\ u.lists = taken.lists /\ u.top = taken.top
        /\ u.alloc = taken.alloc \cup {i} /\ DOMAIN u.reg = DOMAIN taken.reg
        /\ \A j \in DOMAIN taken.reg : j # i => u.reg[j] = taken.reg[j]
        /\ u.reg[i].base = taken.reg[i].base /\ u.reg[i].size = taken.reg[i].size /\ ~u.reg[i].free
    <3>1. taken \in HeapType /\ taken.err = "none"
      BY <1>5, <2>2
    <3> QED
      BY ONLY <2>u, <3>1, Used
  <2>4. /\ x \in HeapType /\ x.err = "none" /\ SameMappings(x, u) /\ x.got = i
        /\ x.lists = u.lists /\ x.top = u.top /\ x.alloc = u.alloc /\ x.reg = u.reg
    BY <1>4, <2>1, <2>u, <2>3 DEF HeapType, SameMappings
  <2>5. TakesAll(g, x, k, N)
    BY <1>7, <2>2, <2>3, <2>4 DEF TakesAll, i
  <2>6. SameMappings(x, f) /\ x.top = g.top
    BY <1>1, <2>2, <2>3, <2>4 DEF SameMappings
  <2> QED
    BY <1>1, <1>2, <2>4, <2>5, <2>6, RegionTaken
<1> QED
  BY <1>6, <1>7

--------------------------------------------------------------------------------
(***************************************************************************)
(* Mappings.                                                               *)
(***************************************************************************)
\* Regions that differ at most in their guest addresses.
SameRegions(y, x) ==
    /\ DOMAIN y.reg = DOMAIN x.reg /\ y.alloc = x.alloc /\ y.lists = x.lists /\ y.top = x.top
    /\ \A i \in DOMAIN x.reg : /\ y.reg[i].base = x.reg[i].base /\ y.reg[i].size = x.reg[i].size
                               /\ y.reg[i].free = x.reg[i].free

LEMMA RegionsKept ==
    ASSUME NEW x, NEW y, RegionsOK(x), SameRegions(y, x)
    PROVE  RegionsOK(y)
<1>1. ASSUME NEW i \in DOMAIN y.reg
      PROVE  /\ Whole(y.reg[i].base) /\ Whole(y.reg[i].size) /\ y.reg[i].size > 0
             /\ P <= y.reg[i].base /\ y.reg[i].base + y.reg[i].size <= y.top
             /\ y.reg[i].free <=> i \notin y.alloc
  BY DEF RegionsOK, SameRegions
<1>2. \A i, j \in DOMAIN y.reg : i # j => Apart(y.reg[i], y.reg[j])
  BY DEF RegionsOK, SameRegions, Apart
<1>3. /\ y.alloc \subseteq DOMAIN y.reg
      /\ Whole(y.top) /\ P <= y.top
      /\ \A k \in DOMAIN y.lists : y.lists[k] \in DOMAIN y.reg \ y.alloc
      /\ \A k, l \in DOMAIN y.lists : y.lists[k] = y.lists[l] => k = l
  BY DEF RegionsOK, SameRegions
<1> QED
  BY <1>1, <1>2, <1>3 DEF RegionsOK

\* The constructor of a mapping whose region is in use and large enough.
LEMMA Constructed ==
    ASSUME NEW x \in HeapType, NEW m \in MappingType, m.reg \in DOMAIN x.reg,
           ~x.reg[m.reg].free, x.reg[m.reg].size >= m.length,
           NEW y, y = Construct(x, "mm", m)
    PROVE  /\ y \in HeapType /\ SameRegions(y, x) /\ y.err = x.err /\ y.got = x.got
           /\ y.mm = Append(x.mm, m) /\ y.brk = x.brk /\ y.pt = x.pt /\ y.curbrk = x.curbrk
<1>1. x.reg \in Seq(RegionType) /\ x.mm \in Seq(MappingType) /\ x.cap \in Nat /\ m.addr \in Nat
  BY DEF HeapType, MappingType
<1>2. x.reg[m.reg] \in RegionType
  BY ONLY <1>1, m.reg \in DOMAIN x.reg
<1> DEFINE v == [x.reg[m.reg] EXCEPT !.guest = m.addr]
           R == [x.reg EXCEPT ![m.reg] = v]
           c == IF Len(x.mm) < x.cap THEN x.cap ELSE IF x.cap = 0 THEN 1 ELSE 2 * x.cap
<1>3. /\ v \in RegionType /\ v.base = x.reg[m.reg].base /\ v.size = x.reg[m.reg].size
      /\ v.free = x.reg[m.reg].free
  BY <1>1, <1>2 DEF RegionType
<1>4. c \in Nat /\ Append(x.mm, m) \in Seq(MappingType)
  BY <1>1
<1>5. y = [x EXCEPT !.reg = R, !.mm = Append(x.mm, m), !.cap = c]
  BY DEF Construct, Check, HeapType
<1> HIDE DEF v, c
<1>6. R \in Seq(RegionType) /\ DOMAIN R = DOMAIN x.reg
  BY ONLY <1>1, <1>3, m.reg \in DOMAIN x.reg
<1>7. R[m.reg] = v /\ \A j \in DOMAIN x.reg : j # m.reg => R[j] = x.reg[j]
  BY ONLY <1>1, m.reg \in DOMAIN x.reg
<1> HIDE DEF R
<1>8. y \in HeapType /\ y.reg = R
  BY <1>4, <1>5, <1>6 DEF HeapType
<1>9. /\ y.alloc = x.alloc /\ y.lists = x.lists /\ y.top = x.top /\ y.err = x.err /\ y.got = x.got
      /\ y.mm = Append(x.mm, m) /\ y.brk = x.brk /\ y.pt = x.pt /\ y.curbrk = x.curbrk
  BY <1>5 DEF HeapType
<1>10. SameRegions(y, x)
  BY <1>3, <1>6, <1>7, <1>8, <1>9 DEF SameRegions
<1> QED
  BY <1>8, <1>9, <1>10

LEMMA LeastIn ==
    ASSUME NEW T, T \subseteq Nat, T # {}
    PROVE  Min(T) \in T /\ \A y \in T : Min(T) <= y
BY LeastElement DEF Min

\* A page table with the pages of a set T mapped to themselves.
LEMMA Extended ==
    ASSUME NEW t \in PageTables, NEW T \in SUBSET Nat
    PROVE  [q \in DOMAIN t \cup T |-> IF q \in T THEN q ELSE t[q]] \in PageTables
<1>1. PICK D \in SUBSET Nat : t \in [D -> Nat]
  BY DEF PageTables
<1>2. D \cup T \in SUBSET Nat /\ DOMAIN t = D
  BY <1>1
<1>3. [q \in DOMAIN t \cup T |-> IF q \in T THEN q ELSE t[q]] \in [D \cup T -> Nat]
  BY <1>1, <1>2
<1> QED
  BY <1>2, <1>3 DEF PageTables

LEMMA Restricted ==
    ASSUME NEW t \in PageTables, NEW T
    PROVE  [q \in DOMAIN t \ T |-> t[q]] \in PageTables
<1>1. PICK D \in SUBSET Nat : t \in [D -> Nat]
  BY DEF PageTables
<1>2. D \ T \in SUBSET Nat /\ DOMAIN t = D
  BY <1>1
<1>3. [q \in DOMAIN t \ T |-> t[q]] \in [D \ T -> Nat]
  BY <1>1, <1>2
<1> QED
  BY <1>2, <1>3 DEF PageTables

\* map of a mapping with access none of whose pages is mapped.
LEMMA MappedSome ==
    ASSUME NEW y \in HeapType, y.err = "none", NEW k \in DOMAIN y.mm, NEW m, m = y.mm[k],
           m.prot # "none", m.addr = m.host, Whole(m.addr),
           m.reg \in DOMAIN y.reg, ~y.reg[m.reg].free, y.reg[m.reg].base = m.host,
           PageRun(m.addr, m.pages) \cap DOMAIN y.pt = {},
           NEW z, z = map(y, Ref("mm", k))
    PROVE  /\ z \in HeapType /\ z.err = "none"
           /\ z.reg = y.reg /\ z.alloc = y.alloc /\ z.lists = y.lists /\ z.top = y.top
           /\ z.brk = y.brk /\ z.mm = y.mm /\ z.curbrk = y.curbrk /\ z.got = y.got
           /\ DOMAIN z.pt = DOMAIN y.pt \cup PageRun(m.addr, m.pages)
           /\ \A q \in DOMAIN y.pt : z.pt[q] = y.pt[q]
           /\ \A q \in PageRun(m.addr, m.pages) : z.pt[q] = q
<1> DEFINE r == Ref("mm", k)
           T == PageRun(m.addr, m.pages)
           new == [q \in T |-> PageOf(m.host) + q - PageOf(m.addr)]
           I == {i \in 1 .. Len(y.mm) : Same(y.mm[i], m)}
<1>1. Get(y, r) = m
  BY DEF Get, Ref
<1>2. I # {} /\ Min(I) # 0
  <2>1. y.mm \in Seq(MappingType)
    BY DEF HeapType
  <2>2. k \in I
    <3>1. k \in 1 .. Len(y.mm) /\ Same(m, m)
      BY <2>1 DEF Same
    <3> QED
      BY <3>1
  <2>3. I \subseteq Nat /\ 0 \notin I
    OBVIOUS
  <2> HIDE DEF I
  <2> QED
    BY <2>2, <2>3, LeastIn
<1>3. z = MapSome(y, r)
  BY <1>1 DEF map, Then
<1>4. m \in MappingType /\ m.pages \in Nat /\ y.pt \in PageTables
  <2>1. y.mm \in Seq(MappingType) /\ y.pt \in PageTables
    BY DEF HeapType
  <2>2. m \in MappingType
    BY ONLY <2>1, k \in DOMAIN y.mm, m = y.mm[k]
  <2> QED
    BY ONLY <2>1, <2>2 DEF MappingType
<1>5. T \subseteq Nat /\ PageOf(m.addr) \in Nat
  <2>1. PICK b \in Nat : m.addr = P * b
    BY DEF Whole
  <2>2. PageRun(P * b, m.pages) \subseteq Nat /\ PageOf(P * b) = b
    BY ONLY <1>4, b \in Nat, Run, WholePages
  <2> QED
    BY ONLY <2>1, <2>2
<1>6. \A q \in T : new[q] = q /\ q \in Nat
  BY <1>5
<1> DEFINE t == [q \in DOMAIN y.pt \cup T |-> IF q \in T THEN q ELSE y.pt[q]]
<1>7. z = [y EXCEPT !.pt = t]
  <2>1. /\ m.addr % P = m.host % P
        /\ \A q \in DOMAIN new \cap DOMAIN y.pt : new[q] = y.pt[q]
    OBVIOUS
  <2>2. [q \in DOMAIN y.pt \cup DOMAIN new |-> IF q \in DOMAIN new THEN new[q] ELSE y.pt[q]] = t
    BY <1>6
  <2> HIDE DEF t
  <2>3. MapSome(y, r) = [y EXCEPT !.pt = t]
    <3>1. LET J == {i \in 1 .. Len(y.mm) : Same(y.mm[i], Get(y, r))} IN J # {} /\ Min(J) # 0
      BY <1>1, <1>2
    <3>2. First(y.mm, LAMBDA x : Same(x, Get(y, r))) # 0
      BY <3>1 DEF First, SelectInSeq
    <3> DEFINE f == IF First(y.mm, LAMBDA x : Same(x, Get(y, r))) # 0 THEN y
                    ELSE [y EXCEPT !.mm = Append(@, Get(y, r)),
                                   !.cap = IF Len(y.mm) < @ THEN @ ELSE IF @ = 0 THEN 1 ELSE 2 * @]
    <3>3. f = y
      BY <3>2
    <3>4. MapSome(y, r) =
            LET n == [q \in PageRun(Get(y, r).addr, Get(y, r).pages) |->
                          PageOf(Get(y, r).host) + q - PageOf(Get(y, r).addr)]
                used == IF y.reg[Get(y, r).reg].free THEN use_region(f, Get(y, r).reg) ELSE f
            IN Check(Check([used EXCEPT !.pt = [q \in DOMAIN @ \cup DOMAIN n |->
                                            IF q \in DOMAIN n THEN n[q] ELSE @[q]]],
                           Get(y, r).host = y.reg[Get(y, r).reg].base, "heap.cc:265"),
                     /\ Get(y, r).addr % P = Get(y, r).host % P
                     /\ \A q \in DOMAIN n \cap DOMAIN y.pt : n[q] = y.pt[q], "heap.cc:271")
      BY DEF MapSome
    <3> HIDE DEF f
    <3> QED
      BY <1>1, <2>1, <2>2, <3>3, <3>4 DEF Check, HeapType
  <2> QED
    BY <1>3, <2>3
<1>8. t \in PageTables
  BY <1>4, <1>5, Extended
<1>9. /\ DOMAIN t = DOMAIN y.pt \cup T /\ \A q \in DOMAIN y.pt : t[q] = y.pt[q]
      /\ \A q \in T : t[q] = q
  OBVIOUS
<1> HIDE DEF t
<1>10. z.pt = t /\ z \in HeapType
  BY <1>7, <1>8 DEF HeapType
<1>11. /\ z.err = "none"
       /\ z.reg = y.reg /\ z.alloc = y.alloc /\ z.lists = y.lists /\ z.top = y.top
       /\ z.brk = y.brk /\ z.mm = y.mm /\ z.curbrk = y.curbrk /\ z.got = y.got
  BY <1>7 DEF HeapType
<1> QED
  BY <1>9, <1>10, <1>11

NoAccess(m) == [m EXCEPT !.length = 0, !.pages = 0]

\* map of a mapping without access whose first page is not mapped.
LEMMA MappedNone ==
    ASSUME NEW y \in HeapType, y.err = "none", NEW k \in DOMAIN y.mm, NEW m, m = y.mm[k],
           m.prot = "none", PageOf(m.addr) \in Nat, PageOf(m.addr) \notin DOMAIN y.pt,
           NEW z, z = map(y, Ref("mm", k))
    PROVE  /\ z \in HeapType /\ z.err = "none"
           /\ z.reg = y.reg /\ z.alloc = y.alloc /\ z.lists = y.lists /\ z.top = y.top
           /\ z.brk = y.brk /\ z.curbrk = y.curbrk /\ z.got = y.got /\ z.pt = y.pt
           /\ z.mm = Replaced(y.mm, k, NoAccess(m))
<1> DEFINE r == Ref("mm", k)
           p == PageOf(m.addr)
           run == {i \in 0 .. m.pages - 1 : \A j \in 0 .. i : p + j \in DOMAIN y.pt}
           gone == {p + i : i \in run}
           v == [m EXCEPT !.length = 0, !.pages = 0]
           M == [y.mm EXCEPT ![k] = v]
<1>1. Get(y, r) = m /\ r.vec = "mm" /\ r.idx = k
  BY DEF Get, Ref
<1>2. y.mm \in Seq(MappingType) /\ y.pt \in PageTables
  BY DEF HeapType
<1>3. m \in MappingType
  BY ONLY <1>2, k \in DOMAIN y.mm, m = y.mm[k]
<1>4. m.pages \in Nat /\ v \in MappingType
  BY <1>3 DEF MappingType
<1>5. run = {}
  <2> SUFFICES ASSUME NEW i \in run PROVE FALSE
    OBVIOUS
  <2>1. 0 \in 0 .. i /\ p + 0 = p
    BY <1>4
  <2> QED
    BY <2>1
<1>6. gone = {}
  BY <1>5
<1>7. [q \in DOMAIN y.pt \ gone |-> y.pt[q]] = y.pt
  <2>1. y.pt = [q \in DOMAIN y.pt |-> y.pt[q]]
    BY <1>2 DEF PageTables
  <2> QED
    BY <1>6, <2>1
<1>8. z = MapNone(y, r)
  BY <1>1 DEF map, Then
<1>9. MapNone(y, r) = Set([y EXCEPT !.pt = [q \in DOMAIN y.pt \ gone |-> y.pt[q]]], r, v)
  BY <1>1 DEF MapNone
<1>10. M \in Seq(MappingType)
  BY ONLY <1>2, <1>4, k \in DOMAIN y.mm
<1>11. [y EXCEPT !.pt = y.pt] = y
  BY DEF HeapType
<1> HIDE DEF gone, v
<1>12. z = [y EXCEPT !.mm = M]
  <2>1. z = Set(y, r, v)
    BY ONLY <1>7, <1>8, <1>9, <1>11
  <2>2. Set(y, r, v) = [y EXCEPT !.mm[k] = v]
    BY ONLY <1>1 DEF Set
  <2>3. [y EXCEPT !.mm[k] = v] = [y EXCEPT !.mm = M]
    OBVIOUS
  <2> QED
    BY ONLY <2>1, <2>2, <2>3
<1> HIDE DEF M
<1>13. z \in HeapType /\ z.mm = M
  BY <1>10, <1>12 DEF HeapType
<1>14. /\ z.err = "none"
       /\ z.reg = y.reg /\ z.alloc = y.alloc /\ z.lists = y.lists /\ z.top = y.top
       /\ z.brk = y.brk /\ z.curbrk = y.curbrk /\ z.got = y.got /\ z.pt = y.pt
  BY <1>12 DEF HeapType
<1> QED
  BY <1>13, <1>14 DEF M, v, NoAccess, Replaced

--------------------------------------------------------------------------------
(***************************************************************************)
(* The invariant: what mmap and munmap keep.                               *)
(***************************************************************************)
Mix == {"mmap", "munmap"}

DataPages == PageRun(DataAddr, pages_from_size(DataSize))
DataMapping == [host |-> P, addr |-> DataAddr, length |-> DataSize,
                pages |-> pages_from_size(DataSize), prot |-> "rw", reg |-> 1]

\* The mapped pages of a mapping.
Within(m, q) == contains_address(m, P * q)
Mine(t, m) == {q \in DOMAIN t : Within(m, q)}

\* The data segment has the first region and is the only mapping of the break.
DataOK(g) ==
    /\ 1 \in g.alloc /\ g.reg[1].base = P /\ g.reg[1].size = pagesize_align(DataSize)
    /\ g.brk = <<DataMapping>> /\ g.curbrk = next_page(DataAddr + DataSize)

\* A mapping has the guest address of its memory in an allocated region, and counts
\* those of its pages that are still mapped.
MappingOK(g, m) ==
    /\ m.reg \in g.alloc /\ m.reg # 1 /\ m.host = g.reg[m.reg].base /\ m.addr = m.host
    /\ m.prot = "none" => m.length = 0 /\ m.pages = 0
    /\ m.prot # "none" => /\ m.length = g.reg[m.reg].size /\ m.pages > 0
                          /\ IsFiniteSet(Mine(g.pt, m)) /\ m.pages = Cardinality(Mine(g.pt, m))

\* Every mapping has a region of its own.
MappingsOK(g) ==
    /\ \A k \in DOMAIN g.mm : MappingOK(g, g.mm[k])
    /\ \A k, l \in DOMAIN g.mm : g.mm[k].reg = g.mm[l].reg => k = l

\* All of the data segment is mapped; a page outside it is that of a mapping.
PagesOK(g) ==
    /\ \A q \in DataPages : q \in DOMAIN g.pt /\ g.pt[q] = 1 + q - PageOf(DataAddr)
    /\ \A q \in DOMAIN g.pt \ DataPages : g.pt[q] = q /\ \E k \in DOMAIN g.mm : Within(g.mm[k], q)

HeapOK(g) == /\ g \in HeapType /\ g.err = "none" /\ RegionsOK(g) /\ DataOK(g)
             /\ MappingsOK(g) /\ PagesOK(g) /\ g.top <= DataAddr

LEMMA DataSegment ==
    /\ DataPages \subseteq Nat
    /\ \A q \in Int : q \in DataPages <=>
         DataAddr <= P * q /\ P * q < DataAddr + pagesize_align(DataSize)
    /\ next_page(DataAddr + DataSize) = DataAddr + pagesize_align(DataSize)
    /\ DataSize \in Nat \ {0} /\ DataAddr = P * PageOf(DataAddr) /\ PageOf(DataAddr) \in Nat
<1>1. DataAddr \in Nat /\ DataAddr % P = 0 /\ DataSize \in Nat /\ DataSize % P # 0
  BY HeapConstants
<1>2. DataSize # 0
  <2>1. 0 \in 0 .. P - 1 /\ 0 \in Int /\ P * 0 + 0 = 0
    BY PageSize
  <2>2. 0 % P = 0
    BY <2>1, Division
  <2> QED
    BY <1>1, <2>2
<1> DEFINE b == PageOf(DataAddr)
           n == pages_from_size(DataSize)
           d == DataSize \div P
           r == DataSize % P
<1>3. b \in Nat /\ DataAddr = P * b
  BY <1>1, PageSize DEF PageOf
<1>4. n \in Nat /\ pagesize_align(DataSize) = P * n
  BY <1>1, <1>2, RoundedUp
<1>5. /\ PageRun(P * b, n) \subseteq Nat
      /\ \A q \in Int : q \in PageRun(P * b, n) <=> P * b <= P * q /\ P * q < P * b + P * n
  BY <1>3, <1>4, Run
<1>6. n = d + 1 /\ d \in Nat /\ r \in 0 .. P - 1 /\ DataSize = P * d + r
  BY <1>1, PageSize DEF pages_from_size
<1> HIDE DEF b, n, d, r
<1>7. next_page(DataAddr + DataSize) = DataAddr + P * n
  <2>1. /\ P * (b + d) = P * b + P * d /\ P * (d + 1) = P * d + P
        /\ P * b \in Nat /\ P * d \in Nat /\ b + d \in Int
    BY <1>3, <1>6, PageOrder
  <2>2. DataAddr + DataSize = P * (b + d) + r
    BY <1>3, <1>6, <2>1
  <2>3. (DataAddr + DataSize) \div P = b + d
    BY ONLY <1>6, <2>1, <2>2, Division
  <2>4. next_page(DataAddr + DataSize) = P * (b + d) + P
    BY <2>3 DEF next_page
  <2> QED
    BY <1>3, <1>6, <2>1, <2>4, PageSize
<1>8. DataPages = PageRun(P * b, n)
  BY <1>3 DEF DataPages, n
<1> QED
  BY <1>1, <1>2, <1>3, <1>4, <1>5, <1>7, <1>8 DEF b

\* A page of a mapping lies in the mapping's region.
LEMMA InRegion ==
    ASSUME NEW g \in HeapType, NEW m \in MappingType, MappingOK(g, m), NEW q \in Int, Within(m, q)
    PROVE  /\ m.prot # "none"
           /\ g.reg[m.reg].base <= P * q /\ P * q < g.reg[m.reg].base + g.reg[m.reg].size
<1>1. m.addr <= P * q /\ P * q < m.addr + m.length
  BY DEF Within, contains_address
<1>2. m.addr \in Nat /\ m.length \in Nat /\ P * q \in Int
  BY PageOrder DEF MappingType
<1>3. m.length # 0
  BY <1>1, <1>2
<1> QED
  BY <1>1, <1>2, <1>3 DEF MappingOK

\* No page of memory that meets no region in use is mapped.
LEMMA Unmapped ==
    ASSUME NEW g, HeapOK(g), NEW b \in Nat, NEW n \in Nat, P * b + P * n <= DataAddr,
           \A j \in g.alloc : \/ P * b + P * n <= g.reg[j].base
                              \/ g.reg[j].base + g.reg[j].size <= P * b
    PROVE  PageRun(P * b, n) \cap DOMAIN g.pt = {}
<1> SUFFICES ASSUME NEW q \in PageRun(P * b, n), q \in DOMAIN g.pt PROVE FALSE
  OBVIOUS
<1>1. q \in Nat /\ P * b <= P * q /\ P * q < P * b + P * n
  BY Run
<1>2. P * q \in Nat /\ P * b \in Nat /\ P * n \in Nat /\ DataAddr \in Nat
  BY <1>1, PageOrder, HeapConstants
<1>3. q \notin DataPages
  <2> SUFFICES ASSUME q \in DataPages PROVE FALSE
    OBVIOUS
  <2>1. DataAddr <= P * q
    BY <1>1, DataSegment
  <2> QED
    BY ONLY <1>1, <1>2, <2>1, P * b + P * n <= DataAddr
<1>4. PICK k \in DOMAIN g.mm : Within(g.mm[k], q)
  BY <1>3 DEF HeapOK, PagesOK
<1>5. g \in HeapType /\ g.mm \in Seq(MappingType) /\ g.reg \in Seq(RegionType)
  BY DEF HeapOK, HeapType
<1>6. g.mm[k] \in MappingType
  BY ONLY <1>4, <1>5
<1> DEFINE j == g.mm[k].reg
<1>7. MappingOK(g, g.mm[k]) /\ j \in g.alloc
  BY DEF HeapOK, MappingsOK, MappingOK
<1>8. g.reg[j].base <= P * q /\ P * q < g.reg[j].base + g.reg[j].size
  BY ONLY <1>1, <1>4, <1>5, <1>6, <1>7, InRegion
<1>9. g.reg[j].base \in Nat /\ g.reg[j].size \in Nat
  <2>1. j \in DOMAIN g.reg
    BY <1>7 DEF HeapOK, RegionsOK
  <2>2. g.reg[j] \in RegionType
    BY ONLY <1>5, <2>1
  <2> QED
    BY <2>2 DEF RegionType
<1> HIDE DEF j
<1> QED
  BY <1>1, <1>2, <1>7, <1>8, <1>9

--------------------------------------------------------------------------------
(***************************************************************************)
(* mmap.                                                                   *)
(***************************************************************************)
\* z is g with a mapping v for a new region of n pages from page b on.
Adds(g, z, v, b, n) ==
    /\ z \in HeapType /\ z.err = "none" /\ RegionsOK(z) /\ z.top <= DataAddr
    /\ v \in MappingType /\ v.reg \notin g.alloc /\ z.alloc = g.alloc \cup {v.reg}
    /\ \A j \in g.alloc : z.reg[j].base = g.reg[j].base /\ z.reg[j].size = g.reg[j].size
    /\ z.brk = g.brk /\ z.curbrk = g.curbrk /\ z.mm = Append(g.mm, v)
    /\ z.reg[v.reg].base = P * b /\ z.reg[v.reg].size = P * n /\ v.host = P * b /\ v.addr = P * b
    /\ v.prot = "none" => v.length = 0 /\ v.pages = 0 /\ z.pt = g.pt
    /\ v.prot # "none" =>
         /\ v.length = P * n /\ v.pages = n
         /\ DOMAIN z.pt = DOMAIN g.pt \cup PageRun(P * b, n)
         /\ \A q \in DOMAIN g.pt : z.pt[q] = g.pt[q]
         /\ \A q \in PageRun(P * b, n) : z.pt[q] = q

LEMMA MappingAdded ==
    ASSUME NEW g, HeapOK(g), NEW z, NEW v, NEW b \in Nat, NEW n \in Nat \ {0}, Adds(g, z, v, b, n)
    PROVE  HeapOK(z)
<1>1. /\ g \in HeapType /\ g.mm \in Seq(MappingType) /\ g.reg \in Seq(RegionType)
      /\ z \in HeapType /\ z.reg \in Seq(RegionType) /\ v \in MappingType
      /\ g.pt \in PageTables
  <2>1. g \in HeapType /\ z \in HeapType /\ v \in MappingType
    BY DEF HeapOK, Adds
  <2> QED
    BY <2>1 DEF HeapType
<1> DEFINE T == PageRun(P * b, n)
           i == v.reg
           l == Len(g.mm) + 1
<1>n. n \in Nat /\ n > 0
  OBVIOUS
<1>T. /\ T \subseteq Nat /\ IsFiniteSet(T) /\ Cardinality(T) = n
      /\ \A q \in Int : q \in T <=> P * b <= P * q /\ P * q < P * b + P * n
  BY ONLY <1>n, b \in Nat, Run
<1>2. DOMAIN g.pt \subseteq Nat /\ T \subseteq Nat
  BY <1>1, <1>T DEF PageTables
<1> HIDE DEF T
<1>3. /\ i \in z.alloc /\ i # 1 /\ i \in DOMAIN z.reg
      /\ g.alloc \subseteq z.alloc /\ z.alloc \subseteq DOMAIN z.reg
  BY DEF Adds, HeapOK, DataOK, RegionsOK
<1>4. \A j \in z.alloc : z.reg[j].base \in Nat /\ z.reg[j].size \in Nat
  <2>1. \A j \in DOMAIN z.reg : z.reg[j] \in RegionType
    BY ONLY <1>1
  <2> QED
    BY <1>3, <2>1 DEF RegionType
<1>5. /\ z.mm = Append(g.mm, v) /\ DOMAIN z.mm = DOMAIN g.mm \cup {l} /\ l \notin DOMAIN g.mm
      /\ z.mm[l] = v /\ \A k \in DOMAIN g.mm : z.mm[k] = g.mm[k] /\ g.mm[k] \in MappingType
  <2>1. z.mm = Append(g.mm, v)
    BY DEF Adds
  <2> HIDE DEF l
  <2>2. \A k \in DOMAIN g.mm : g.mm[k] \in MappingType
    BY ONLY <1>1
  <2> QED
    BY ONLY <1>1, <2>1, <2>2, Appended DEF l
<1> HIDE DEF l
\* No page of the new region is that of another mapping.
<1>6. ASSUME NEW j \in g.alloc, NEW q \in T, z.reg[j].base <= P * q,
             P * q < z.reg[j].base + z.reg[j].size
      PROVE  FALSE
  <2>1. j # i /\ j \in z.alloc
    BY DEF Adds
  <2>2. Apart(z.reg[j], z.reg[i])
    BY <1>3, <2>1 DEF Adds, RegionsOK
  <2>3. q \in Nat /\ P * b <= P * q /\ P * q < P * b + P * n
    BY ONLY <1>T, q \in T
  <2>4. P * q \in Nat /\ P * b \in Nat /\ P * n \in Nat
    BY <1>2, <2>3, PageOrder
  <2>5. z.reg[i].base = P * b /\ z.reg[i].size = P * n
    BY DEF Adds
  <2>6. z.reg[j].base \in Nat /\ z.reg[j].size \in Nat
    BY <1>4, <2>1
  <2>7. P * b + P * n <= z.reg[j].base \/ z.reg[j].base + z.reg[j].size <= P * b
    BY ONLY <2>2, <2>5 DEF Apart
  <2> QED
    BY ONLY <1>6, <2>3, <2>4, <2>6, <2>7
<1>7. ASSUME NEW j \in g.alloc
      PROVE  z.reg[j].base = g.reg[j].base /\ z.reg[j].size = g.reg[j].size
  BY DEF Adds
<1>8. ASSUME NEW k \in DOMAIN g.mm, NEW q \in T PROVE ~Within(g.mm[k], q)
  <2> SUFFICES ASSUME Within(g.mm[k], q) PROVE FALSE
    OBVIOUS
  <2>1. MappingOK(g, g.mm[k]) /\ g.mm[k] \in MappingType /\ g.mm[k].reg \in g.alloc
    BY <1>5 DEF HeapOK, MappingsOK, MappingOK
  <2>2. /\ g.reg[g.mm[k].reg].base <= P * q
        /\ P * q < g.reg[g.mm[k].reg].base + g.reg[g.mm[k].reg].size
    BY <1>1, <1>2, <2>1, InRegion
  <2> QED
    BY <1>6, <1>7, <2>1, <2>2
<1>9. T \cap DOMAIN g.pt = {}
  <2> SUFFICES ASSUME NEW q \in T, q \in DOMAIN g.pt PROVE FALSE
    OBVIOUS
  <2>1. q \notin DataPages
    <3> SUFFICES ASSUME q \in DataPages PROVE FALSE
      OBVIOUS
    <3>1. DataAddr <= P * q
      BY <1>2, DataSegment
    <3>2. q \in Nat /\ P * b <= P * q /\ P * q < P * b + P * n
      BY ONLY <1>T, q \in T
    <3>3. P * b + P * n <= z.top /\ z.top <= DataAddr
      BY <1>3 DEF Adds, RegionsOK
    <3>4. z.top \in Nat /\ DataAddr \in Nat
      BY <1>1, HeapConstants DEF HeapType
    <3>5. P * b \in Nat /\ P * n \in Nat /\ P * q \in Nat
      BY ONLY <1>n, <3>2, b \in Nat, PageBytes
    <3> QED
      BY ONLY <3>1, <3>2, <3>3, <3>4, <3>5
  <2> QED
    BY <1>8, <2>1 DEF HeapOK, PagesOK
<1>10. DataOK(z)
  BY <1>7 DEF HeapOK, DataOK, Adds
<1>11. /\ DOMAIN g.pt \subseteq DOMAIN z.pt /\ DOMAIN z.pt \subseteq DOMAIN g.pt \cup T
       /\ \A q \in DOMAIN g.pt : z.pt[q] = g.pt[q]
       /\ \A q \in DOMAIN z.pt \ DOMAIN g.pt : z.pt[q] = q
  <2>1. CASE v.prot = "none"
    BY <2>1 DEF Adds
  <2>2. CASE v.prot # "none"
    BY <2>2, <1>9 DEF Adds, T
  <2> QED
    BY <2>1, <2>2
<1>12. ASSUME NEW k \in DOMAIN g.mm PROVE MappingOK(z, g.mm[k])
  <2>1. MappingOK(g, g.mm[k])
    BY DEF HeapOK, MappingsOK
  <2>2. Mine(z.pt, g.mm[k]) = Mine(g.pt, g.mm[k])
    BY <1>8, <1>11 DEF Mine
  <2>3. g.mm[k].reg \in g.alloc
    BY <2>1 DEF MappingOK
  <2> QED
    BY <1>3, <1>7, <2>1, <2>2, <2>3 DEF MappingOK
<1>13. MappingOK(z, v)
  <2>1. v.reg \in z.alloc /\ v.reg # 1 /\ v.host = z.reg[v.reg].base /\ v.addr = v.host
    BY <1>3 DEF Adds
  <2>2. CASE v.prot = "none"
    BY <2>1, <2>2 DEF Adds, MappingOK
  <2>3. CASE v.prot # "none"
    <3>1. /\ v.length = P * n /\ v.addr = P * b /\ v.pages = n /\ z.reg[v.reg].size = P * n
          /\ DOMAIN z.pt = DOMAIN g.pt \cup T
      BY <2>3 DEF Adds, T
    <3>2. \A q \in Nat : Within(v, q) <=> q \in T
      BY <3>1, <1>T DEF Within, contains_address
    <3>3. Mine(z.pt, v) = T
      BY <1>2, <1>9, <3>1, <3>2 DEF Mine
    <3>4. IsFiniteSet(T) /\ Cardinality(T) = n /\ n > 0
      BY <1>n, <1>T
    <3> QED
      BY <2>1, <2>3, <3>1, <3>3, <3>4 DEF MappingOK
  <2> QED
    BY <2>2, <2>3
<1>14. MappingsOK(z)
  <2>1. \A k \in DOMAIN z.mm : MappingOK(z, z.mm[k])
    BY <1>5, <1>12, <1>13
  <2>2. \A k \in DOMAIN g.mm : g.mm[k].reg # v.reg
    BY DEF HeapOK, MappingsOK, MappingOK, Adds
  <2>3. \A k, m \in DOMAIN g.mm : g.mm[k].reg = g.mm[m].reg => k = m
    BY DEF HeapOK, MappingsOK
  <2>4. \A k, m \in DOMAIN z.mm : z.mm[k].reg = z.mm[m].reg => k = m
    BY <1>5, <2>2, <2>3
  <2> QED
    BY <2>1, <2>4 DEF MappingsOK
<1>15. PagesOK(z)
  <2>1. \A q \in DataPages : q \in DOMAIN z.pt /\ z.pt[q] = 1 + q - PageOf(DataAddr)
    BY <1>11 DEF HeapOK, PagesOK
  <2>2. ASSUME NEW q \in DOMAIN z.pt \ DataPages
        PROVE  z.pt[q] = q /\ \E k \in DOMAIN z.mm : Within(z.mm[k], q)
    <3>1. CASE q \in DOMAIN g.pt
      <4>1. g.pt[q] = q /\ \E k \in DOMAIN g.mm : Within(g.mm[k], q)
        BY <3>1 DEF HeapOK, PagesOK
      <4> QED
        BY <1>5, <1>11, <3>1, <4>1
    <3>2. CASE q \notin DOMAIN g.pt
      <4>1. v.prot # "none" /\ q \in T
        BY <1>11, <3>2 DEF Adds
      <4>2. v.length = P * n /\ v.addr = P * b
        BY <4>1 DEF Adds
      <4>3. Within(v, q)
        BY <1>2, <1>T, <4>1, <4>2 DEF Within, contains_address
      <4> QED
        BY <1>5, <1>11, <3>2, <4>3
    <3> QED
      BY <3>1, <3>2
  <2> QED
    BY <2>1, <2>2 DEF PagesOK
<1> QED
  BY <1>10, <1>14, <1>15 DEF HeapOK, Adds

\* The region that holds an address of the host is found.
LEMMA Found ==
    ASSUME NEW g \in HeapType, RegionsOK(g), NEW p, NEW i \in g.alloc, RegionContains(g, i, p)
    PROVE  find_region(g, p) # 0
<1>1. find_region(g, p) \in g.alloc
  BY DEF find_region
<1>2. g.alloc \subseteq DOMAIN g.reg /\ g.reg \in Seq(RegionType)
  BY DEF RegionsOK, HeapType
<1>3. 0 \notin DOMAIN g.reg
  BY ONLY <1>2
<1> QED
  BY <1>1, <1>2, <1>3

\* create_mapping: the heap has one mapping more, of pages that were not mapped.
LEMMA Created ==
    ASSUME NEW g, HeapOK(g), NEW len \in Nat \ {0}, NEW prot \in {"none", "r", "rw"},
           NEW N, N = pagesize_align(len), g.top + Growth(N) <= DataAddr,
           NEW z, z = create_mapping(g, 0, len, prot, 0)
    PROVE  /\ HeapOK(z) /\ z.top <= g.top + Growth(N)
           /\ \A q \in DOMAIN g.pt : q \in DOMAIN z.pt /\ z.pt[q] = g.pt[q]
           /\ prot # "none" =>
                PageRun(z.reg[z.got].base, pages_from_size(len)) \subseteq DOMAIN z.pt
<1> DEFINE n == pages_from_size(len)
           x == allocate_region(g, N)
           i == x.got
           m == Mapping(x, i, 0, N, prot)
           y == Construct(x, "mm", m)
           k == Len(y.mm)
           w == map(y, Ref("mm", k))
<1>1. n \in Nat \ {0} /\ N = P * n /\ N \in Nat
  BY RoundedUp
<1>2. Whole(N) /\ N \in Nat \ {0}
  <2>1. N # 0
    BY RoundedUp
  <2> QED
    BY <1>1, <2>1 DEF Whole
<1>3. pages_from_size(N) = n
  BY <1>1, WholePages
<1>4. g \in HeapType /\ RegionsOK(g) /\ g.err = "none"
  BY DEF HeapOK
<1>x. x = allocate_region(g, N)
  OBVIOUS
<1>5. z = Then(w, LAMBDA u : Check(u, ~u.reg[i].free /\ find_region(u, u.reg[i].base) # 0,
                                   "heap.cc:205"))
  BY <1>4 DEF create_mapping, Then
<1> HIDE DEF n, x
<1>6. /\ x \in HeapType /\ RegionsOK(x) /\ x.err = "none"
      /\ i \in x.alloc \ g.alloc /\ x.alloc = g.alloc \cup {i} /\ x.reg[i].size = N
      /\ \A j \in g.alloc : x.reg[j] = g.reg[j]
      /\ x.top <= g.top + Growth(N) /\ SameMappings(x, g)
  BY ONLY <1>2, <1>4, <1>x, Allocated
<1> HIDE DEF i
<1>7. /\ x.reg \in Seq(RegionType) /\ x.alloc \subseteq DOMAIN x.reg /\ i \in DOMAIN x.reg
      /\ Whole(x.reg[i].base) /\ x.reg[i].base + N <= x.top /\ ~x.reg[i].free
      /\ i \in Nat
  <2>1. x.reg \in Seq(RegionType) /\ x.alloc \subseteq DOMAIN x.reg /\ i \in DOMAIN x.reg
    BY <1>6 DEF HeapType, RegionsOK
  <2>2. Whole(x.reg[i].base) /\ x.reg[i].base + N <= x.top /\ ~x.reg[i].free
    BY <1>6, <2>1 DEF RegionsOK
  <2> QED
    BY <1>6, <2>1, <2>2 DEF HeapType
<1>8. PICK b \in Nat : x.reg[i].base = P * b
  BY <1>7 DEF Whole
<1>9. P * b \in Nat
  BY PageSize
<1>10. /\ m \in MappingType /\ m.host = P * b /\ m.addr = P * b /\ m.length = N /\ m.pages = n
       /\ m.prot = prot /\ m.reg = i
  <2>1. m = [host |-> P * b, addr |-> P * b, length |-> N, pages |-> n, prot |-> prot, reg |-> i]
    BY <1>3, <1>8 DEF Mapping
  <2> HIDE DEF m
  <2> QED
    BY <1>1, <1>7, <1>9, <2>1 DEF MappingType
<1>y. y = Construct(x, "mm", m) /\ x.reg[i].size >= m.length
  BY <1>6, <1>10, <1>1
<1> HIDE DEF m, y
<1>11. /\ y \in HeapType /\ SameRegions(y, x) /\ y.err = x.err /\ y.got = x.got
       /\ y.mm = Append(x.mm, m) /\ y.brk = x.brk /\ y.pt = x.pt /\ y.curbrk = x.curbrk
  BY ONLY <1>6, <1>7, <1>10, <1>y, Constructed
<1>12. /\ RegionsOK(y) /\ y.err = "none" /\ y.got = i /\ y.alloc = x.alloc /\ y.top = x.top
       /\ y.reg[i].base = P * b /\ y.reg[i].size = N /\ ~y.reg[i].free /\ i \in DOMAIN y.reg
       /\ \A j \in g.alloc : y.reg[j].base = g.reg[j].base /\ y.reg[j].size = g.reg[j].size
  <2>1. RegionsOK(y)
    BY <1>6, <1>11, RegionsKept
  <2>2. \A j \in g.alloc : y.reg[j].base = g.reg[j].base /\ y.reg[j].size = g.reg[j].size
    BY <1>6, <1>7, <1>11 DEF SameRegions
  <2> QED
    BY <1>6, <1>7, <1>8, <1>11, <2>1, <2>2 DEF SameRegions, i
<1>13. /\ g.mm \in Seq(MappingType) /\ x.mm = g.mm /\ y.mm = Append(g.mm, m)
       /\ y.pt = g.pt /\ y.brk = g.brk /\ y.curbrk = g.curbrk
  BY <1>4, <1>6, <1>11 DEF HeapType, SameMappings
<1>14. k \in DOMAIN y.mm /\ y.mm[k] = m /\ k = Len(g.mm) + 1
  BY ONLY <1>10, <1>13
<1> HIDE DEF k
\* The pages of the new region are below the data segment and in no other mapping.
<1>15. PageRun(P * b, n) \cap DOMAIN g.pt = {}
  <2>0. /\ x.top \in Nat /\ g.top \in Nat /\ DataAddr \in Nat /\ Growth(N) \in Nat
    BY <1>1, <1>4, <1>6, HeapConstants DEF HeapType, Growth
  <2>1. P * b + P * n <= DataAddr
    BY <1>1, <1>6, <1>7, <1>8, <1>9, <2>0
  <2>2. ASSUME NEW j \in g.alloc
        PROVE  P * b + P * n <= g.reg[j].base \/ g.reg[j].base + g.reg[j].size <= P * b
    <3>1. j # i /\ j \in DOMAIN x.reg
      BY <1>6, <1>7
    <3>2. Apart(x.reg[i], x.reg[j])
      BY <1>6, <1>7, <3>1 DEF RegionsOK
    <3> QED
      BY <1>1, <1>6, <1>8, <3>2 DEF Apart
  <2> QED
    BY <1>1, <2>1, <2>2, Unmapped
<1> DEFINE v == IF prot = "none" THEN NoAccess(m) ELSE m
<1>16. /\ w \in HeapType /\ w.err = "none"
       /\ w.reg = y.reg /\ w.alloc = y.alloc /\ w.lists = y.lists /\ w.top = y.top
       /\ w.brk = y.brk /\ w.curbrk = y.curbrk /\ w.got = y.got
       /\ w.mm = Append(g.mm, v)
       /\ prot = "none" => w.pt = g.pt
       /\ prot # "none" => /\ DOMAIN w.pt = DOMAIN g.pt \cup PageRun(P * b, n)
                           /\ \A q \in DOMAIN g.pt : w.pt[q] = g.pt[q]
                           /\ \A q \in PageRun(P * b, n) : w.pt[q] = q
  <2>w. w = map(y, Ref("mm", k)) /\ m = y.mm[k] /\ m.addr = m.host
    BY <1>10, <1>14
  <2> HIDE DEF w
  <2>1. CASE prot = "none"
    <3>1. PageOf(m.addr) = b /\ b \in PageRun(P * b, n)
      <4>1. PageOf(P * b) = b
        BY WholePages
      <4>2. PageRun(P * b, n) = b .. b + n - 1
        BY <1>1, Run
      <4> QED
        BY <1>1, <1>10, <4>1, <4>2
    <3>2. PageOf(m.addr) \in Nat /\ PageOf(m.addr) \notin DOMAIN y.pt
      BY <1>13, <1>15, <3>1
    <3>3. m.prot = "none"
      BY <1>10, <2>1
    <3>4. /\ w \in HeapType /\ w.err = "none"
          /\ w.reg = y.reg /\ w.alloc = y.alloc /\ w.lists = y.lists /\ w.top = y.top
          /\ w.brk = y.brk /\ w.curbrk = y.curbrk /\ w.got = y.got /\ w.pt = y.pt
          /\ w.mm = Replaced(y.mm, k, NoAccess(m))
      <4>1. y \in HeapType /\ y.err = "none" /\ k \in DOMAIN y.mm
        BY ONLY <1>11, <1>12, <1>14
      <4> QED
        BY ONLY <2>w, <3>2, <3>3, <4>1, MappedNone
    <3>5. v = NoAccess(m) /\ v \in MappingType
      BY <1>10, <2>1 DEF MappingType, NoAccess
    <3> HIDE DEF v
    <3>6. Replaced(Append(g.mm, m), k, v) = Append(g.mm, v)
      BY ONLY <1>10, <1>13, <1>14, <3>5, LastReplaced
    <3>7. w.mm = Append(g.mm, v)
      BY ONLY <1>13, <3>4, <3>5, <3>6
    <3> QED
      BY <1>13, <2>1, <3>4, <3>7
  <2>2. CASE prot # "none"
    <3>1. /\ m.prot # "none" /\ Whole(m.addr) /\ m.reg \in DOMAIN y.reg /\ ~y.reg[m.reg].free
          /\ y.reg[m.reg].base = m.host /\ PageRun(m.addr, m.pages) \cap DOMAIN y.pt = {}
      BY <1>10, <1>12, <1>13, <1>15, <2>2 DEF Whole
    <3>2. /\ w \in HeapType /\ w.err = "none"
          /\ w.reg = y.reg /\ w.alloc = y.alloc /\ w.lists = y.lists /\ w.top = y.top
          /\ w.brk = y.brk /\ w.mm = y.mm /\ w.curbrk = y.curbrk /\ w.got = y.got
          /\ DOMAIN w.pt = DOMAIN y.pt \cup PageRun(m.addr, m.pages)
          /\ \A q \in DOMAIN y.pt : w.pt[q] = y.pt[q]
          /\ \A q \in PageRun(m.addr, m.pages) : w.pt[q] = q
      <4>1. y \in HeapType /\ y.err = "none" /\ k \in DOMAIN y.mm
        BY ONLY <1>11, <1>12, <1>14
      <4> QED
        BY ONLY <2>w, <3>1, <4>1, MappedSome
    <3> QED
      BY <1>10, <1>13, <2>2, <3>2
  <2> QED
    BY <2>1, <2>2
<1> HIDE DEF w
<1>17. RegionsOK(w)
  <2>1. SameRegions(w, y)
    BY <1>16 DEF SameRegions
  <2> QED
    BY <1>12, <2>1, RegionsKept
<1>18. z = w
  <2>1. i \in w.alloc /\ RegionContains(w, i, w.reg[i].base) /\ ~w.reg[i].free
    BY <1>1, <1>2, <1>6, <1>9, <1>12, <1>16 DEF RegionContains
  <2>2. find_region(w, w.reg[i].base) # 0
    BY ONLY <1>16, <1>17, <2>1, Found
  <2> QED
    BY <1>5, <1>16, <2>1, <2>2 DEF Then, Check
<1>19. /\ v \in MappingType /\ v.reg = i /\ v.host = P * b /\ v.addr = P * b /\ v.prot = prot
       /\ v.prot = "none" => v.length = 0 /\ v.pages = 0
       /\ v.prot # "none" => v.length = P * n /\ v.pages = n
  BY <1>1, <1>10 DEF MappingType, NoAccess
<1> HIDE DEF v
<1>20. x.top <= DataAddr
  <2>1. x.top \in Nat /\ g.top \in Nat /\ DataAddr \in Nat /\ Growth(N) \in Nat
    BY <1>1, <1>4, <1>6, HeapConstants DEF HeapType, Growth
  <2> QED
    BY <1>6, <2>1
<1>21. Adds(g, z, v, b, n)
  BY <1>1, <1>6, <1>12, <1>13, <1>16, <1>17, <1>18, <1>19, <1>20 DEF Adds
<1>22. HeapOK(z)
  BY <1>1, <1>21, MappingAdded
<1>23. \A q \in DOMAIN g.pt : q \in DOMAIN z.pt /\ z.pt[q] = g.pt[q]
  BY <1>16, <1>18
<1>24. prot # "none" => PageRun(z.reg[z.got].base, n) \subseteq DOMAIN z.pt
  BY <1>12, <1>16, <1>18
<1>25. z.top <= g.top + Growth(N)
  BY <1>6, <1>12, <1>16, <1>18
<1> QED
  BY <1>22, <1>23, <1>24, <1>25 DEF n

--------------------------------------------------------------------------------
(***************************************************************************)
(* munmap.                                                                 *)
(***************************************************************************)
\* An address lies in one region only.
LEMMA OneRegion ==
    ASSUME NEW g \in HeapType, RegionsOK(g), NEW i \in DOMAIN g.reg, NEW j \in DOMAIN g.reg,
           NEW p \in Int, RegionContains(g, i, p), RegionContains(g, j, p)
    PROVE  i = j
<1> SUFFICES ASSUME i # j PROVE FALSE
  OBVIOUS
<1>1. Apart(g.reg[i], g.reg[j])
  BY DEF RegionsOK
<1>2. g.reg \in Seq(RegionType)
  BY DEF HeapType
<1>3. g.reg[i] \in RegionType /\ g.reg[j] \in RegionType
  BY ONLY <1>2, i \in DOMAIN g.reg, j \in DOMAIN g.reg
<1> QED
  BY <1>1, <1>3 DEF RegionType, Apart, RegionContains

LEMMA Bounds ==
    ASSUME NEW g, HeapOK(g)
    PROVE  /\ g \in HeapType /\ RegionsOK(g) /\ g.err = "none"
           /\ g.reg \in Seq(RegionType) /\ g.mm \in Seq(MappingType)
           /\ \A i \in DOMAIN g.reg : g.reg[i] \in RegionType /\ i \in Nat
           /\ g.alloc \subseteq DOMAIN g.reg /\ 1 \in g.alloc
           /\ DOMAIN g.pt \subseteq Nat
           /\ \A k \in DOMAIN g.mm : /\ g.mm[k] \in MappingType /\ MappingOK(g, g.mm[k])
                                     /\ g.mm[k].reg \in DOMAIN g.reg /\ g.mm[k].reg # 1
<1>1. g \in HeapType /\ RegionsOK(g) /\ g.err = "none" /\ 1 \in g.alloc
      /\ \A k \in DOMAIN g.mm : MappingOK(g, g.mm[k])
  BY DEF HeapOK, DataOK, MappingsOK
<1>2. g.reg \in Seq(RegionType) /\ g.mm \in Seq(MappingType) /\ g.pt \in PageTables
  BY <1>1 DEF HeapType
<1>3. /\ \A i \in DOMAIN g.reg : g.reg[i] \in RegionType /\ i \in Nat
      /\ \A k \in DOMAIN g.mm : g.mm[k] \in MappingType
  BY ONLY <1>2
<1>4. DOMAIN g.pt \subseteq Nat
  BY <1>2 DEF PageTables
<1>5. g.alloc \subseteq DOMAIN g.reg
  BY <1>1 DEF RegionsOK
<1>6. \A k \in DOMAIN g.mm : g.mm[k].reg \in DOMAIN g.reg /\ g.mm[k].reg # 1
  BY <1>1, <1>5 DEF MappingOK
<1> QED
  BY ONLY <1>1, <1>2, <1>3, <1>4, <1>5, <1>6

\* An address of a mapping is one of its region.
LEMMA InItsRegion ==
    ASSUME NEW g, HeapOK(g), NEW k \in DOMAIN g.mm, NEW a \in Int, contains_address(g.mm[k], a)
    PROVE  RegionContains(g, g.mm[k].reg, a) /\ g.mm[k].prot # "none"
<1>1. MappingOK(g, g.mm[k]) /\ g.mm[k] \in MappingType
  BY Bounds
<1>2. g.mm[k].addr <= a /\ a < g.mm[k].addr + g.mm[k].length
  BY DEF contains_address
<1>3. g.mm[k].addr \in Nat /\ g.mm[k].length \in Nat
  BY <1>1 DEF MappingType
<1>4. g.mm[k].length # 0
  BY <1>2, <1>3
<1> QED
  BY <1>1, <1>2, <1>4 DEF MappingOK, RegionContains

\* An address lies in one mapping only, and not in the data segment's region.
LEMMA OneMapping ==
    ASSUME NEW g, HeapOK(g), NEW k \in DOMAIN g.mm, NEW a \in Int, contains_address(g.mm[k], a)
    PROVE  /\ \A l \in DOMAIN g.mm : contains_address(g.mm[l], a) => l = k
           /\ ~RegionContains(g, 1, a)
<1>1. RegionContains(g, g.mm[k].reg, a)
  BY InItsRegion
<1>2. /\ g \in HeapType /\ RegionsOK(g) /\ 1 \in DOMAIN g.reg
      /\ \A l \in DOMAIN g.mm : g.mm[l].reg \in DOMAIN g.reg /\ g.mm[l].reg # 1
  BY Bounds
<1>3. ASSUME NEW l \in DOMAIN g.mm, contains_address(g.mm[l], a) PROVE l = k
  <2>1. RegionContains(g, g.mm[l].reg, a)
    BY <1>3, InItsRegion
  <2>2. g.mm[l].reg = g.mm[k].reg
    BY ONLY <1>1, <1>2, <2>1, OneRegion, k \in DOMAIN g.mm, l \in DOMAIN g.mm, a \in Int
  <2> QED
    BY <2>2 DEF HeapOK, MappingsOK
<1>4. ~RegionContains(g, 1, a)
  BY ONLY <1>1, <1>2, OneRegion, k \in DOMAIN g.mm, a \in Int
<1> QED
  BY <1>3, <1>4

LEMMA Singleton ==
    ASSUME NEW k \in Nat
    PROVE  Min({k}) = k
BY LeastIn

\* The mapping of an address is found by the address of its memory.
LEMMA HostFound ==
    ASSUME NEW g, HeapOK(g), NEW k \in DOMAIN g.mm, NEW a \in Int, contains_address(g.mm[k], a)
    PROVE  FindMappingOfHost(g, a) = Ref("mm", k)
<1> DEFINE B == {i \in 1 .. Len(g.brk) : ContainsHost(g.brk[i], a)}
           M == {i \in 1 .. Len(g.mm) : ContainsHost(g.mm[i], a)}
<1>1. B = {}
  <2>1. g.brk = <<DataMapping>>
    BY DEF HeapOK, DataOK
  <2>2. ~RegionContains(g, 1, a)
    BY OneMapping
  <2>3. g.reg[1].base = P /\ g.reg[1].size = pagesize_align(DataSize)
    BY DEF HeapOK, DataOK
  <2>4. DataMapping.host = P /\ DataMapping.length = DataSize
    BY DEF DataMapping
  <2>5. DataSize <= pagesize_align(DataSize) /\ pagesize_align(DataSize) \in Nat /\ DataSize \in Nat
    BY DataSegment, RoundedUp
  <2>6. ~ContainsHost(DataMapping, a)
    BY <2>2, <2>3, <2>4, <2>5, PageSize DEF ContainsHost, RegionContains
  <2>7. Len(g.brk) = 1 /\ g.brk[1] = DataMapping
    BY ONLY <2>1
  <2> QED
    BY ONLY <2>6, <2>7
<1>2. M = {k}
  <2>1. g.mm \in Seq(MappingType) /\ \A i \in DOMAIN g.mm : MappingOK(g, g.mm[i])
    BY Bounds
  <2>2. DOMAIN g.mm = 1 .. Len(g.mm)
    BY ONLY <2>1
  <2>3. \A i \in DOMAIN g.mm : ContainsHost(g.mm[i], a) <=> contains_address(g.mm[i], a)
    BY <2>1 DEF ContainsHost, contains_address, MappingOK
  <2>4. \A i \in DOMAIN g.mm : contains_address(g.mm[i], a) => i = k
    BY OneMapping
  <2> QED
    BY <2>2, <2>3, <2>4
<1>3. k \in Nat /\ k # 0
  <2>1. g.mm \in Seq(MappingType)
    BY Bounds
  <2> QED
    BY ONLY <2>1, k \in DOMAIN g.mm
<1>4. FindMappingOfHost(g, a) = InEither(IF B # {} THEN Min(B) ELSE 0, IF M # {} THEN Min(M) ELSE 0)
  BY DEF FindMappingOfHost, First, SelectInSeq
<1> HIDE DEF B, M
<1>5. FindMappingOfHost(g, a) = InEither(0, k)
  <2>1. M # {} /\ Min(M) = k
    BY <1>2, <1>3, Singleton
  <2> QED
    BY <1>1, <1>4, <2>1
<1> QED
  BY <1>5 DEF InEither

\* Pages T of mapping k, all of them mapped.
PagesOf(g, k, T) == /\ HeapOK(g) /\ k \in DOMAIN g.mm /\ T \subseteq DOMAIN g.pt
                    /\ \A q \in T : Within(g.mm[k], q)

LEMMA PagesCounted ==
    ASSUME NEW g, NEW k, NEW T, PagesOf(g, k, T), T # {}
    PROVE  /\ g.mm[k].prot # "none"
           /\ IsFiniteSet(T) /\ Cardinality(T) \in Nat /\ Cardinality(T) <= g.mm[k].pages
           /\ IsFiniteSet(Mine(g.pt, g.mm[k]) \ T)
           /\ Cardinality(Mine(g.pt, g.mm[k]) \ T) = g.mm[k].pages - Cardinality(T)
           /\ T \cap DataPages = {}
           /\ \A l \in DOMAIN g.mm : l # k => \A q \in T : ~Within(g.mm[l], q)
<1> DEFINE m == g.mm[k]
           S == Mine(g.pt, m)
<1>0. HeapOK(g) /\ k \in DOMAIN g.mm /\ T \subseteq DOMAIN g.pt
  BY DEF PagesOf
<1>1. \A q \in T : q \in Int /\ P * q \in Int /\ contains_address(m, P * q)
  <2>1. T \subseteq Nat
    BY <1>0, Bounds
  <2>2. \A q \in T : q \in Int /\ P * q \in Int
    BY <2>1, PageSize
  <2>3. \A q \in T : Within(m, q)
    BY DEF PagesOf
  <2> QED
    BY <2>2, <2>3 DEF Within
<1>2. PICK q0 \in T : TRUE
  OBVIOUS
<1>3. m.prot # "none" /\ MappingOK(g, m) /\ m.reg \in DOMAIN g.reg
  BY <1>0, <1>1, <1>2, InItsRegion, Bounds
<1>4. IsFiniteSet(S) /\ m.pages = Cardinality(S)
  BY <1>3 DEF MappingOK
<1>5. T \in SUBSET S
  BY <1>0 DEF PagesOf, Mine
<1> HIDE DEF S
<1>6. IsFiniteSet(T) /\ Cardinality(T) <= Cardinality(S) /\ Cardinality(T) \in Nat
  BY <1>4, <1>5, FS_Subset, FS_CardinalityType
<1>7. S \cap T = T
  BY <1>5
<1>8. IsFiniteSet(S \ T) /\ Cardinality(S \ T) = Cardinality(S) - Cardinality(T)
  BY <1>4, <1>7, FS_Difference
<1>9. \A l \in DOMAIN g.mm : l # k => \A q \in T : ~Within(g.mm[l], q)
  BY <1>0, <1>1, OneMapping DEF Within
<1>10. ASSUME NEW q \in T, q \in DataPages PROVE FALSE
  <2>1. DataAddr <= P * q /\ DataAddr \in Nat /\ P * q \in Int
    BY <1>1, <1>10, DataSegment, HeapConstants
  <2>2. RegionContains(g, m.reg, P * q)
    BY <1>0, <1>1, InItsRegion
  <2>3. g.reg[m.reg].base + g.reg[m.reg].size <= g.top /\ g.top <= DataAddr /\ g.top \in Nat
    BY <1>0, <1>3 DEF HeapOK, RegionsOK, HeapType
  <2>4. g.reg[m.reg] \in RegionType
    BY <1>0, <1>3, Bounds
  <2> QED
    BY <2>1, <2>2, <2>3, <2>4 DEF RegionContains, RegionType
<1> QED
  BY <1>3, <1>4, <1>6, <1>8, <1>9, <1>10 DEF S

\* z is g without the pages T.
Loses(g, z, T) == /\ DOMAIN z.pt = DOMAIN g.pt \ T /\ \A q \in DOMAIN z.pt : z.pt[q] = g.pt[q]
                  /\ z.brk = g.brk /\ z.curbrk = g.curbrk /\ z.top = g.top

\* Some pages of mapping k are unmapped, and others are left.
LEMMA PartUnmapped ==
    ASSUME NEW g, NEW k, NEW T, PagesOf(g, k, T), T # {}, NEW v \in MappingType,
           NEW z \in HeapType, z.err = "none", Loses(g, z, T),
           z.reg = g.reg, z.alloc = g.alloc, z.lists = g.lists,
           DOMAIN z.mm = DOMAIN g.mm, z.mm[k] = v, \A l \in DOMAIN g.mm : l # k => z.mm[l] = g.mm[l],
           v.host = g.mm[k].host, v.addr = g.mm[k].addr, v.length = g.mm[k].length,
           v.prot = g.mm[k].prot, v.reg = g.mm[k].reg,
           v.pages = g.mm[k].pages - Cardinality(T), v.pages > 0
    PROVE  HeapOK(z)
<1>0. HeapOK(g) /\ k \in DOMAIN g.mm
  BY DEF PagesOf
<1>1. /\ g.mm[k].prot # "none" /\ IsFiniteSet(Mine(g.pt, g.mm[k]) \ T)
      /\ Cardinality(Mine(g.pt, g.mm[k]) \ T) = g.mm[k].pages - Cardinality(T)
      /\ T \cap DataPages = {}
      /\ \A l \in DOMAIN g.mm : l # k => \A q \in T : ~Within(g.mm[l], q)
  BY ONLY PagesCounted, PagesOf(g, k, T), T # {}
<1>2. \A q : Within(v, q) <=> Within(g.mm[k], q)
  BY DEF Within, contains_address
<1>3. RegionsOK(z)
  <2>1. RegionsOK(g) /\ SameRegions(z, g)
    BY <1>0 DEF HeapOK, SameRegions, Loses
  <2> QED
    BY <2>1, RegionsKept
<1>4. DataOK(z)
  BY <1>0 DEF HeapOK, DataOK, Loses
<1>5. MappingOK(z, v)
  <2>1. Mine(z.pt, v) = Mine(g.pt, g.mm[k]) \ T
    BY <1>2 DEF Mine, Loses
  <2>2. MappingOK(g, g.mm[k])
    BY <1>0 DEF HeapOK, MappingsOK
  <2> QED
    BY <1>1, <2>1, <2>2 DEF MappingOK
<1>6. ASSUME NEW l \in DOMAIN g.mm, l # k PROVE MappingOK(z, g.mm[l])
  <2>1. Mine(z.pt, g.mm[l]) = Mine(g.pt, g.mm[l])
    BY <1>1, <1>6 DEF Mine, Loses
  <2>2. MappingOK(g, g.mm[l])
    BY <1>0 DEF HeapOK, MappingsOK
  <2> QED
    BY <2>1, <2>2 DEF MappingOK
<1>7. MappingsOK(z)
  <2>1. \A l \in DOMAIN z.mm : MappingOK(z, z.mm[l]) /\ z.mm[l].reg = g.mm[l].reg
    BY <1>5, <1>6
  <2> QED
    BY <1>0, <2>1 DEF HeapOK, MappingsOK
<1>8. PagesOK(z)
  <2>1. PagesOK(g)
    BY <1>0 DEF HeapOK
  <2>2. \A q \in DataPages : q \in DOMAIN z.pt /\ z.pt[q] = 1 + q - PageOf(DataAddr)
    BY <1>1, <2>1 DEF PagesOK, Loses
  <2>3. ASSUME NEW q \in DOMAIN z.pt \ DataPages
        PROVE  z.pt[q] = q /\ \E l \in DOMAIN z.mm : Within(z.mm[l], q)
    <3>1. q \in DOMAIN g.pt /\ z.pt[q] = g.pt[q]
      BY DEF Loses
    <3>2. g.pt[q] = q /\ \E l \in DOMAIN g.mm : Within(g.mm[l], q)
      BY <2>1, <3>1 DEF PagesOK
    <3>3. PICK l \in DOMAIN g.mm : Within(g.mm[l], q)
      BY <3>2
    <3>4. l \in DOMAIN z.mm /\ Within(z.mm[l], q)
      BY <1>2, <3>3
    <3> QED
      BY <3>1, <3>2, <3>4
  <2> QED
    BY <2>2, <2>3 DEF PagesOK
<1> QED
  BY <1>0, <1>3, <1>4, <1>7, <1>8 DEF HeapOK, Loses

\* Region i is given back.
Frees(g, z, i) ==
    /\ i \in g.alloc /\ z.alloc = g.alloc \ {i} /\ z.lists = Append(g.lists, i)
    /\ DOMAIN z.reg = DOMAIN g.reg /\ \A j \in DOMAIN g.reg : j # i => z.reg[j] = g.reg[j]
    /\ z.reg[i].base = g.reg[i].base /\ z.reg[i].size = g.reg[i].size /\ z.reg[i].free

LEMMA RegionFreed ==
    ASSUME NEW g \in HeapType, RegionsOK(g), NEW z, NEW i, Frees(g, z, i), z.top = g.top
    PROVE  RegionsOK(z)
<1>0. i \in g.alloc /\ g.alloc \subseteq DOMAIN g.reg /\ DOMAIN z.reg = DOMAIN g.reg
  BY DEF Frees, RegionsOK
<1>1. \A j \in DOMAIN g.reg : z.reg[j].base = g.reg[j].base /\ z.reg[j].size = g.reg[j].size
  BY DEF Frees
<1>2. ASSUME NEW j \in DOMAIN z.reg
      PROVE  /\ Whole(z.reg[j].base) /\ Whole(z.reg[j].size) /\ z.reg[j].size > 0
             /\ P <= z.reg[j].base /\ z.reg[j].base + z.reg[j].size <= z.top
  BY <1>0, <1>1 DEF RegionsOK
<1>3. ASSUME NEW j \in DOMAIN z.reg PROVE z.reg[j].free <=> j \notin z.alloc
  <2>1. CASE j = i
    BY <2>1 DEF Frees
  <2>2. CASE j # i
    <3>1. z.reg[j] = g.reg[j] /\ (j \in z.alloc <=> j \in g.alloc)
      BY <2>2, <1>0 DEF Frees
    <3> QED
      BY <1>0, <3>1 DEF RegionsOK
  <2> QED
    BY <2>1, <2>2
<1>4. \A j, l \in DOMAIN z.reg : j # l => Apart(z.reg[j], z.reg[l])
  BY <1>0, <1>1 DEF RegionsOK, Apart
<1>5. g.lists \in Seq(Nat) /\ g.alloc \in SUBSET Nat /\ z.lists = Append(g.lists, i)
  BY DEF HeapType, Frees
<1>6. i \in Nat
  BY <1>0, <1>5
<1> DEFINE e == Len(g.lists) + 1
<1>7. /\ DOMAIN z.lists = DOMAIN g.lists \cup {e} /\ e \notin DOMAIN g.lists
      /\ z.lists[e] = i /\ \A k \in DOMAIN g.lists : z.lists[k] = g.lists[k]
  BY ONLY <1>5, <1>6, Appended
<1> HIDE DEF e
<1>8. \A k \in DOMAIN g.lists : g.lists[k] \in DOMAIN g.reg \ g.alloc
  BY DEF RegionsOK
<1>9. \A k \in DOMAIN z.lists : z.lists[k] \in DOMAIN z.reg \ z.alloc
  BY <1>0, <1>7, <1>8 DEF Frees
<1>10. \A k, l \in DOMAIN g.lists : g.lists[k] = g.lists[l] => k = l
  BY DEF RegionsOK
<1>11. \A k, l \in DOMAIN z.lists : z.lists[k] = z.lists[l] => k = l
  BY <1>0, <1>7, <1>8, <1>10
<1>12. z.alloc \subseteq DOMAIN z.reg /\ Whole(z.top) /\ P <= z.top
  BY <1>0 DEF Frees, RegionsOK
<1> QED
  BY <1>2, <1>3, <1>4, <1>9, <1>11, <1>12 DEF RegionsOK

\* All pages of mapping k are unmapped and the mapping is gone with its region.
LEMMA AllUnmapped ==
    ASSUME NEW g, NEW k, NEW T, PagesOf(g, k, T), T # {}, g.mm[k].pages = Cardinality(T),
           NEW z \in HeapType, z.err = "none", Loses(g, z, T), Frees(g, z, g.mm[k].reg),
           z.mm = RemoveAt(g.mm, k)
    PROVE  HeapOK(z)
<1>0. HeapOK(g) /\ k \in DOMAIN g.mm
  BY DEF PagesOf
<1>1. /\ IsFiniteSet(Mine(g.pt, g.mm[k]) \ T) /\ Cardinality(T) \in Nat
      /\ Cardinality(Mine(g.pt, g.mm[k]) \ T) = g.mm[k].pages - Cardinality(T)
      /\ T \cap DataPages = {}
      /\ \A l \in DOMAIN g.mm : l # k => \A q \in T : ~Within(g.mm[l], q)
  BY ONLY PagesCounted, PagesOf(g, k, T), T # {}
<1>2. Mine(g.pt, g.mm[k]) \ T = {}
  <2>1. Cardinality(Mine(g.pt, g.mm[k]) \ T) = 0
    BY <1>1
  <2> QED
    BY <1>1, <2>1, FS_EmptySet
<1>3. RegionsOK(z)
  <2>1. g \in HeapType /\ RegionsOK(g) /\ z.top = g.top
    BY <1>0 DEF HeapOK, Loses
  <2> QED
    BY <2>1, RegionFreed
<1> DEFINE i == g.mm[k].reg
<1>4. g.mm \in Seq(MappingType) /\ i # 1 /\ 1 \in g.alloc /\ g.alloc \subseteq DOMAIN g.reg
  BY <1>0, Bounds
<1>5. \A j \in g.alloc : j # i => j \in z.alloc /\ z.reg[j] = g.reg[j]
  BY <1>4 DEF Frees
<1>6. DataOK(z)
  <2>1. 1 \in z.alloc /\ z.reg[1] = g.reg[1]
    BY <1>4, <1>5
  <2> QED
    BY <1>0, <2>1 DEF HeapOK, DataOK, Loses
<1>7. /\ \A j \in DOMAIN z.mm : \E l \in DOMAIN g.mm : l # k /\ z.mm[j] = g.mm[l]
      /\ \A l \in DOMAIN g.mm : l # k => \E j \in DOMAIN z.mm : z.mm[j] = g.mm[l]
      /\ \A j, o \in DOMAIN z.mm : j # o =>
           \E l, p \in DOMAIN g.mm : l # p /\ z.mm[j] = g.mm[l] /\ z.mm[o] = g.mm[p]
  <2> DEFINE s == g.mm
             t == RemoveAt(s, k)
  <2>1. z.mm = t /\ g.mm = s /\ s \in Seq(MappingType) /\ k \in DOMAIN s
    BY <1>0, <1>4
  <2> HIDE DEF s
  <2>2. /\ \A j \in DOMAIN t : \E l \in DOMAIN s : l # k /\ t[j] = s[l]
        /\ \A l \in DOMAIN s : l # k => \E j \in DOMAIN t : t[j] = s[l]
        /\ \A j, o \in DOMAIN t : j # o =>
             \E l, p \in DOMAIN s : l # p /\ t[j] = s[l] /\ t[o] = s[p]
    BY ONLY <2>1, RemovedEntries
  <2> HIDE DEF t
  <2> QED
    BY ONLY <2>1, <2>2
<1>8. ASSUME NEW l \in DOMAIN g.mm, l # k PROVE MappingOK(z, g.mm[l])
  <2>1. Mine(z.pt, g.mm[l]) = Mine(g.pt, g.mm[l])
    BY <1>1, <1>8 DEF Mine, Loses
  <2>2. MappingOK(g, g.mm[l]) /\ g.mm[l].reg # i
    BY <1>0, <1>8 DEF HeapOK, MappingsOK
  <2>3. g.mm[l].reg \in z.alloc /\ z.reg[g.mm[l].reg] = g.reg[g.mm[l].reg]
    BY <1>5, <2>2 DEF MappingOK
  <2> QED
    BY <2>1, <2>2, <2>3 DEF MappingOK
<1>9. MappingsOK(z)
  <2>1. \A j \in DOMAIN z.mm : MappingOK(z, z.mm[j])
    BY <1>7, <1>8
  <2>2. \A l, p \in DOMAIN g.mm : l # p => g.mm[l].reg # g.mm[p].reg
    BY <1>0 DEF HeapOK, MappingsOK
  <2>3. \A j, o \in DOMAIN z.mm : z.mm[j].reg = z.mm[o].reg => j = o
    BY <1>7, <2>2
  <2> QED
    BY <2>1, <2>3 DEF MappingsOK
<1>10. PagesOK(z)
  <2>1. PagesOK(g)
    BY <1>0 DEF HeapOK
  <2>2. \A q \in DataPages : q \in DOMAIN z.pt /\ z.pt[q] = 1 + q - PageOf(DataAddr)
    BY <1>1, <2>1 DEF PagesOK, Loses
  <2>3. ASSUME NEW q \in DOMAIN z.pt \ DataPages
        PROVE  z.pt[q] = q /\ \E l \in DOMAIN z.mm : Within(z.mm[l], q)
    <3>1. q \in DOMAIN g.pt /\ z.pt[q] = g.pt[q] /\ q \notin T
      BY DEF Loses
    <3>2. g.pt[q] = q /\ \E l \in DOMAIN g.mm : Within(g.mm[l], q)
      BY <2>1, <3>1 DEF PagesOK
    <3>3. PICK l \in DOMAIN g.mm : Within(g.mm[l], q)
      BY <3>2
    <3>4. l # k
      BY <1>2, <3>1, <3>3 DEF Mine
    <3> QED
      BY <1>7, <3>1, <3>2, <3>3, <3>4
  <2> QED
    BY <2>2, <2>3 DEF PagesOK
<1> QED
  BY <1>0, <1>3, <1>6, <1>9, <1>10 DEF HeapOK, Loses

\* Mappings differ in the address of their memory, from the data segment's too.
LEMMA HostsDiffer ==
    ASSUME NEW g, HeapOK(g), NEW k \in DOMAIN g.mm
    PROVE  /\ g.mm[k].host # P
           /\ \A l \in DOMAIN g.mm : l # k => g.mm[l].host # g.mm[k].host
<1>1. /\ g \in HeapType /\ RegionsOK(g) /\ 1 \in DOMAIN g.reg
      /\ \A l \in DOMAIN g.mm : g.mm[l].reg \in DOMAIN g.reg /\ g.mm[l].reg # 1
  BY Bounds
<1>2. \A l \in DOMAIN g.mm : g.mm[l].host = g.reg[g.mm[l].reg].base
  BY DEF HeapOK, MappingsOK, MappingOK
<1>3. ASSUME NEW i \in DOMAIN g.reg PROVE g.reg[i].base \in Int /\ RegionContains(g, i, g.reg[i].base)
  <2>1. g.reg[i] \in RegionType /\ g.reg[i].size > 0
    BY Bounds DEF HeapOK, RegionsOK
  <2> QED
    BY <2>1 DEF RegionType, RegionContains
<1>4. ASSUME NEW i \in DOMAIN g.reg, NEW j \in DOMAIN g.reg, g.reg[i].base = g.reg[j].base
      PROVE  i = j
  <2>1. /\ g.reg[i].base \in Int /\ RegionContains(g, i, g.reg[i].base)
        /\ RegionContains(g, j, g.reg[i].base)
    BY <1>3, <1>4
  <2> QED
    BY ONLY <1>1, <2>1, OneRegion, i \in DOMAIN g.reg, j \in DOMAIN g.reg
<1>5. g.reg[1].base = P
  BY DEF HeapOK, DataOK
<1>6. g.mm[k].host # P
  BY <1>1, <1>2, <1>4, <1>5
<1>7. \A l \in DOMAIN g.mm : l # k => g.mm[l].reg # g.mm[k].reg
  BY DEF HeapOK, MappingsOK
<1> QED
  BY <1>1, <1>2, <1>4, <1>6, <1>7

LEMMA RegionReturned ==
    ASSUME NEW y \in HeapType, y.err = "none", NEW i \in y.alloc, y.alloc \subseteq DOMAIN y.reg,
           NEW f, f = free_region(y, i)
    PROVE  /\ f \in HeapType /\ f.err = "none" /\ Frees(y, f, i)
           /\ f.pt = y.pt /\ f.brk = y.brk /\ f.mm = y.mm /\ f.curbrk = y.curbrk /\ f.top = y.top
<1>1. y.reg \in Seq(RegionType) /\ y.alloc \in SUBSET Nat /\ y.lists \in Seq(Nat)
  BY DEF HeapType
<1>2. i \in DOMAIN y.reg /\ i \in Nat
  BY <1>1
<1>3. y.reg[i] \in RegionType
  BY ONLY <1>1, <1>2
<1> DEFINE v == [y.reg[i] EXCEPT !.free = TRUE]
           R == [y.reg EXCEPT ![i] = v]
           A == y.alloc \ {i}
           L == Append(y.lists, i)
<1>4. v \in RegionType /\ v.base = y.reg[i].base /\ v.size = y.reg[i].size /\ v.free
  BY <1>3 DEF RegionType
<1>5. f = [y EXCEPT !.reg = R, !.alloc = A, !.lists = L]
  BY DEF free_region, Check, Then
<1> HIDE DEF v
<1>6. R \in Seq(RegionType) /\ DOMAIN R = DOMAIN y.reg
  BY ONLY <1>1, <1>2, <1>4
<1>7. R[i] = v /\ \A j \in DOMAIN y.reg : j # i => R[j] = y.reg[j]
  BY ONLY <1>1, <1>2
<1>8. A \in SUBSET Nat /\ L \in Seq(Nat)
  BY ONLY <1>1, <1>2
<1>9. A = y.alloc \ {i} /\ L = Append(y.lists, i)
  OBVIOUS
<1> HIDE DEF R, A, L
<1>10. f \in HeapType /\ f.reg = R /\ f.alloc = A /\ f.lists = L
  BY <1>5, <1>6, <1>8 DEF HeapType
<1>11. /\ f.err = "none"
       /\ f.pt = y.pt /\ f.brk = y.brk /\ f.mm = y.mm /\ f.curbrk = y.curbrk /\ f.top = y.top
  BY <1>5 DEF HeapType
<1>12. Frees(y, f, i)
  BY <1>4, <1>6, <1>7, <1>9, <1>10 DEF Frees
<1> QED
  BY <1>10, <1>11, <1>12

\* free_mapping erases the one mapping that has this memory.
LEMMA MappingErased ==
    ASSUME NEW f \in HeapType, f.err = "none", f.brk = <<DataMapping>>, NEW k \in DOMAIN f.mm,
           NEW v, v = f.mm[k], v.host # P, \A l \in DOMAIN f.mm : l # k => f.mm[l].host # v.host,
           NEW z, z = free_mapping(f, v)
    PROVE  /\ z \in HeapType /\ z.err = "none" /\ z.mm = RemoveAt(f.mm, k)
           /\ z.reg = f.reg /\ z.alloc = f.alloc /\ z.lists = f.lists
           /\ z.pt = f.pt /\ z.brk = f.brk /\ z.curbrk = f.curbrk /\ z.top = f.top
<1> DEFINE B == {i \in 1 .. Len(f.brk) : Same(f.brk[i], v)}
           M == {i \in 1 .. Len(f.mm) : Same(f.mm[i], v)}
<1>1. f.mm \in Seq(MappingType)
  BY DEF HeapType
<1>2. DOMAIN f.mm = 1 .. Len(f.mm) /\ k \in Nat /\ k # 0
  BY ONLY <1>1, k \in DOMAIN f.mm
<1>3. B = {}
  <2>1. Len(f.brk) = 1 /\ f.brk[1] = DataMapping
    BY ONLY f.brk = <<DataMapping>>
  <2>2. ~Same(DataMapping, v)
    BY DEF Same, DataMapping
  <2> QED
    BY ONLY <2>1, <2>2
<1>4. M = {k}
  <2>1. Same(v, v) /\ \A l \in DOMAIN f.mm : Same(f.mm[l], v) => l = k
    BY DEF Same
  <2> QED
    BY <1>2, <2>1
<1> DEFINE r == InEither(IF B # {} THEN Min(B) ELSE 0, IF M # {} THEN Min(M) ELSE 0)
<1>5. z = Then(Check(f, r.idx # 0, "heap.cc:214"), LAMBDA x :
             IF r.vec = "brk" THEN [x EXCEPT !.brk = RemoveAt(@, r.idx)]
                              ELSE [x EXCEPT !.mm = RemoveAt(@, r.idx)])
  BY DEF free_mapping, First, SelectInSeq
<1>6. r = Ref("mm", k)
  <2>1. M # {} /\ Min(M) = k
    BY <1>2, <1>4, Singleton
  <2> HIDE DEF M, B
  <2> QED
    BY <1>3, <2>1 DEF InEither
<1> HIDE DEF r
<1>7. r.vec = "mm" /\ r.idx = k
  BY <1>6 DEF Ref
<1> DEFINE N == RemoveAt(f.mm, k)
<1>8. z = [f EXCEPT !.mm = N]
  BY <1>2, <1>5, <1>7 DEF Check, Then
<1>9. N \in Seq(MappingType)
  BY ONLY <1>1, k \in DOMAIN f.mm, Removed
<1> HIDE DEF N
<1>10. z \in HeapType /\ z.mm = N
  BY <1>8, <1>9 DEF HeapType
<1>11. /\ z.err = "none" /\ z.reg = f.reg /\ z.alloc = f.alloc /\ z.lists = f.lists
       /\ z.pt = f.pt /\ z.brk = f.brk /\ z.curbrk = f.curbrk /\ z.top = f.top
  BY <1>8 DEF HeapType
<1> QED
  BY <1>10, <1>11 DEF N

LEMMA SameInterval ==
    ASSUME NEW n \in Nat, NEW m \in Nat, 1 .. n = 1 .. m
    PROVE  n = m
<1>1. CASE n < m
  <2>1. m \in 1 .. m /\ m \notin 1 .. n
    BY ONLY <1>1, n \in Nat, m \in Nat
  <2> QED
    BY <2>1
<1>2. CASE m < n
  <2>1. n \in 1 .. n /\ n \notin 1 .. m
    BY ONLY <1>2, n \in Nat, m \in Nat
  <2> QED
    BY <2>1
<1> QED
  BY <1>1, <1>2

LEMMA ReplacedAt ==
    ASSUME NEW S, NEW s \in Seq(S), NEW k \in DOMAIN s, NEW v \in S
    PROVE  /\ Replaced(s, k, v) \in Seq(S) /\ DOMAIN Replaced(s, k, v) = DOMAIN s
           /\ Replaced(s, k, v)[k] = v
           /\ \A l \in DOMAIN s : l # k => Replaced(s, k, v)[l] = s[l]
           /\ RemoveAt(Replaced(s, k, v), k) = RemoveAt(s, k)
<1> DEFINE t == Replaced(s, k, v)
<1>1. t \in Seq(S) /\ DOMAIN t = DOMAIN s /\ Len(t) = Len(s)
  BY DEF Replaced
<1>2. t[k] = v /\ \A l \in DOMAIN s : l # k => t[l] = s[l]
  BY DEF Replaced
<1> HIDE DEF t
<1> DEFINE a == RemoveAt(s, k)
           b == RemoveAt(t, k)
<1>3. /\ a \in Seq(S) /\ DOMAIN a = 1 .. Len(s) - 1
      /\ \A j \in 1 .. Len(s) - 1 : a[j] = s[IF j < k THEN j ELSE j + 1]
  BY Removed
<1>4. /\ b \in Seq(S) /\ DOMAIN b = 1 .. Len(s) - 1
      /\ \A j \in 1 .. Len(s) - 1 : b[j] = t[IF j < k THEN j ELSE j + 1]
  <2>1. k \in DOMAIN t
    BY <1>1
  <2> QED
    BY ONLY <1>1, <2>1, Removed
<1> HIDE DEF a, b
<1>5. k \in Nat /\ Len(s) \in Nat /\ DOMAIN s = 1 .. Len(s) /\ k \in 1 .. Len(s)
  OBVIOUS
<1>6. Len(a) = Len(s) - 1 /\ Len(b) = Len(s) - 1
  <2>1. Len(a) \in Nat /\ Len(b) \in Nat /\ DOMAIN a = 1 .. Len(a) /\ DOMAIN b = 1 .. Len(b)
    BY ONLY <1>3, <1>4
  <2>2. Len(s) - 1 \in Nat
    BY ONLY <1>5
  <2>3. 1 .. Len(a) = 1 .. Len(s) - 1 /\ 1 .. Len(b) = 1 .. Len(s) - 1
    BY ONLY <1>3, <1>4, <2>1
  <2> QED
    BY ONLY <2>1, <2>2, <2>3, SameInterval
<1>7. ASSUME NEW j \in 1 .. Len(s) - 1 PROVE a[j] = b[j]
  <2>1. CASE j < k
    <3>1. j \in DOMAIN s /\ j # k
      BY <1>5, <2>1
    <3> QED
      BY <1>2, <1>3, <1>4, <2>1, <3>1
  <2>2. CASE ~(j < k)
    <3>1. j + 1 \in DOMAIN s /\ j + 1 # k
      BY <1>5, <2>2
    <3> QED
      BY <1>2, <1>3, <1>4, <2>2, <3>1
  <2> QED
    BY <2>1, <2>2
<1>8. a = b
  BY ONLY <1>3, <1>4, <1>6, <1>7, SeqEqual
<1> QED
  BY <1>1, <1>2, <1>8 DEF a, b, t

\* unmap of mapped pages of one mapping.
LEMMA UnmapDone ==
    ASSUME NEW g, NEW k, NEW a, NEW n \in Nat \ {0}, NEW T, T = PageRun(a, n),
           PagesOf(g, k, T), Cardinality(T) = n,
           contains_address(g.mm[k], a), contains_address(g.mm[k], a + (n - 1) * P),
           NEW z, z = unmap(g, Ref("mm", k), a, n)
    PROVE  HeapOK(z) /\ Loses(g, z, T)
<1> DEFINE r == Ref("mm", k)
           m == g.mm[k]
           left == [m EXCEPT !.pages = m.pages - n]
           t == [q \in DOMAIN g.pt \ T |-> g.pt[q]]
           M == Replaced(g.mm, k, left)
           y == [g EXCEPT !.pt = t, !.mm = M]
<1>0. HeapOK(g) /\ k \in DOMAIN g.mm /\ T \subseteq DOMAIN g.pt
  BY DEF PagesOf
<1>1. T # {}
  <2>1. Cardinality(T) # 0
    BY ONLY Cardinality(T) = n, n \in Nat \ {0}
  <2> QED
    BY <2>1, FS_EmptySet
<1>2. n <= m.pages /\ n \in Nat /\ n > 0
  <2>1. Cardinality(T) <= m.pages
    BY ONLY <1>1, PagesOf(g, k, T), PagesCounted
  <2> QED
    BY <2>1
<1>3. /\ g \in HeapType /\ RegionsOK(g) /\ g.err = "none" /\ g.mm \in Seq(MappingType)
      /\ m \in MappingType /\ m.reg \in g.alloc /\ g.alloc \subseteq DOMAIN g.reg
  BY <1>0, Bounds DEF MappingOK
<1>4. g.pt \in PageTables /\ m.pages \in Nat
  BY <1>3 DEF HeapType, MappingType
<1>5. /\ left \in MappingType /\ left.pages = m.pages - n /\ left.host = m.host
      /\ left.addr = m.addr /\ left.length = m.length /\ left.prot = m.prot /\ left.reg = m.reg
  <2>1. m.pages - n \in Nat
    BY <1>2, <1>4
  <2> QED
    BY <1>3, <2>1 DEF MappingType
<1>6. Get(g, r) = m /\ r.vec = "mm" /\ r.idx = k
  BY DEF Get, Ref
<1>7. Check(Check(Check(Check(g,
                    contains_address(m, a), "heap.cc:333"),
                    n <= m.pages, "heap.cc:334"),
                    n > 0 /\ contains_address(m, a + (n - 1) * P), "heap.cc:335"),
                    PageRun(a, n) \subseteq DOMAIN g.pt, "heap.cc:338") = g
  BY <1>0, <1>2 DEF Check
<1>8. Set([g EXCEPT !.pt = t], r, left) = y
  <2>1. Set([g EXCEPT !.pt = t], r, left) = [[g EXCEPT !.pt = t] EXCEPT !.mm[k] = left]
    BY <1>6 DEF Set
  <2>2. [g EXCEPT !.pt = t].mm = g.mm
    BY <1>3 DEF HeapType
  <2> QED
    BY <2>1, <2>2 DEF Replaced
<1>9. z = IF left.pages > 0 THEN y
          ELSE IF free_region(y, m.reg).err = "none" THEN free_mapping(free_region(y, m.reg), left)
          ELSE free_region(y, m.reg)
  <2> DEFINE A == Check(Check(Check(Check(g,
                    contains_address(Get(g, r), a), "heap.cc:333"),
                    n <= Get(g, r).pages, "heap.cc:334"),
                    n > 0 /\ contains_address(Get(g, r), a + (n - 1) * P), "heap.cc:335"),
                    PageRun(a, n) \subseteq DOMAIN g.pt, "heap.cc:338")
             L == [Get(g, r) EXCEPT !.pages = @ - n]
             Y == Set([A EXCEPT !.pt = [q \in DOMAIN @ \ PageRun(a, n) |-> @[q]]], r, L)
             F == free_region(Y, Get(g, r).reg)
  <2>1. unmap(g, r, a, n) =
           IF A.err = "none"
           THEN IF L.pages > 0 THEN Y ELSE IF F.err = "none" THEN free_mapping(F, L) ELSE F
           ELSE A
    BY DEF unmap, Then
  <2>2. A = g
    BY ONLY <1>6, <1>7
  <2> HIDE DEF A
  <2>3. L = left
    BY ONLY <1>6
  <2> HIDE DEF L
  <2>4. Y = y
    <3>1. [A EXCEPT !.pt = [q \in DOMAIN @ \ PageRun(a, n) |-> @[q]]] = [g EXCEPT !.pt = t]
      BY <2>2
    <3> HIDE DEF t, y, left
    <3> QED
      BY ONLY <1>8, <2>3, <3>1
  <2> HIDE DEF Y
  <2>5. F = free_region(y, m.reg)
    BY ONLY <1>6, <2>4
  <2> HIDE DEF F, y, left
  <2> QED
    BY <1>3, <2>1, <2>2, <2>3, <2>4, <2>5
<1>10. t \in PageTables
  BY ONLY <1>4, Restricted
<1> HIDE DEF left, m
<1>11. /\ M \in Seq(MappingType) /\ DOMAIN M = DOMAIN g.mm /\ M[k] = left
       /\ \A l \in DOMAIN g.mm : l # k => M[l] = g.mm[l]
       /\ RemoveAt(M, k) = RemoveAt(g.mm, k)
  <2> DEFINE s == g.mm
  <2>1. M = Replaced(s, k, left) /\ s \in Seq(MappingType) /\ k \in DOMAIN s
        /\ left \in MappingType /\ g.mm = s
    BY <1>0, <1>3, <1>5
  <2> HIDE DEF s, M
  <2> QED
    BY ONLY <2>1, ReplacedAt
<1>12. DOMAIN t = DOMAIN g.pt \ T /\ \A q \in DOMAIN t : t[q] = g.pt[q]
  OBVIOUS
<1>y. y = [g EXCEPT !.pt = t, !.mm = M]
  OBVIOUS
<1> HIDE DEF M, t, y
<1>13. y \in HeapType /\ y.mm = M /\ y.pt = t
  BY <1>3, <1>10, <1>11, <1>y DEF HeapType
<1>14. /\ y.err = "none" /\ y.reg = g.reg /\ y.alloc = g.alloc /\ y.lists = g.lists
       /\ y.brk = g.brk /\ y.curbrk = g.curbrk /\ y.top = g.top
  BY <1>3, <1>y DEF HeapType
<1>15. Loses(g, y, T)
  BY <1>12, <1>13, <1>14 DEF Loses
<1>16. CASE left.pages > 0
  <2>1. z = y
    BY <1>9, <1>16
  <2>2. left.pages = m.pages - Cardinality(T)
    BY <1>5
  <2>3. HeapOK(y)
    BY ONLY <1>1, <1>5, <1>11, <1>13, <1>14, <1>15, <1>16, <2>2, PagesOf(g, k, T), PartUnmapped
       DEF m
  <2> QED
    BY <1>15, <2>1, <2>3
<1>17. CASE ~(left.pages > 0)
  <2>1. m.pages = Cardinality(T)
    BY <1>2, <1>4, <1>5, <1>17
  <2> DEFINE f == free_region(y, m.reg)
  <2>f. f = free_region(y, m.reg)
    OBVIOUS
  <2>2. z = IF f.err = "none" THEN free_mapping(f, left) ELSE f
    BY <1>9, <1>17
  <2> HIDE DEF f
  <2>3. y.alloc \subseteq DOMAIN y.reg /\ m.reg \in y.alloc
    BY <1>3, <1>14
  <2>4. /\ f \in HeapType /\ f.err = "none" /\ Frees(y, f, m.reg)
        /\ f.pt = y.pt /\ f.brk = y.brk /\ f.mm = y.mm /\ f.curbrk = y.curbrk /\ f.top = y.top
    BY ONLY <1>13, <1>14, <2>f, <2>3, RegionReturned
  <2>5. z = free_mapping(f, left)
    BY <2>2, <2>4
  <2>6. f.brk = <<DataMapping>> /\ k \in DOMAIN f.mm /\ left = f.mm[k]
    BY <1>0, <1>11, <1>13, <1>14, <2>4 DEF HeapOK, DataOK
  <2>7. left.host # P /\ \A l \in DOMAIN f.mm : l # k => f.mm[l].host # left.host
    <3>1. m.host # P /\ \A l \in DOMAIN g.mm : l # k => g.mm[l].host # m.host
      BY <1>0, HostsDiffer DEF m
    <3> QED
      BY <1>5, <1>11, <1>13, <2>4, <3>1
  <2>8. /\ z \in HeapType /\ z.err = "none" /\ z.mm = RemoveAt(f.mm, k)
        /\ z.reg = f.reg /\ z.alloc = f.alloc /\ z.lists = f.lists
        /\ z.pt = f.pt /\ z.brk = f.brk /\ z.curbrk = f.curbrk /\ z.top = f.top
    BY ONLY <2>4, <2>5, <2>6, <2>7, MappingErased
  <2>9. z.mm = RemoveAt(g.mm, k)
    BY ONLY <1>11, <1>13, <2>4, <2>8
  <2>10. Loses(g, z, T)
    BY ONLY <1>15, <2>4, <2>8 DEF Loses
  <2>11. Frees(g, z, m.reg)
    BY ONLY <1>14, <2>4, <2>8 DEF Frees
  <2>12. HeapOK(z)
    BY ONLY <1>1, <2>1, <2>8, <2>9, <2>10, <2>11, PagesOf(g, k, T), AllUnmapped DEF m
  <2> QED
    BY <2>10, <2>12
<1> QED
  BY <1>16, <1>17

\* munmap of a mapped range in one mapping.
LEMMA Munmapped ==
    ASSUME NEW g, HeapOK(g), NEW a, Whole(a), PageOf(a) \in DOMAIN g.pt, PageOf(a) \notin DataPages,
           NEW len \in Nat \ {0}, NEW T, T = PageRun(a, pages_from_size(len)),
           T \subseteq DOMAIN g.pt,
           NEW k \in DOMAIN g.mm, contains_address(g.mm[k], a), contains_address(g.mm[k], a + len - 1),
           NEW z, z = elkvm_do_munmap(g, a, len).heap
    PROVE  HeapOK(z) /\ Loses(g, z, T)
<1> DEFINE n == pages_from_size(len)
           m == g.mm[k]
           r == FindMappingOfHost(g, HostOf(g, a))
<1>1. PICK b \in Nat : a = P * b
  BY DEF Whole
<1>2. PageOf(a) = b /\ a % P = 0 /\ a \in Nat
  <2>1. PageOf(P * b) = b /\ (P * b) % P = 0 /\ P * b \in Nat
    BY ONLY b \in Nat, WholePages, PageBytes
  <2> QED
    BY ONLY <1>1, <2>1
<1>3. n \in Nat \ {0} /\ P * n < len + P /\ P * n \in Nat
  BY RoundedUp
<1>4. HostOf(g, a) = a
  <2>1. g.pt[b] = b
    BY <1>2 DEF HeapOK, PagesOK
  <2>2. HostOf(g, a) = P * b + 0
    BY <1>2, <2>1 DEF HostOf
  <2> QED
    BY <1>1, <1>2, <2>2
<1>5. r = Ref("mm", k)
  BY <1>2, <1>4, HostFound
<1>6. g.err = "none" /\ k # 0 /\ m \in MappingType
  <2>1. g.err = "none" /\ g.mm \in Seq(MappingType) /\ m \in MappingType
    BY Bounds
  <2>2. k # 0
    BY ONLY <2>1, k \in DOMAIN g.mm
  <2> QED
    BY <2>1, <2>2
<1>7. z = unmap(g, Ref("mm", k), a, n)
  <2>1. elkvm_do_munmap(g, a, len).heap =
          IF Check(g, r.idx # 0, "heap.cc:136").err = "none"
          THEN unmap(Check(g, r.idx # 0, "heap.cc:136"), r, a, n)
          ELSE Check(g, r.idx # 0, "heap.cc:136")
    BY DEF elkvm_do_munmap, Done, Then
  <2> HIDE DEF r
  <2>2. r.idx # 0
    BY <1>5, <1>6 DEF Ref
  <2>3. Check(g, r.idx # 0, "heap.cc:136") = g
    BY <2>2 DEF Check
  <2> QED
    BY <1>5, <1>6, <2>1, <2>3
<1> HIDE DEF n, r
<1>8. /\ m.addr \in Nat /\ m.length \in Nat /\ m.addr <= a /\ a < m.addr + m.length
      /\ a + len - 1 < m.addr + m.length
  BY <1>6 DEF MappingType, contains_address
<1>9. /\ T \subseteq Nat /\ Cardinality(T) = n
      /\ \A q \in T : a <= P * q /\ P * q < a + P * n
  <2>1. T = PageRun(P * b, n) /\ n \in Nat
    BY <1>1, <1>3 DEF n
  <2>2. /\ PageRun(P * b, n) \subseteq Nat /\ Cardinality(PageRun(P * b, n)) = n
        /\ \A q \in Int : q \in PageRun(P * b, n) <=> P * b <= P * q /\ P * q < P * b + P * n
    BY ONLY <2>1, b \in Nat, Run
  <2>3. T \subseteq Nat /\ Cardinality(T) = n
    BY ONLY <2>1, <2>2
  <2>4. \A q \in T : q \in Int
    BY ONLY <2>3
  <2> QED
    BY ONLY <1>1, <2>1, <2>2, <2>3, <2>4
<1>10. P * n - P <= len - 1
  BY <1>3, PageSize
<1>11. ASSUME NEW q \in T PROVE Within(m, q)
  <2>0. q \in Nat /\ P * q \in Nat
    BY <1>9, PageSize
  <2>1. P * q <= a + P * n - P
    <3>1. T = b .. b + n - 1
      BY <1>1, <1>3, Run DEF n
    <3> DEFINE e == b + n - 1
    <3>2. q <= e /\ e \in Int /\ q \in Int
      BY <1>3, <2>0, <3>1
    <3>3. P * e = P * b + P * n - P
      BY <1>3, PageSize
    <3> HIDE DEF e
    <3>4. P * q <= P * e
      BY ONLY <3>2, PageOrder
    <3> QED
      BY <1>1, <3>3, <3>4
  <2>2. m.addr <= P * q /\ P * q < m.addr + m.length
    BY <1>2, <1>3, <1>8, <1>9, <1>10, <2>0, <2>1, PageSize
  <2> QED
    BY <2>2 DEF Within, contains_address
<1>12. contains_address(m, a + (n - 1) * P)
  <2>1. (n - 1) * P = P * n - P /\ (n - 1) * P >= 0 /\ (n - 1) * P \in Int
    BY <1>3, PageSize
  <2>2. m.addr <= a + (n - 1) * P /\ a + (n - 1) * P < m.addr + m.length
    BY <1>2, <1>3, <1>8, <1>10, <2>1, PageSize
  <2> QED
    BY <2>2 DEF contains_address
<1>13. PagesOf(g, k, T)
  BY <1>11 DEF PagesOf
<1>14. T = PageRun(a, n)
  BY DEF n
<1>15. contains_address(g.mm[k], a)
  OBVIOUS
<1> QED
  BY ONLY <1>3, <1>7, <1>9, <1>12, <1>13, <1>14, <1>15, UnmapDone

--------------------------------------------------------------------------------
(***************************************************************************)
(* The theorems.  They assume RoomBelowData: what all calls together can   *)
(* take as memory for the heap does not meet the data segment.             *)
(***************************************************************************)
TopBound == \A n \in Nat : Covers(n) => h.top <= P + pagesize_align(DataSize) + calls * n

\* What the last call did.
Served ==
    /\ call.op \in {"mmap", "mmap_fixed"} /\ call.prot # "none" =>
          PageRun(call.ret, pages_from_size(call.len)) \subseteq DOMAIN h.pt
    /\ call.op = "munmap" =>
          PageRun(call.addr, pages_from_size(call.len)) \cap DOMAIN h.pt = {}

HeapInv == /\ calls \in Nat
           /\ kinds \subseteq Mix => HeapOK(h) /\ TopBound /\ Served

LEMMA Room ==
    ASSUME RoomBelowData
    PROVE  \E n \in Nat : Covers(n) /\ P + pagesize_align(DataSize) + MaxCalls * n <= DataAddr
<1>1. PICK n \in {ChunkSize} \cup {pagesize_align(len) : len \in Lengths} :
          Covers(n) /\ P + pagesize_align(DataSize) + MaxCalls * n <= DataAddr
  BY DEF RoomBelowData
<1>2. \A len \in Lengths : pagesize_align(len) \in Nat
  <2>1. Lengths \subseteq Nat \ {0}
    BY HeapConstants
  <2> QED
    BY <2>1, RoundedUp
<1>3. n \in Nat
  BY <1>1, <1>2, HeapConstants
<1> QED
  BY <1>1, <1>3

LEMMA Products ==
    ASSUME NEW a \in Nat, NEW b \in Nat, a <= b, NEW n \in Nat
    PROVE  /\ a * n \in Nat /\ b * n \in Nat /\ (a + 1) * n \in Nat
           /\ (a + 1) * n = a * n + n /\ a * n <= b * n
<1>1. a * n \in Nat /\ b * n \in Nat /\ (a + 1) * n = a * n + n
  OBVIOUS
<1>2. PICK d \in Nat : b = a + d
  <2>1. b - a \in Nat /\ b = a + (b - a)
    OBVIOUS
  <2> QED
    BY <2>1
<1>3. b * n = a * n + d * n /\ d * n \in Nat
  BY <1>2
<1> QED
  BY <1>1, <1>3

LEMMA InitialHeap ==
    ASSUME RoomBelowData, Init
    PROVE  HeapInv
<1> DEFINE s == pagesize_align(DataSize)
           n == pages_from_size(DataSize)
           reg == [base |-> P, size |-> s, guest |-> DataAddr, free |-> FALSE]
           t == [q \in DataPages |-> 1 + q - PageOf(DataAddr)]
<1>1. /\ DataSize \in Nat \ {0} /\ DataAddr = P * PageOf(DataAddr) /\ PageOf(DataAddr) \in Nat
      /\ DataPages \subseteq Nat /\ next_page(DataAddr + DataSize) = DataAddr + s
      /\ \A q \in Int : q \in DataPages <=> DataAddr <= P * q /\ P * q < DataAddr + s
  BY DataSegment
<1>2. s \in Nat /\ s > 0 /\ s = P * n /\ n \in Nat \ {0} /\ DataAddr \in Nat /\ P \in Nat \ {0}
  BY <1>1, RoundedUp, HeapConstants
<1>3. P + s <= DataAddr
  <2>1. PICK c \in Nat : P + s + MaxCalls * c <= DataAddr
    BY Room
  <2>2. MaxCalls * c \in Nat
    BY HeapConstants
  <2> QED
    BY <1>2, <2>1, <2>2
<1>4. reg \in RegionType
  BY <1>2 DEF RegionType
<1>5. DataMapping \in MappingType
  BY <1>1, <1>2 DEF DataMapping, MappingType
<1>6. t \in PageTables
  <2>1. \A q \in DataPages : 1 + q - PageOf(DataAddr) \in Nat
    <3> SUFFICES ASSUME NEW q \in DataPages PROVE PageOf(DataAddr) <= q
      BY <1>1
    <3>1. q \in Nat /\ P * PageOf(DataAddr) <= P * q
      BY <1>1
    <3> QED
      BY <1>1, <3>1, PageOrder
  <2>2. t \in [DataPages -> Nat]
    BY <2>1
  <2> HIDE DEF t
  <2> QED
    BY <1>1, <2>2 DEF PageTables
<1>7. h = [reg |-> <<reg>>, alloc |-> {1}, lists |-> <<>>, top |-> P + s, got |-> 1,
           brk |-> <<DataMapping>>, mm |-> <<>>, cap |-> 0, pt |-> t,
           curbrk |-> next_page(DataAddr + DataSize), err |-> "none"]
  BY DEF Init, DataMapping, DataPages
<1>8. /\ reg.base = P /\ reg.size = s /\ reg.free = FALSE
      /\ DOMAIN t = DataPages /\ \A q \in DataPages : t[q] = 1 + q - PageOf(DataAddr)
  OBVIOUS
<1> HIDE DEF s, n, reg, t
<1>9. /\ h.reg = <<reg>> /\ h.alloc = {1} /\ h.lists = <<>> /\ h.top = P + s /\ h.err = "none"
      /\ h.brk = <<DataMapping>> /\ h.mm = <<>> /\ h.pt = t
      /\ h.curbrk = next_page(DataAddr + DataSize)
  BY <1>7
<1>10. h \in HeapType
  <2>1. <<reg>> \in Seq(RegionType) /\ <<DataMapping>> \in Seq(MappingType)
    BY <1>4, <1>5
  <2>2. <<>> \in Seq(Nat) /\ <<>> \in Seq(MappingType) /\ {1} \in SUBSET Nat
    OBVIOUS
  <2>3. P + s \in Nat /\ next_page(DataAddr + DataSize) \in Nat /\ 1 \in Nat /\ 0 \in Nat
    BY <1>1, <1>2
  <2> DEFINE R == <<reg>>
             B == <<DataMapping>>
             L == <<>>
             A == {1}
             u == P + s
             c == next_page(DataAddr + DataSize)
             e == "none"
             o == 1
             i == 0
  <2>4. h = [reg |-> R, alloc |-> A, lists |-> L, top |-> u, got |-> o, brk |-> B, mm |-> L,
             cap |-> i, pt |-> t, curbrk |-> c, err |-> e]
    BY ONLY <1>7
  <2>6. e \in {"none"}
    OBVIOUS
  <2>7. o \in Nat /\ i \in Nat
    OBVIOUS
  <2>5. /\ R \in Seq(RegionType) /\ B \in Seq(MappingType) /\ A \in SUBSET Nat /\ u \in Nat
        /\ c \in Nat /\ L \in Seq(Nat) /\ L \in Seq(MappingType)
    BY ONLY <2>1, <2>2, <2>3
  <2> HIDE DEF R, B, L, A, u, c, e, o, i
  <2> QED
    BY ONLY <1>6, <2>4, <2>5, <2>6, <2>7 DEF HeapType
<1>11. RegionsOK(h)
  <2>1. DOMAIN h.reg = {1} /\ h.reg[1] = reg /\ DOMAIN h.lists = {}
    BY <1>9
  <2>2. Whole(P) /\ Whole(s) /\ Whole(P + s)
    <3>1. P = P * 1 /\ P + s = P * (n + 1) /\ n + 1 \in Nat
      BY <1>2, PageOrder
    <3> QED
      BY <1>2, <3>1 DEF Whole
  <2> QED
    BY <1>2, <1>8, <1>9, <2>1, <2>2 DEF RegionsOK
<1>12. DataOK(h)
  <2>1. h.reg[1] = reg
    BY <1>9
  <2> QED
    BY <1>8, <1>9, <2>1 DEF DataOK, s
<1>13. MappingsOK(h)
  <2>1. DOMAIN h.mm = {}
    BY <1>9
  <2> QED
    BY <2>1 DEF MappingsOK
<1>14. PagesOK(h)
  BY <1>8, <1>9 DEF PagesOK
<1>15. HeapOK(h)
  BY <1>3, <1>9, <1>10, <1>11, <1>12, <1>13, <1>14 DEF HeapOK
<1>16. calls = 0 /\ call.op = "none"
  BY DEF Init
<1>17. TopBound
  <2>1. \A c \in Nat : calls * c = 0
    BY <1>16
  <2> QED
    BY <1>2, <1>9, <2>1 DEF TopBound, s
<1>18. Served
  BY <1>16 DEF Served
<1> QED
  BY <1>15, <1>16, <1>17, <1>18 DEF HeapInv

\* A step of mmap with a free choice of the address.
MmapStep == \E len \in Lengths, prot \in Prots :
              Made("mmap", 0, len, prot, elkvm_do_mmap(h, 0, len, prot))
MunmapStep == \E x \in Ranges :
              /\ Made("munmap", x[1], x[2], "rw", elkvm_do_munmap(h, x[1], x[2]))
              /\ InOneMapping(x[1], x[2]) \/ Clear(x[1], x[2])
              /\ ~(x[1] + pagesize_align(x[2]) > DataAddr)

LEMMA StepsOfMix ==
    ASSUME SystemCall, kinds' \subseteq Mix
    PROVE  kinds \subseteq Mix /\ (MmapStep \/ MunmapStep)
<1>1. ASSUME NEW op, NEW a, NEW len, NEW prot, NEW d, Made(op, a, len, prot, d)
      PROVE  kinds \subseteq Mix /\ KindOf(op, a, len) \in Mix
  BY <1>1 DEF Made
<1>2. CASE \E len \in Lengths, prot \in Prots :
             Made("mmap", 0, len, prot, elkvm_do_mmap(h, 0, len, prot))
  BY <1>1, <1>2 DEF MmapStep
<1>3. CASE \E a \in Fixed, len \in Lengths, prot \in Prots :
             Made("mmap_fixed", a, len, prot, elkvm_do_mmap(h, a, len, prot))
  <2>1. PICK a, len : KindOf("mmap_fixed", a, len) \in Mix
    BY <1>1, <1>3
  <2> QED
    BY <2>1 DEF KindOf, Mix
<1>4. CASE \E x \in Ranges : Made("munmap", x[1], x[2], "rw", elkvm_do_munmap(h, x[1], x[2]))
  <2>1. PICK x \in Ranges : Made("munmap", x[1], x[2], "rw", elkvm_do_munmap(h, x[1], x[2]))
    BY <1>4
  <2>2. kinds \subseteq Mix /\ KindOf("munmap", x[1], x[2]) \in Mix
    BY <1>1, <2>1
  <2>3. (InOneMapping(x[1], x[2]) \/ Clear(x[1], x[2])) /\ ~(x[1] + pagesize_align(x[2]) > DataAddr)
    BY <2>2 DEF KindOf, Mix
  <2> QED
    BY <2>1, <2>2, <2>3 DEF MunmapStep
<1>5. CASE \E x \in Ranges, prot \in Prots :
             Made("mprotect", x[1], x[2], prot, elkvm_do_mprotect(h, x[1], x[2], prot))
  <2>1. PICK a, len : KindOf("mprotect", a, len) \in Mix
    BY <1>1, <1>5
  <2> QED
    BY <2>1 DEF KindOf, Mix
<1>6. CASE \E x \in Ranges, new \in Lengths :
             Made("mremap", x[1], new, "rw", elkvm_do_mremap(h, x[1], new))
  <2>1. PICK a, len : KindOf("mremap", a, len) \in Mix
    BY <1>1, <1>6
  <2> QED
    BY <2>1 DEF KindOf, Mix
<1>7. CASE \E brk \in Breaks : Made("brk", brk, 0, "rw", elkvm_do_brk(h, brk))
  <2>1. PICK a, len : KindOf("brk", a, len) \in Mix
    BY <1>1, <1>7
  <2> QED
    BY <2>1 DEF KindOf, Mix
<1> QED
  BY <1>2, <1>3, <1>4, <1>5, <1>6, <1>7 DEF SystemCall

LEMMA MmapServed ==
    ASSUME RoomBelowData, HeapOK(h), TopBound, calls \in Nat, calls < MaxCalls, calls' = calls + 1,
           MmapStep
    PROVE  /\ HeapOK(h') /\ TopBound' /\ Served' /\ call'.op = "mmap"
           /\ \A q \in DOMAIN h.pt : q \in DOMAIN h'.pt /\ h'.pt[q] = h.pt[q]
<1>1. PICK len \in Lengths, prot \in Prots :
         Made("mmap", 0, len, prot, elkvm_do_mmap(h, 0, len, prot))
  BY DEF MmapStep
<1> DEFINE x == create_mapping(h, 0, len, prot, 0)
           N == pagesize_align(len)
<1>2. elkvm_do_mmap(h, 0, len, prot) = [heap |-> x, ret |-> x.reg[x.got].base]
  BY DEF elkvm_do_mmap, Done
<1>3. h' = x /\ call' = [op |-> "mmap", addr |-> 0, len |-> len, prot |-> prot, ret |-> x.reg[x.got].base]
  <2> HIDE DEF x
  <2> QED
    BY <1>1, <1>2 DEF Made
<1>4. len \in Nat \ {0} /\ prot \in {"none", "r", "rw"} /\ MaxCalls \in Nat /\ ChunkSize \in Nat
      /\ DataAddr \in Nat
  BY HeapConstants
<1>5. N \in Nat
  BY <1>4, RoundedUp
<1>6. ASSUME NEW n \in Nat, Covers(n) PROVE Growth(N) \in Nat /\ Growth(N) <= n
  BY <1>4, <1>5, <1>6 DEF Growth, Covers
<1> DEFINE B == P + pagesize_align(DataSize)
<1>7. h.top \in Nat /\ B \in Nat
  <2>1. h.top \in Nat
    BY DEF HeapOK, HeapType
  <2>2. pagesize_align(DataSize) \in Nat
    BY DataSegment, RoundedUp
  <2> QED
    BY <2>1, <2>2, PageSize
<1>8. ASSUME NEW n \in Nat, Covers(n) PROVE h.top <= B + calls * n
  BY <1>8 DEF TopBound
<1>N. N = pagesize_align(len)
  OBVIOUS
<1> HIDE DEF B, N
<1>9. h.top + Growth(N) <= DataAddr
  <2>1. PICK n \in Nat : Covers(n) /\ B + MaxCalls * n <= DataAddr
    BY Room DEF B
  <2>2. /\ calls * n \in Nat /\ MaxCalls * n \in Nat /\ (calls + 1) * n \in Nat
        /\ (calls + 1) * n = calls * n + n /\ (calls + 1) * n <= MaxCalls * n
    <3>1. calls + 1 \in Nat /\ calls + 1 <= MaxCalls /\ calls <= calls + 1
      BY <1>4
    <3> QED
      BY <1>4, <3>1, Products
  <2>3. h.top <= B + calls * n /\ Growth(N) <= n /\ Growth(N) \in Nat
    BY <1>6, <1>8, <2>1
  <2> QED
    BY <1>4, <1>7, <2>1, <2>2, <2>3
<1>x. x = create_mapping(h, 0, len, prot, 0)
  OBVIOUS
<1> HIDE DEF x
<1>10. /\ HeapOK(x) /\ x.top <= h.top + Growth(N)
       /\ \A q \in DOMAIN h.pt : q \in DOMAIN x.pt /\ x.pt[q] = h.pt[q]
       /\ prot # "none" => PageRun(x.reg[x.got].base, pages_from_size(len)) \subseteq DOMAIN x.pt
  BY ONLY <1>4, <1>N, <1>9, <1>x, HeapOK(h), Created
<1>11. HeapOK(h')
  BY <1>3, <1>10
<1>12. TopBound'
  <2> SUFFICES ASSUME NEW n \in Nat, Covers(n) PROVE h'.top <= B + calls' * n
    BY DEF TopBound, B, Covers, pagesize_align, pages_from_size
  <2>1. calls * n \in Nat /\ (calls + 1) * n = calls * n + n
    BY Products
  <2>2. x.top \in Nat
    BY <1>10 DEF HeapOK, HeapType
  <2>3. x.top <= B + (calls + 1) * n
    BY <1>6, <1>7, <1>8, <1>10, <2>1, <2>2
  <2> QED
    BY <1>3, <2>3
<1>13. Served'
  BY <1>3, <1>10 DEF Served, pages_from_size, PageRun, PageOf
<1> QED
  BY <1>3, <1>10, <1>11, <1>12, <1>13

LEMMA MunmapServed ==
    ASSUME HeapOK(h), TopBound, calls \in Nat, calls' = calls + 1, MunmapStep
    PROVE  /\ HeapOK(h') /\ TopBound' /\ Served' /\ call'.op = "munmap"
           /\ \A q \in DOMAIN h.pt \ PageRun(call'.addr, pages_from_size(call'.len)) :
                q \in DOMAIN h'.pt /\ h'.pt[q] = h.pt[q]
<1>1. PICK x \in Ranges :
         /\ Made("munmap", x[1], x[2], "rw", elkvm_do_munmap(h, x[1], x[2]))
         /\ InOneMapping(x[1], x[2]) \/ Clear(x[1], x[2])
         /\ ~(x[1] + pagesize_align(x[2]) > DataAddr)
  BY DEF MunmapStep
<1> DEFINE a == x[1]
           len == x[2]
           T == PageRun(a, pages_from_size(len))
           z == elkvm_do_munmap(h, a, len).heap
<1>2. PICK q0 \in DOMAIN h.pt : a = P * q0
  BY DEF Ranges
<1>3. len \in Lengths /\ T \subseteq DOMAIN h.pt /\ ~(a + pagesize_align(len) > DataAddr)
  BY <1>1 DEF Ranges
<1>4. h' = z /\ call'.op = "munmap" /\ call'.addr = a /\ call'.len = len
  BY <1>1 DEF Made
<1>z. z = elkvm_do_munmap(h, a, len).heap
  OBVIOUS
<1> HIDE DEF z, a, len
<1>5. len \in Nat \ {0} /\ q0 \in Nat /\ DOMAIN h.pt \subseteq Nat
  BY <1>3, HeapConstants, Bounds
<1>6. Whole(a) /\ PageOf(a) = q0 /\ a \in Nat
  <2>1. PageOf(P * q0) = q0 /\ P * q0 \in Nat
    BY ONLY <1>5, WholePages, PageOrder
  <2>2. Whole(a)
    BY ONLY <1>2, <1>5 DEF Whole
  <2> QED
    BY ONLY <1>2, <2>1, <2>2
\* The range is not in the data segment, so it is in a mapping.
<1>7. q0 \notin DataPages
  <2> SUFFICES ASSUME q0 \in DataPages PROVE FALSE
    OBVIOUS
  <2>1. DataAddr <= a
    BY <1>2, <1>5, DataSegment
  <2>2. pagesize_align(len) \in Nat /\ len <= pagesize_align(len)
    BY <1>5, RoundedUp
  <2>3. DataAddr \in Nat
    BY HeapConstants
  <2> QED
    BY <1>3, <1>5, <1>6, <2>1, <2>2, <2>3
<1>8. PICK l \in DOMAIN h.mm : contains_address(h.mm[l], a)
  BY <1>2, <1>7 DEF HeapOK, PagesOK, Within
<1>9. ~Clear(a, len)
  <2> SUFFICES ASSUME Clear(a, len) PROVE FALSE
    OBVIOUS
  <2>1. h.mm[l].addr + h.mm[l].length <= a \/ a + len <= h.mm[l].addr
    BY DEF Clear, ToSet
  <2>2. h.mm[l] \in MappingType
    BY Bounds
  <2> QED
    BY <1>5, <1>6, <1>8, <2>1, <2>2 DEF MappingType, contains_address
<1>10. PICK k \in DOMAIN h.mm :
          contains_address(h.mm[k], a) /\ contains_address(h.mm[k], a + len - 1)
  <2>1. InOneMapping(a, len)
    BY <1>1, <1>9 DEF a, len
  <2> QED
    BY <2>1 DEF InOneMapping, ToSet
<1>11. HeapOK(z) /\ Loses(h, z, T)
  BY <1>2, <1>3, <1>5, <1>6, <1>7, <1>10, <1>z, Munmapped
<1>12. HeapOK(h') /\ DOMAIN h'.pt = DOMAIN h.pt \ T /\ h'.top = h.top
       /\ \A q \in DOMAIN h'.pt : h'.pt[q] = h.pt[q]
  BY <1>4, <1>11 DEF Loses
<1>13. TopBound'
  <2> SUFFICES ASSUME NEW n \in Nat, Covers(n)
               PROVE  h'.top <= P + pagesize_align(DataSize) + calls' * n
    BY DEF TopBound, Covers, pagesize_align, pages_from_size
  <2>1. calls * n \in Nat /\ (calls + 1) * n = calls * n + n
    BY Products
  <2>2. h.top \in Nat /\ h.top <= P + pagesize_align(DataSize) + calls * n
    BY DEF HeapOK, HeapType, TopBound
  <2>3. P + pagesize_align(DataSize) \in Nat
    BY DataSegment, RoundedUp, PageSize
  <2> QED
    BY <1>12, <2>1, <2>2, <2>3
<1>14. Served'
  BY <1>4, <1>12 DEF Served, pages_from_size, PageRun, PageOf
<1>15. T = PageRun(call'.addr, pages_from_size(call'.len))
  BY <1>4
<1> QED
  BY <1>4, <1>12, <1>13, <1>14, <1>15

LEMMA HeapStep ==
    ASSUME RoomBelowData, HeapInv, [Next]_vars
    PROVE  HeapInv'
<1>1. CASE UNCHANGED vars
  BY <1>1 DEF vars, HeapInv, HeapOK, TopBound, Served
<1>2. CASE h.err = "none" /\ calls < MaxCalls /\ calls' = calls + 1 /\ SystemCall
  <2>1. calls \in Nat /\ calls' \in Nat
    BY <1>2 DEF HeapInv
  <2>2. ASSUME kinds' \subseteq Mix PROVE HeapOK(h') /\ TopBound' /\ Served'
    <3>1. kinds \subseteq Mix /\ (MmapStep \/ MunmapStep)
      BY <1>2, <2>2, StepsOfMix
    <3>2. HeapOK(h) /\ TopBound
      BY <3>1 DEF HeapInv
    <3>3. CASE MmapStep
      BY <1>2, <2>1, <3>2, <3>3, MmapServed
    <3>4. CASE MunmapStep
      BY <1>2, <2>1, <3>2, <3>4, MunmapServed
    <3> QED
      BY <3>1, <3>3, <3>4
  <2> QED
    BY <2>1, <2>2 DEF HeapInv, Mix
<1> QED
  BY <1>1, <1>2 DEF Next

LEMMA HeapInductive ==
    ASSUME RoomBelowData
    PROVE  Spec => []HeapInv
<1>1. Init => HeapInv
  BY InitialHeap
<1>2. HeapInv /\ [Next]_vars => HeapInv'
  BY HeapStep
<1> QED
  BY <1>1, <1>2, PTL DEF Spec

\* In whatever order mmap and munmap split chunks, hand out, partly unmap and give
\* back regions, no assertion of the heap, of a mapping or of a region fails.
THEOREM AssertionsTheorem ==
    ASSUME RoomBelowData
    PROVE  Spec => [](kinds \subseteq Mix => AssertionsHold)
<1>1. HeapInv => (kinds \subseteq Mix => AssertionsHold)
  BY DEF HeapInv, HeapOK, AssertionsHold
<1> QED
  BY <1>1, HeapInductive, PTL

\* Under mmap and munmap a page of the guest is one page of an allocated region, no
\* other page of the guest is the same memory, and no free list has it.
THEOREM AllocatedTheorem ==
    ASSUME RoomBelowData
    PROVE  Spec => [](kinds \subseteq Mix => MappedIsAllocated)
<1>1. HeapInv => (kinds \subseteq Mix => MappedIsAllocated)
  <2> SUFFICES ASSUME HeapInv, kinds \subseteq Mix PROVE MappedIsAllocated
    OBVIOUS
  <2>1. HeapOK(h)
    BY DEF HeapInv
  <2>2. /\ h \in HeapType /\ RegionsOK(h) /\ DOMAIN h.pt \subseteq Nat
        /\ h.alloc \subseteq DOMAIN h.reg /\ 1 \in h.alloc
        /\ \A k \in DOMAIN h.mm : h.mm[k].reg # 1 /\ h.mm[k].reg \in h.alloc
    BY <2>1, Bounds DEF MappingOK
  \* The memory of a page of the data segment is in the first region.
  <2>3. ASSUME NEW q \in DataPages
        PROVE  h.pt[q] \in Int /\ RegionContains(h, 1, P * h.pt[q]) /\ q \in Int
    <3> DEFINE b == PageOf(DataAddr)
               s == pagesize_align(DataSize)
    <3>1. /\ q \in Nat /\ b \in Nat /\ DataAddr = P * b /\ DataSize \in Nat \ {0}
          /\ P * b <= P * q /\ P * q < P * b + s
      BY DataSegment
    <3>2. h.pt[q] = 1 + q - b /\ h.reg[1].base = P /\ h.reg[1].size = s /\ s \in Nat
      BY <2>1, <3>1, RoundedUp DEF HeapOK, PagesOK, DataOK
    <3> HIDE DEF b, s
    <3>3. P * (1 + q - b) = P + P * q - P * b /\ P * q \in Nat /\ P * b \in Nat
      BY <3>1, PageSize
    <3>4. P <= P * (1 + q - b) /\ P * (1 + q - b) < P + s
      BY <3>1, <3>2, <3>3, PageSize
    <3> QED
      BY <3>1, <3>2, <3>4 DEF RegionContains
  \* That of another page is in the region of its mapping.
  <2>4. ASSUME NEW q \in DOMAIN h.pt \ DataPages
        PROVE  /\ h.pt[q] = q /\ q \in Int
               /\ \E i \in h.alloc : i # 1 /\ RegionContains(h, i, P * h.pt[q])
    <3>1. PICK k \in DOMAIN h.mm : Within(h.mm[k], q)
      BY <2>1 DEF HeapOK, PagesOK
    <3>2. h.pt[q] = q /\ q \in Nat /\ P * q \in Int
      BY <2>1, <2>2, PageSize DEF HeapOK, PagesOK
    <3>3. RegionContains(h, h.mm[k].reg, P * q)
      BY <2>1, <3>1, <3>2, InItsRegion DEF Within
    <3> QED
      BY <2>2, <3>2, <3>3
  <2>5. ASSUME NEW q \in DOMAIN h.pt
        PROVE  /\ h.pt[q] \in Int /\ P * h.pt[q] \in Int
               /\ \E i \in h.alloc : RegionContains(h, i, P * h.pt[q])
    <3>1. h.pt[q] \in Int
      BY <2>3, <2>4
    <3>2. P * h.pt[q] \in Int
      BY <3>1, PageSize
    <3> QED
      BY <2>2, <2>3, <2>4, <3>1, <3>2
  <2>6. ASSUME NEW q \in DOMAIN h.pt PROVE find_region(h, P * h.pt[q]) # 0
    BY <2>2, <2>5, Found
  <2>7. ASSUME NEW q \in DOMAIN h.pt, NEW k \in DOMAIN h.lists,
               RegionContains(h, h.lists[k], P * h.pt[q])
        PROVE  FALSE
    <3>1. h.lists[k] \in DOMAIN h.reg /\ h.lists[k] \notin h.alloc
      BY <2>2 DEF RegionsOK
    <3>2. PICK i \in h.alloc : RegionContains(h, i, P * h.pt[q])
      BY <2>5
    <3>3. i = h.lists[k]
      BY <2>2, <2>5, <2>7, <3>1, <3>2, OneRegion
    <3> QED
      BY <3>1, <3>3
  <2>8. ASSUME NEW q \in DOMAIN h.pt, NEW p \in DOMAIN h.pt, h.pt[q] = h.pt[p] PROVE q = p
    <3>0. ASSUME NEW d \in DataPages, NEW e \in DOMAIN h.pt \ DataPages, h.pt[d] = h.pt[e]
          PROVE  FALSE
      <4>1. RegionContains(h, 1, P * h.pt[d]) /\ P * h.pt[d] \in Int
        BY <2>3, PageSize
      <4>2. PICK i \in h.alloc : i # 1 /\ RegionContains(h, i, P * h.pt[d])
        BY <2>4, <3>0
      <4> QED
        BY <2>2, <4>1, <4>2, OneRegion
    <3>1. CASE q \in DataPages /\ p \in DataPages
      <4>1. h.pt[q] = 1 + q - PageOf(DataAddr) /\ h.pt[p] = 1 + p - PageOf(DataAddr)
        BY <2>1, <3>1 DEF HeapOK, PagesOK
      <4>2. q \in Int /\ p \in Int /\ PageOf(DataAddr) \in Int
        BY <2>3, <3>1, DataSegment
      <4>3. 1 + q - PageOf(DataAddr) = 1 + p - PageOf(DataAddr)
        BY ONLY <2>8, <4>1
      <4> QED
        BY ONLY <4>2, <4>3
    <3>2. CASE q \notin DataPages /\ p \notin DataPages
      BY <2>4, <2>8, <3>2
    <3> QED
      BY <2>8, <3>0, <3>1, <3>2
  <2> QED
    BY <2>6, <2>7, <2>8 DEF MappedIsAllocated
<1> QED
  BY <1>1, HeapInductive, PTL

\* An mmap that gives access has mapped the whole range it returns, and a munmap of a
\* range in one mapping has unmapped all of it.
THEOREM ServedTheorem ==
    ASSUME RoomBelowData
    PROVE  Spec => [](kinds \subseteq Mix => CallServed)
<1>1. HeapInv => (kinds \subseteq Mix => CallServed)
  BY DEF HeapInv, Served, CallServed
<1> QED
  BY <1>1, HeapInductive, PTL

\* As long as the guest only calls mmap and munmap, a call leaves alone the translation
\* of every page outside the range it is about.
THEOREM UntouchedTheorem ==
    ASSUME RoomBelowData
    PROVE  Spec /\ [](kinds \subseteq Mix) => OthersUntouched
<1> DEFINE Kept == h'.err = "none" /\ Orderly' => \A q \in DOMAIN h.pt \ Touched :
                      q \in DOMAIN h'.pt /\ h'.pt[q] = h.pt[q]
<1>1. HeapInv /\ (kinds \subseteq Mix)' /\ [Next]_vars => [Kept]_vars
  <2> SUFFICES ASSUME HeapInv, (kinds \subseteq Mix)', [Next]_vars PROVE [Kept]_vars
    OBVIOUS
  <2>0. kinds' \subseteq Mix
    BY DEF Mix
  <2>1. CASE UNCHANGED vars
    BY <2>1
  <2>2. CASE h.err = "none" /\ calls < MaxCalls /\ calls' = calls + 1 /\ SystemCall
    <3>1. kinds \subseteq Mix /\ (MmapStep \/ MunmapStep)
      BY <2>0, <2>2, StepsOfMix
    <3>2. HeapOK(h) /\ TopBound /\ calls \in Nat
      BY <3>1 DEF HeapInv
    <3>3. CASE MmapStep
      <4>1. \A q \in DOMAIN h.pt : q \in DOMAIN h'.pt /\ h'.pt[q] = h.pt[q]
        BY <2>2, <3>2, <3>3, MmapServed
      <4> QED
        BY <4>1
    <3>4. CASE MunmapStep
      <4>1. /\ call'.op = "munmap"
            /\ \A q \in DOMAIN h.pt \ PageRun(call'.addr, pages_from_size(call'.len)) :
                 q \in DOMAIN h'.pt /\ h'.pt[q] = h.pt[q]
        BY <2>2, <3>2, <3>4, MunmapServed
      <4> QED
        BY <4>1 DEF Touched
    <3> QED
      BY <3>1, <3>3, <3>4
  <2> QED
    BY <2>1, <2>2 DEF Next
<1>2. OthersUntouched <=> [][Kept]_vars
  BY DEF OthersUntouched
<1> HIDE DEF Kept
<1> QED
  BY <1>1, <1>2, HeapInductive, PTL DEF Spec
===============================================================================
