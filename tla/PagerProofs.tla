------------------------------ MODULE PagerProofs ------------------------------
(***************************************************************************)
(* Proofs about Pager, for every shape of the tables, every number of      *)
(* chunks and every history of mapping, unmapping and translating.         *)
(*                                                                         *)
(* The inductive invariant adds to the type invariant and to               *)
(* EffectivePermission that chunks do not overlap in host memory or in     *)
(* guest physical memory (Layout), that every mapped frame belongs to a    *)
(* chunk (FramesOwned), so that adding a chunk cannot change what it       *)
(* translates to, and that an entry of the TLB is out of date only for a   *)
(* page that was unmapped (TlbCoherent).                                   *)
(***************************************************************************)
EXTENDS Pager, FiniteSetTheorems, TLAPS

Layout(cs) ==
    \A j, k \in 1..Len(cs) : j < k =>
        /\ cs[j].phys + cs[j].size <= cs[k].phys
        /\ \/ cs[j].host + cs[j].size <= cs[k].host
           \/ cs[k].host + cs[k].size <= cs[j].host

FramesOwned ==
    \A v \in DOMAIN pte :
        \E k \in 1..Len(chunks) : contains_phys_address(chunks[k], pte[v].frame)

TlbCoherent ==
    \A i \in Slots :
        (tlb[i].page # 0 /\ tlb[i].page \notin everUnmapped)
            => /\ tlb[i].page \in DOMAIN pte
               /\ tlb[i].host = HostOf(pte[tlb[i].page].frame)

IInv == TypeOK /\ Layout(chunks) /\ EffectivePermission /\ FramesOwned /\ TlbCoherent
--------------------------------------------------------------------------------
(***************************************************************************)
(* Chunks.                                                                 *)
(***************************************************************************)
\* Every entry of chunks is a chunk, so its bounds are natural numbers.
LEMMA ChunkTypes ==
    ASSUME NEW cs \in Seq(Chunk)
    PROVE  /\ Len(cs) \in Nat /\ DOMAIN cs = 1..Len(cs)
           /\ \A k \in 1..Len(cs) : /\ cs[k].host \in Nat /\ cs[k].phys \in Nat
                                        /\ cs[k].size \in Nat
<1>1. \A k \in 1..Len(cs) : cs[k] \in Chunk
  OBVIOUS
<1> QED
  BY <1>1 DEF Chunk

\* At most one chunk has a given page of host memory, or of physical memory.
LEMMA OneChunk ==
    ASSUME NEW cs \in Seq(Chunk), Layout(cs), NEW p \in Int,
           NEW j \in 1..Len(cs), NEW k \in 1..Len(cs),
           \/ contains_address(cs[j], p) /\ contains_address(cs[k], p)
           \/ contains_phys_address(cs[j], p) /\ contains_phys_address(cs[k], p)
    PROVE  j = k
<1>1. \A i \in 1..Len(cs) : /\ cs[i].host \in Nat /\ cs[i].phys \in Nat
                                /\ cs[i].size \in Nat
  BY ChunkTypes
<1>2. ASSUME NEW a \in 1..Len(cs), NEW b \in 1..Len(cs), a < b,
             \/ contains_address(cs[a], p) /\ contains_address(cs[b], p)
             \/ contains_phys_address(cs[a], p) /\ contains_phys_address(cs[b], p)
      PROVE  FALSE
  <2>1. /\ cs[a].phys + cs[a].size <= cs[b].phys
        /\ \/ cs[a].host + cs[a].size <= cs[b].host
           \/ cs[b].host + cs[b].size <= cs[a].host
    BY <1>2 DEF Layout
  <2>2. /\ cs[a].host \in Nat /\ cs[a].phys \in Nat /\ cs[a].size \in Nat
        /\ cs[b].host \in Nat /\ cs[b].phys \in Nat /\ cs[b].size \in Nat
    BY <1>1
  <2>3. ~(contains_address(cs[a], p) /\ contains_address(cs[b], p))
    <3>1. \A h, m, i, n \in Nat : (h + m <= i \/ i + n <= h) =>
              ~((h <= p /\ p < h + m) /\ (i <= p /\ p < i + n))
      OBVIOUS
    <3> QED
      BY <2>1, <2>2, <3>1 DEF contains_address
  <2>4. ~(contains_phys_address(cs[a], p) /\ contains_phys_address(cs[b], p))
    BY <2>1, <2>2 DEF contains_phys_address
  <2> QED
    BY <1>2, <2>3, <2>4
<1>3. ~(j < k) /\ ~(k < j)
  BY <1>2
<1> QED
  BY <1>3

\* host_to_guest_physical of a page of chunk k.
LEMMA PhysicalOf ==
    ASSUME chunks \in Seq(Chunk), Layout(chunks), NEW p \in Int,
           NEW k \in 1..Len(chunks), contains_address(chunks[k], p)
    PROVE  host_to_guest_physical(p) = p - chunks[k].host + chunks[k].phys
<1> DEFINE First(i) == /\ contains_address(chunks[i], p)
                       /\ \A j \in 1..(i - 1) : ~contains_address(chunks[j], p)
           c == CHOOSE i \in DOMAIN chunks : First(i)
<1>1. DOMAIN chunks = 1..Len(chunks) /\ Len(chunks) \in Nat
  BY ChunkTypes
<1>2. \A j \in 1..(k - 1) : ~contains_address(chunks[j], p)
  <2>1. ASSUME NEW j \in 1..(k - 1), contains_address(chunks[j], p) PROVE FALSE
    <3>1. j \in 1..Len(chunks) /\ j # k
      BY <1>1
    <3> QED
      BY <2>1, <3>1, OneChunk
  <2> QED
    BY <2>1
<1>3. First(k)
  BY <1>2
<1>4. c \in DOMAIN chunks /\ First(c)
  BY <1>1, <1>3
<1>5. c = k
  BY <1>1, <1>4, OneChunk
<1>6. host_to_guest_physical(p) = p - chunks[c].host + chunks[c].phys
  BY <1>1 DEF host_to_guest_physical
<1> QED
  BY <1>5, <1>6

\* HostOf with the chunks as a parameter.
HostIn(cs, f) ==
    IF \E k \in DOMAIN cs : contains_phys_address(cs[k], f)
    THEN LET c == cs[CHOOSE k \in DOMAIN cs :
                        /\ contains_phys_address(cs[k], f)
                        /\ \A j \in 1..(k - 1) : ~contains_phys_address(cs[j], f)]
         IN f - c.phys + c.host
    ELSE NULL

\* HostOf of a frame of chunk k.
LEMMA HostInFrame ==
    ASSUME NEW cs \in Seq(Chunk), Layout(cs), NEW f \in Int,
           NEW k \in 1..Len(cs), contains_phys_address(cs[k], f)
    PROVE  HostIn(cs, f) = f - cs[k].phys + cs[k].host
<1> DEFINE First(i) == /\ contains_phys_address(cs[i], f)
                       /\ \A j \in 1..(i - 1) : ~contains_phys_address(cs[j], f)
           c == CHOOSE i \in DOMAIN cs : First(i)
<1>1. DOMAIN cs = 1..Len(cs) /\ Len(cs) \in Nat
  BY ChunkTypes
<1>2. \A j \in 1..(k - 1) : ~contains_phys_address(cs[j], f)
  <2>1. ASSUME NEW j \in 1..(k - 1), contains_phys_address(cs[j], f) PROVE FALSE
    <3>1. j \in 1..Len(cs) /\ j # k
      BY <1>1
    <3> QED
      BY <2>1, <3>1, OneChunk
  <2> QED
    BY <2>1
<1>3. First(k)
  BY <1>2
<1>4. c \in DOMAIN cs /\ First(c)
  BY <1>1, <1>3
<1>5. c = k
  BY <1>1, <1>4, OneChunk
<1>6. HostIn(cs, f) = f - cs[c].phys + cs[c].host
  BY <1>1 DEF HostIn
<1> QED
  BY <1>5, <1>6

\* A frame of a chunk translates to host memory of that chunk.
LEMMA HostOfFrame ==
    ASSUME chunks \in Seq(Chunk), Layout(chunks), NEW f \in Int,
           NEW k \in 1..Len(chunks), contains_phys_address(chunks[k], f)
    PROVE  HostOf(f) = f - chunks[k].phys + chunks[k].host
<1>1. HostOf(f) = HostIn(chunks, f)
  BY DEF HostOf, HostIn
<1> QED
  BY <1>1, HostInFrame

\* Translating to a frame and back is the identity on the chunks' memory.
LEMMA RoundTrip ==
    ASSUME chunks \in Seq(Chunk), Layout(chunks), NEW p \in Int,
           NEW k \in 1..Len(chunks), contains_address(chunks[k], p)
    PROVE  /\ host_to_guest_physical(p) \in Nat
           /\ contains_phys_address(chunks[k], host_to_guest_physical(p))
           /\ HostOf(host_to_guest_physical(p)) = p
<1> DEFINE f == p - chunks[k].host + chunks[k].phys
<1>1. /\ chunks[k].host \in Nat /\ chunks[k].phys \in Nat /\ chunks[k].size \in Nat
  BY ChunkTypes
<1>2. host_to_guest_physical(p) = f
  BY PhysicalOf
<1>3. f \in Nat /\ contains_phys_address(chunks[k], f)
  BY <1>1 DEF contains_address, contains_phys_address
<1>4. HostOf(f) = f - chunks[k].phys + chunks[k].host
  BY <1>3, HostOfFrame
<1> QED
  BY <1>1, <1>2, <1>3, <1>4
--------------------------------------------------------------------------------
(***************************************************************************)
(* Tables.                                                                 *)
(***************************************************************************)
\* page_table_walk_create makes the whole path to every page it is called
\* for, with at least the permissions asked for, and takes none away.
LEMMA WalkFacts ==
    ASSUME dir \in [DOMAIN dir -> Perm], NEW vs, NEW o \in Perm,
           NEW d, d = page_table_walk_create(vs, o)
    PROVE  /\ d \in [DOMAIN d -> Perm]
           /\ \A n \in DOMAIN dir : /\ n \in DOMAIN d
                                    /\ dir[n].w => d[n].w
                                    /\ dir[n].x => d[n].x
           /\ \A v \in vs : \A n \in Path(v) : /\ n \in DOMAIN d
                                               /\ o.w => d[n].w
                                               /\ o.x => d[n].x
<1> DEFINE touched == UNION {Path(v) : v \in vs}
<1>1. d = [n \in DOMAIN dir \cup touched |-> IF n \in touched THEN update_entry(n, o) ELSE dir[n]]
  BY DEF page_table_walk_create
<1>2. \A n : update_entry(n, o) \in Perm
  BY DEF update_entry, Perm
<1>3. \A n : (o.w => update_entry(n, o).w) /\ (o.x => update_entry(n, o).x)
  BY DEF update_entry, Perm
<1>4. \A n \in DOMAIN dir : /\ dir[n].w => update_entry(n, o).w
                            /\ dir[n].x => update_entry(n, o).x
  BY DEF update_entry, Perm
<1>5. \A v \in vs : Path(v) \subseteq touched
  OBVIOUS
<1> HIDE DEF touched
<1> QED
  BY <1>1, <1>2, <1>3, <1>4, <1>5

\* create_entry sets the entries of its pages and leaves the others alone.
LEMMA EntryFacts ==
    ASSUME pte \in [DOMAIN pte -> Entry], NEW fr, NEW o \in Perm,
           \A v \in DOMAIN fr : fr[v] \in Nat,
           pte' = create_entry(fr, o)
    PROVE  /\ DOMAIN pte' = DOMAIN pte \cup DOMAIN fr
           /\ pte' \in [DOMAIN pte' -> Entry]
           /\ \A v \in DOMAIN fr : pte'[v].frame = fr[v] /\ (pte'[v].w => o.w) /\ (pte'[v].x => o.x)
           /\ \A v \in DOMAIN pte \ DOMAIN fr : pte'[v] = pte[v]
<1>1. pte' = [v \in DOMAIN pte \cup DOMAIN fr |->
              IF v \in DOMAIN fr THEN [frame |-> fr[v], w |-> o.w, x |-> o.x] ELSE pte[v]]
  BY DEF create_entry
<1>2. \A v \in DOMAIN fr : [frame |-> fr[v], w |-> o.w, x |-> o.x] \in Entry
  BY DEF Entry, Perm
<1> QED
  BY <1>1, <1>2

\* The first chunk has room for the pager's own memory.
FirstHolds == chunks[1].size >= SysPages

\* A step that maps: it walks to the pages vs and creates entries for some of
\* them, whose frames are memory of the chunks but not the pager's, and which
\* were not mapped to other frames.
Maps(vs, fr, o) ==
    /\ DOMAIN fr \subseteq vs
    /\ \A v \in DOMAIN fr :
           /\ v \in Nat /\ fr[v] \in Nat
           /\ \E k \in 1..Len(chunks) : contains_phys_address(chunks[k], fr[v])
           /\ FirstHolds => fr[v] >= SysPages
           /\ v \in DOMAIN pte => pte[v].frame = fr[v]
    /\ dir' = page_table_walk_create(vs, o)
    /\ pte' = create_entry(fr, o)
    /\ UNCHANGED <<chunks, tlb, everUnmapped>>

\* Mapping keeps the frames of the pages that were mapped before.
LEMMA MapsStable ==
    ASSUME IInv, NEW vs, NEW fr, NEW o \in Perm, Maps(vs, fr, o)
    PROVE  /\ DOMAIN pte \subseteq DOMAIN pte'
           /\ \A v \in DOMAIN pte : pte'[v].frame = pte[v].frame
<1>1. /\ DOMAIN pte' = DOMAIN pte \cup DOMAIN fr
      /\ \A v \in DOMAIN fr : pte'[v].frame = fr[v]
      /\ \A v \in DOMAIN pte \ DOMAIN fr : pte'[v] = pte[v]
  <2>1. pte \in [DOMAIN pte -> Entry]
    BY DEF IInv, TypeOK
  <2>2. (\A v \in DOMAIN fr : fr[v] \in Nat) /\ pte' = create_entry(fr, o)
    BY DEF Maps
  <2> QED
    BY <2>1, <2>2, EntryFacts
<1> QED
  BY <1>1 DEF Maps

\* Entering frames of chunk memory, with the directories updated on the way,
\* keeps the invariant: what map_region and map_kernel_page have in common.
LEMMA MapsIInv ==
    ASSUME IInv, NEW vs, NEW fr, NEW o \in Perm, Maps(vs, fr, o)
    PROVE  IInv'
<1>1. /\ dir' \in [DOMAIN dir' -> Perm]
      /\ \A n \in DOMAIN dir : /\ n \in DOMAIN dir'
                               /\ dir[n].w => dir'[n].w
                               /\ dir[n].x => dir'[n].x
      /\ \A v \in vs : \A n \in Path(v) : /\ n \in DOMAIN dir'
                                          /\ o.w => dir'[n].w
                                          /\ o.x => dir'[n].x
  BY WalkFacts DEF IInv, TypeOK, Maps
<1>2. /\ DOMAIN pte' = DOMAIN pte \cup DOMAIN fr
      /\ pte' \in [DOMAIN pte' -> Entry]
      /\ \A v \in DOMAIN fr : pte'[v].frame = fr[v] /\ (pte'[v].w => o.w) /\ (pte'[v].x => o.x)
      /\ \A v \in DOMAIN pte \ DOMAIN fr : pte'[v] = pte[v]
  <2>1. pte \in [DOMAIN pte -> Entry]
    BY DEF IInv, TypeOK
  <2>2. (\A v \in DOMAIN fr : fr[v] \in Nat) /\ pte' = create_entry(fr, o)
    BY DEF Maps
  <2> QED
    BY <2>1, <2>2, EntryFacts
<1>3. chunks' = chunks /\ tlb' = tlb /\ everUnmapped' = everUnmapped
  BY DEF Maps
<1>4. TypeOK'
  BY <1>1, <1>2, <1>3 DEF IInv, TypeOK, Maps
<1>5. Layout(chunks)'
  BY <1>3 DEF IInv, Layout
<1>6. EffectivePermission'
  <2>1. SUFFICES ASSUME NEW v \in DOMAIN pte', NEW n \in Path(v)
                 PROVE  /\ n \in DOMAIN dir'
                        /\ pte'[v].w => dir'[n].w
                        /\ pte'[v].x => dir'[n].x
    BY DEF EffectivePermission, Path
  <2>2. CASE v \in DOMAIN fr
    BY <1>1, <1>2, <2>2 DEF Maps
  <2>3. CASE v \notin DOMAIN fr
    BY <1>1, <1>2, <2>3 DEF IInv, EffectivePermission
  <2> QED
    BY <2>2, <2>3
<1>7. FramesOwned'
  <2>1. \A v \in DOMAIN fr :
            \E k \in 1..Len(chunks) : contains_phys_address(chunks[k], pte'[v].frame)
    BY <1>2 DEF Maps
  <2>2. \A v \in DOMAIN pte \ DOMAIN fr :
            \E k \in 1..Len(chunks) : contains_phys_address(chunks[k], pte'[v].frame)
    BY <1>2 DEF IInv, FramesOwned
  <2> QED
    BY <1>2, <1>3, <2>1, <2>2 DEF FramesOwned, contains_phys_address
<1>8. TlbCoherent'
  <2>1. \A f : HostOf(f)' = HostOf(f)
    BY <1>3 DEF HostOf, contains_phys_address
  <2>2. SUFFICES ASSUME NEW i \in Slots, tlb[i].page # 0, tlb[i].page \notin everUnmapped
                 PROVE  /\ tlb[i].page \in DOMAIN pte'
                        /\ tlb[i].host = HostOf(pte'[tlb[i].page].frame)
    BY <1>3, <2>1 DEF TlbCoherent
  <2>3. tlb[i].page \in DOMAIN pte /\ tlb[i].host = HostOf(pte[tlb[i].page].frame)
    BY <2>2 DEF IInv, TlbCoherent
  <2> QED
    BY <2>3, MapsStable
<1> QED
  BY <1>4, <1>5, <1>6, <1>7, <1>8 DEF IInv

\* The frames of a region of user memory belong to a chunk and are behind the
\* memory of the pager.
LEMMA RunOwned ==
    ASSUME IInv, NEW p \in Nat, NEW n \in Nat, IsUserMemory(p, n), NEW i \in 0..(n - 1)
    PROVE  /\ host_to_guest_physical(p + i) \in Nat
           /\ \E k \in 1..Len(chunks) :
                  contains_phys_address(chunks[k], host_to_guest_physical(p + i))
           /\ FirstHolds => host_to_guest_physical(p + i) >= SysPages
<1>1. chunks \in Seq(Chunk) /\ Layout(chunks)
  BY DEF IInv, TypeOK
<1>2. /\ DOMAIN chunks = 1..Len(chunks)
      /\ \A k \in 1..Len(chunks) : chunks[k].host \in Nat /\ chunks[k].size \in Nat
  BY <1>1, ChunkTypes
<1>3. PICK k \in 1..Len(chunks) :
          /\ chunks[k].host + (IF k = 1 THEN SysPages ELSE 0) <= p
          /\ p + n <= chunks[k].host + chunks[k].size
  BY <1>2 DEF IsUserMemory
<1>4. contains_address(chunks[k], p + i)
  BY <1>2, <1>3, TableAssumption DEF contains_address
<1>5. FirstHolds => host_to_guest_physical(p + i) >= SysPages
  <2>1. host_to_guest_physical(p + i) = (p + i) - chunks[k].host + chunks[k].phys
    BY <1>1, <1>4, PhysicalOf
  <2>2. Len(chunks) \in Nat /\ \A j \in 1..Len(chunks) : chunks[j].phys \in Nat
    BY <1>1, ChunkTypes
  <2>3. CASE k = 1
    BY <1>2, <1>3, <2>1, <2>2, <2>3, TableAssumption
  <2>4. CASE k # 1
    <3>1. 1 \in 1..Len(chunks) /\ 1 < k
      BY <2>2, <2>4
    <3>2. chunks[1].phys + chunks[1].size <= chunks[k].phys
      BY <1>1, <3>1 DEF Layout
    <3>3. (p + i) - chunks[k].host >= 0
      BY <1>2, <1>3, <2>4
    <3> QED
      BY <1>2, <2>1, <2>2, <3>1, <3>2, <3>3, TableAssumption DEF FirstHolds
  <2> QED
    BY <2>3, <2>4
<1> QED
  BY <1>1, <1>4, <1>5, RoundTrip

\* map_region maps: the pages before the first that is taken.
LEMMA MapRegionMaps ==
    ASSUME IInv, NEW p \in HostPages, NEW v \in UserPages, NEW n \in 1..MaxRun, NEW o \in Opts,
           map_region(p, v, n, o)
    PROVE  \E vs, fr : vs \subseteq v..(v + n - 1) /\ Maps(vs, fr, o)
<1> DEFINE run      == v..(v + n - 1)
           Frame(u) == host_to_guest_physical(p + (u - v))
           bad      == {u \in run : Taken(u, Frame(u))}
           mapped   == {u \in run : \A b \in bad : u < b}
           walked   == {u \in run : \A b \in bad : u <= b}
           fr       == [u \in mapped |-> Frame(u)]
<1>0. p \in Nat /\ v \in Nat /\ n \in Nat
  BY TableAssumption, SpaceAssumption
<1>1. /\ IsUserMemory(p, n)
      /\ dir' = page_table_walk_create(walked, o)
      /\ pte' = create_entry(fr, o)
      /\ UNCHANGED <<chunks, tlb, everUnmapped>>
  BY DEF map_region
<1>2. \A u \in run : u \in Nat /\ u - v \in 0..(n - 1)
  BY <1>0
<1>3. \A u \in run : /\ Frame(u) \in Nat
                     /\ \E k \in 1..Len(chunks) : contains_phys_address(chunks[k], Frame(u))
                     /\ FirstHolds => Frame(u) >= SysPages
  BY <1>0, <1>1, <1>2, RunOwned
<1>w. walked \subseteq run
  OBVIOUS
<1>4. \A u \in mapped : u \in run /\ u \in walked /\ u \notin bad
  BY <1>2
<1>5. \A u \in mapped : u \in DOMAIN pte => pte[u].frame = Frame(u)
  BY <1>4 DEF Taken
<1>6. DOMAIN fr = mapped /\ \A u \in mapped : fr[u] = Frame(u)
  OBVIOUS
<1> HIDE DEF run, Frame, bad, mapped, walked, fr
<1>7. Maps(walked, fr, o)
  BY <1>1, <1>2, <1>3, <1>4, <1>5, <1>6 DEF Maps
<1> QED
  BY <1>7, <1>w DEF run

\* map_kernel_page maps: the first candidate that is free.
LEMMA MapKernelMaps ==
    ASSUME IInv, NEW p \in HostPages, NEW o \in Opts, map_kernel_page(p, o)
    PROVE  \E vs, fr : vs \subseteq KernelPages /\ Maps(vs, fr, o)
<1>0. PICK v \in Candidates \ DOMAIN pte :
          /\ IsUserMemory(p, 1)
          /\ dir' = page_table_walk_create({u \in Candidates : u <= v}, o)
          /\ pte' = create_entry([u \in {v} |-> host_to_guest_physical(p)], o)
          /\ UNCHANGED <<chunks, tlb, everUnmapped>>
  BY DEF map_kernel_page
<1> DEFINE f  == host_to_guest_physical(p)
           fr == [u \in {v} |-> f]
           vs == {u \in Candidates : u <= v}
<1>1. /\ dir' = page_table_walk_create(vs, o)
      /\ pte' = create_entry(fr, o)
      /\ UNCHANGED <<chunks, tlb, everUnmapped>>
  BY <1>0
<1>2. Candidates \subseteq KBottom..KTop /\ KBottom \in Nat /\ KTop \in Nat /\ p \in Nat
  BY SpaceAssumption DEF Candidates, KernelPages
<1>4. v \in Nat /\ v \in vs /\ v \notin DOMAIN pte
  BY <1>2
<1>k. vs \subseteq KernelPages
  BY DEF Candidates
<1>5. /\ f \in Nat /\ \E k \in 1..Len(chunks) : contains_phys_address(chunks[k], f)
      /\ FirstHolds => f >= SysPages
  <2>1. p + 0 = p /\ 0 \in 0..(1 - 1) /\ 1 \in Nat
    BY <1>2
  <2> QED
    BY <1>0, <1>2, <2>1, RunOwned
<1>6. DOMAIN fr = {v} /\ \A u \in {v} : fr[u] = f
  OBVIOUS
<1> HIDE DEF f, fr, vs
<1>7. Maps(vs, fr, o)
  BY <1>1, <1>4, <1>5, <1>6 DEF Maps
<1> QED
  BY <1>7, <1>k
--------------------------------------------------------------------------------
(***************************************************************************)
(* The other operations.                                                   *)
(***************************************************************************)
\* The fresh pager, with one chunk and no entry, satisfies the invariant.
LEMMA InitIInv == Init => IInv
<1> SUFFICES ASSUME Init PROVE IInv
  OBVIOUS
<1>1. PICK b \in HostBases, s \in ChunkPages : chunks = <<[host |-> b, phys |-> 0, size |-> s]>>
  BY DEF Init
<1>2. b \in Nat /\ s \in Nat
  BY SpaceAssumption
<1>3. chunks \in Seq(Chunk) /\ Len(chunks) = 1
  BY <1>1, <1>2 DEF Chunk
<1>4. TypeOK
  BY <1>3, TableAssumption DEF Init, TypeOK, Slots
<1>5. Layout(chunks)
  BY <1>3 DEF Layout
<1>6. EffectivePermission /\ FramesOwned /\ TlbCoherent
  BY DEF Init, EffectivePermission, FramesOwned, TlbCoherent, Slots
<1> QED
  BY <1>4, <1>5, <1>6 DEF IInv

\* A new chunk has host memory and frames of its own, so nothing that was
\* mapped translates differently.
LEMMA ChunkIInv ==
    ASSUME IInv, NEW b \in HostBases, NEW s \in ChunkPages, create_mem_chunk(b, s)
    PROVE  IInv'
<1> DEFINE c == [host |-> b, phys |-> total_memsz, size |-> s]
           L == Len(chunks)
<1>1. /\ chunks' = Append(chunks, c) /\ L < MaxSlots /\ Fresh(b, s)
      /\ dir' = dir /\ pte' = pte /\ tlb' = tlb /\ everUnmapped' = everUnmapped
  BY DEF create_mem_chunk, alloc_chunk
<1>2. /\ chunks \in Seq(Chunk) /\ L \in Nat /\ L >= 1 /\ DOMAIN chunks = 1..L
      /\ \A k \in 1..L : chunks[k].host \in Nat /\ chunks[k].phys \in Nat /\ chunks[k].size \in Nat
  BY ChunkTypes, TableAssumption DEF IInv, TypeOK
<1>3. total_memsz = chunks[L].phys + chunks[L].size /\ total_memsz \in Nat
  BY <1>2 DEF total_memsz
<1>4. c \in Chunk /\ b \in Nat /\ s \in Nat
  BY <1>3, SpaceAssumption DEF Chunk
<1>5. /\ chunks' \in Seq(Chunk) /\ Len(chunks') = L + 1 /\ chunks'[L + 1] = c
      /\ \A k \in 1..L : chunks'[k] = chunks[k]
  BY <1>1, <1>2, <1>4
<1>6. \A k \in 1..L : chunks[k].phys + chunks[k].size <= total_memsz
  <2>1. ASSUME NEW k \in 1..L, k < L PROVE chunks[k].phys + chunks[k].size <= chunks[L].phys
    BY <1>2, <2>1 DEF IInv, Layout
  <2> QED
    BY <1>2, <1>3, <2>1
<1>7. TypeOK'
  BY <1>1, <1>2, <1>5, TableAssumption DEF IInv, TypeOK
<1>8. Layout(chunks')
  <2>1. SUFFICES ASSUME NEW j \in 1..(L + 1), NEW k \in 1..(L + 1), j < k
                 PROVE  /\ chunks'[j].phys + chunks'[j].size <= chunks'[k].phys
                        /\ \/ chunks'[j].host + chunks'[j].size <= chunks'[k].host
                           \/ chunks'[k].host + chunks'[k].size <= chunks'[j].host
    BY <1>5 DEF Layout
  <2>2. CASE k \in 1..L
    <3>1. j \in 1..L /\ chunks'[j] = chunks[j] /\ chunks'[k] = chunks[k]
      BY <1>2, <1>5, <2>1, <2>2
    <3> QED
      BY <2>1, <2>2, <3>1 DEF IInv, Layout
  <2>3. CASE k = L + 1
    <3>1. j \in 1..L /\ chunks'[j] = chunks[j] /\ chunks'[k] = c
      BY <1>2, <1>5, <2>1, <2>3
    <3>2. chunks[j].phys + chunks[j].size <= c.phys
      BY <1>6, <3>1
    <3>3. c.host = b /\ c.size = s
      OBVIOUS
    <3>4. \/ chunks[j].host + chunks[j].size <= c.host
          \/ c.host + c.size <= chunks[j].host
      BY <1>1, <1>2, <3>1, <3>3 DEF Fresh
    <3> QED
      BY <3>1, <3>2, <3>4
  <2> QED
    BY <1>2, <2>2, <2>3
<1>9. EffectivePermission'
  BY <1>1 DEF IInv, EffectivePermission, Path
<1>10. FramesOwned'
  BY <1>1, <1>2, <1>5 DEF IInv, FramesOwned, contains_phys_address
<1>11. TlbCoherent'
  <2>1. ASSUME NEW f \in Int, NEW k \in 1..L, contains_phys_address(chunks[k], f)
        PROVE  HostOf(f)' = HostOf(f)
    <3>1. HostOf(f) = f - chunks[k].phys + chunks[k].host
      BY <1>2, <2>1, HostOfFrame DEF IInv
    <3>2. k \in 1..Len(chunks') /\ contains_phys_address(chunks[k], f)'
      BY <1>2, <1>5, <2>1 DEF contains_phys_address
    <3>3. chunks' \in Seq(Chunk) /\ Layout(chunks')
      BY <1>5, <1>8
    <3>4. HostOf(f)' = f - chunks'[k].phys + chunks'[k].host
      <4>1. HostOf(f)' = HostIn(chunks', f)
        BY DEF HostOf, HostIn, contains_phys_address
      <4>2. contains_phys_address(chunks'[k], f)
        BY <3>2 DEF contains_phys_address
      <4> QED
        BY <3>2, <3>3, <4>1, <4>2, HostInFrame
    <3> QED
      BY <1>5, <3>1, <3>4
  <2>2. \A v \in DOMAIN pte : pte[v].frame \in Int
    BY DEF IInv, TypeOK, Entry
  <2>3. SUFFICES ASSUME NEW i \in Slots, tlb[i].page # 0, tlb[i].page \notin everUnmapped
                 PROVE  /\ tlb[i].page \in DOMAIN pte
                        /\ tlb[i].host = HostOf(pte[tlb[i].page].frame)'
    BY <1>1 DEF TlbCoherent
  <2>4. tlb[i].page \in DOMAIN pte /\ tlb[i].host = HostOf(pte[tlb[i].page].frame)
    BY <2>3 DEF IInv, TlbCoherent
  <2>5. PICK k \in 1..L : contains_phys_address(chunks[k], pte[tlb[i].page].frame)
    BY <2>4 DEF IInv, FramesOwned
  <2> QED
    BY <1>1, <2>1, <2>2, <2>4, <2>5
<1> QED
  BY <1>7, <1>8, <1>9, <1>10, <1>11 DEF IInv

\* unmap_region keeps the invariant: it forgets pages and records them.
LEMMA UnmapIInv ==
    ASSUME IInv, NEW v \in UserPages, NEW n \in 1..MaxRun, unmap_region(v, n)
    PROVE  IInv'
<1> DEFINE bad  == {u \in v..(v + n - 1) : ~page_table_walk(u)}
           gone == {u \in v..(v + n - 1) : \A b \in bad : u < b}
<1>1. /\ pte' = [u \in DOMAIN pte \ gone |-> pte[u]]
      /\ everUnmapped' = everUnmapped \cup gone
      /\ chunks' = chunks /\ dir' = dir /\ tlb' = tlb
  BY DEF unmap_region
<1>2. gone \subseteq Nat
  BY SpaceAssumption, TableAssumption
<1> HIDE DEF gone
<1>3. DOMAIN pte' = DOMAIN pte \ gone /\ \A u \in DOMAIN pte' : pte'[u] = pte[u] /\ u \in DOMAIN pte
  BY <1>1
<1>4. TypeOK'
  BY <1>1, <1>2, <1>3 DEF IInv, TypeOK
<1>5. Layout(chunks)' /\ EffectivePermission' /\ FramesOwned'
  BY <1>1, <1>3 DEF IInv, Layout, EffectivePermission, Path, FramesOwned, contains_phys_address
<1>6. TlbCoherent'
  <2>1. \A f : HostOf(f)' = HostOf(f)
    BY <1>1 DEF HostOf, contains_phys_address
  <2> QED
    BY <1>1, <1>3, <2>1 DEF IInv, TlbCoherent
<1> QED
  BY <1>4, <1>5, <1>6 DEF IInv

\* get_host_p keeps the invariant: what it enters into the TLB is what the
\* tables say of the page.
LEMMA LookupIInv ==
    ASSUME IInv, NEW v \in Lookups, get_host_p(v)
    PROVE  IInv'
<1>1. chunks' = chunks /\ dir' = dir /\ pte' = pte /\ everUnmapped' = everUnmapped
  BY DEF get_host_p
<1>2. \A f : HostOf(f)' = HostOf(f)
  BY <1>1 DEF HostOf, contains_phys_address
<1>3. Layout(chunks)' /\ EffectivePermission' /\ FramesOwned'
  BY <1>1 DEF IInv, Layout, EffectivePermission, Path, FramesOwned, contains_phys_address
<1>4. CASE tlb' = tlb
  BY <1>1, <1>2, <1>3, <1>4 DEF IInv, TypeOK, TlbCoherent
<1>5. CASE tlb' # tlb
  <2>1. /\ ~Hit(v) /\ Translate(v) # NULL
        /\ tlb' = [tlb EXCEPT ![v % TlbSize] = [page |-> v, host |-> Translate(v)]]
    BY <1>5 DEF get_host_p
  <2>2. v \in DOMAIN pte /\ Translate(v) = HostOf(pte[v].frame)
    BY <2>1 DEF Translate, page_table_walk
  <2>3. PICK k \in 1..Len(chunks) : contains_phys_address(chunks[k], pte[v].frame)
    BY <2>2 DEF IInv, FramesOwned
  <2>4. /\ chunks \in Seq(Chunk) /\ Layout(chunks)
        /\ chunks[k].host \in Nat /\ chunks[k].phys \in Nat /\ chunks[k].size \in Nat
        /\ pte[v].frame \in Nat
    BY <2>2, ChunkTypes DEF IInv, TypeOK, Entry
  <2>5. Translate(v) \in Nat
    <3>1. HostOf(pte[v].frame) = pte[v].frame - chunks[k].phys + chunks[k].host
      BY <2>3, <2>4, HostOfFrame
    <3> QED
      BY <2>2, <2>3, <2>4, <3>1 DEF contains_phys_address
  <2>6. v \in Nat /\ v % TlbSize \in Slots
    BY TableAssumption, SpaceAssumption DEF Slots
  <2>7. /\ tlb' \in [Slots -> [page : Nat, host : Nat]]
        /\ \A i \in Slots : \/ tlb'[i] = tlb[i]
                            \/ tlb'[i].page = v /\ tlb'[i].host = HostOf(pte[v].frame)
    BY <2>1, <2>2, <2>5, <2>6 DEF IInv, TypeOK
  <2>8. TypeOK'
    BY <1>1, <2>7 DEF IInv, TypeOK
  <2>9. TlbCoherent'
    BY <1>1, <1>2, <2>2, <2>7 DEF IInv, TlbCoherent
  <2> QED
    BY <1>3, <2>8, <2>9 DEF IInv
<1> QED
  BY <1>4, <1>5

\* Every operation of the pager keeps the inductive invariant.
LEMMA NextIInv == IInv /\ [Next]_vars => IInv'
<1> SUFFICES ASSUME IInv, [Next]_vars PROVE IInv'
  OBVIOUS
<1>0. Opts \subseteq Perm
  BY TableAssumption
<1>1. ASSUME NEW b \in HostBases, NEW s \in ChunkPages, create_mem_chunk(b, s) PROVE IInv'
  BY <1>1, ChunkIInv
<1>2. ASSUME NEW p \in HostPages, NEW v \in UserPages, NEW n \in 1..MaxRun, NEW o \in Opts,
             map_region(p, v, n, o)
      PROVE  IInv'
  BY <1>0, <1>2, MapRegionMaps, MapsIInv
<1>3. ASSUME NEW p \in HostPages, NEW o \in Opts, map_kernel_page(p, o) PROVE IInv'
  BY <1>0, <1>3, MapKernelMaps, MapsIInv
<1>4. ASSUME NEW v \in UserPages, NEW n \in 1..MaxRun, unmap_region(v, n) PROVE IInv'
  BY <1>4, UnmapIInv
<1>5. ASSUME NEW v \in Lookups, get_host_p(v) PROVE IInv'
  BY <1>5, LookupIInv
<1>6. CASE UNCHANGED vars
  <2>1. chunks' = chunks /\ dir' = dir /\ pte' = pte /\ tlb' = tlb /\ everUnmapped' = everUnmapped
    BY <1>6 DEF vars
  <2>2. \A f : HostOf(f)' = HostOf(f)
    BY <2>1 DEF HostOf, contains_phys_address
  <2> QED
    BY <2>1, <2>2 DEF IInv, TypeOK, Layout, EffectivePermission, Path, FramesOwned,
                      contains_phys_address, TlbCoherent
<1> QED
  BY <1>1, <1>2, <1>3, <1>4, <1>5, <1>6 DEF Next
--------------------------------------------------------------------------------
(***************************************************************************)
(* Theorems.                                                               *)
(***************************************************************************)
\* The inductive invariant holds in every reachable state.
THEOREM Inductive == Spec => []IInv
BY InitIInv, NextIInv, PTL DEF Spec

\* The pager's state always has its type.
THEOREM TypeCorrect == Spec => []TypeOK
<1>1. IInv => TypeOK
  BY DEF IInv
<1> QED
  BY <1>1, Inductive, PTL

\* Whatever is mapped in whatever order, the processor sees the permissions
\* that were asked for: update_entry always grants enough on the path.
THEOREM EffectivePermissionTheorem == Spec => []EffectivePermission
<1>1. IInv => EffectivePermission
  BY DEF IInv
<1> QED
  BY <1>1, Inductive, PTL

\* Translating a page of any chunk to its frame and back gives the page.
THEOREM ChunksInvertibleTheorem == Spec => []ChunksInvertible
<1>1. ASSUME IInv PROVE ChunksInvertible
  <2>1. /\ chunks \in Seq(Chunk) /\ Layout(chunks) /\ DOMAIN chunks = 1..Len(chunks)
        /\ \A k \in 1..Len(chunks) : chunks[k].host \in Nat /\ chunks[k].size \in Nat
    BY <1>1, ChunkTypes DEF IInv, TypeOK
  <2>2. SUFFICES ASSUME NEW k \in 1..Len(chunks),
                        NEW p \in chunks[k].host..(chunks[k].host + chunks[k].size - 1)
                 PROVE  HostOf(host_to_guest_physical(p)) = p
    BY <2>1 DEF ChunksInvertible
  <2>3. p \in Int /\ contains_address(chunks[k], p)
    BY <2>1 DEF contains_address
  <2> QED
    BY <2>1, <2>3, RoundTrip
<1> QED
  BY <1>1, Inductive, PTL

\* get_host_p is right for every page that never was unmapped, for every size
\* of the TLB and every sequence of lookups.
THEOREM TranslationRightTheorem == Spec => []TranslationRight
<1>1. ASSUME IInv PROVE TranslationRight
  <2>1. SUFFICES ASSUME NEW v \in Pages, v \notin everUnmapped
                 PROVE  Translate(v) = IF v \in DOMAIN pte THEN HostOf(pte[v].frame) ELSE NULL
    BY DEF TranslationRight
  <2>2. v \in Nat /\ v # 0 /\ v % TlbSize \in Slots
    BY TableAssumption, SpaceAssumption DEF Pages, KernelPages, Slots
  <2>3. CASE Hit(v)
    <3>1. tlb[v % TlbSize].page = v
      BY <2>3 DEF Hit
    <3>2. v \in DOMAIN pte /\ tlb[v % TlbSize].host = HostOf(pte[v].frame)
      BY <1>1, <2>1, <2>2, <3>1 DEF IInv, TlbCoherent
    <3> QED
      BY <2>3, <3>2 DEF Translate
  <2>4. CASE ~Hit(v)
    <3>1. page_table_walk(v) <=> v \in DOMAIN pte
      BY <1>1 DEF IInv, EffectivePermission, page_table_walk
    <3> QED
      BY <2>4, <3>1 DEF Translate
  <2> QED
    BY <2>3, <2>4
<1> QED
  BY <1>1, Inductive, PTL

\* "do NOT overwrite existing page table entries!": no operation does.
THEOREM NoOverwriteTheorem == Spec => NoOverwrite
<1> DEFINE Kept == \A v \in DOMAIN pte \cap DOMAIN pte' : pte'[v].frame = pte[v].frame
<1>1. ASSUME IInv, [Next]_vars PROVE [Kept]_vars
  <2>0. Opts \subseteq Perm
    BY TableAssumption
  <2>1. ASSUME NEW p \in HostPages, NEW v \in UserPages, NEW n \in 1..MaxRun, NEW o \in Opts,
               map_region(p, v, n, o)
        PROVE  Kept
    BY <1>1, <2>0, <2>1, MapRegionMaps, MapsStable
  <2>2. ASSUME NEW p \in HostPages, NEW o \in Opts, map_kernel_page(p, o) PROVE Kept
    BY <1>1, <2>0, <2>2, MapKernelMaps, MapsStable
  <2>3. ASSUME NEW v \in UserPages, NEW n \in 1..MaxRun, unmap_region(v, n) PROVE Kept
    BY <2>3 DEF unmap_region
  <2>4. ASSUME NEW v \in Lookups, get_host_p(v) PROVE Kept
    BY <2>4 DEF get_host_p
  <2>5. ASSUME NEW b \in HostBases, NEW s \in ChunkPages, create_mem_chunk(b, s) PROVE Kept
    BY <2>5 DEF create_mem_chunk
  <2> HIDE DEF Kept
  <2> QED
    BY <1>1, <2>1, <2>2, <2>3, <2>4, <2>5 DEF Next
<1> QED
  BY <1>1, Inductive, PTL DEF Spec, NoOverwrite

--------------------------------------------------------------------------------
(***************************************************************************)
(* Kernel pages.  unmap_region has no check of its own that keeps it below *)
(* the kernel; it stops at the first page that is not mapped.              *)
(***************************************************************************)
\* At least one page below the kernel is not for users: the addresses between
\* the end of user space and KERNEL_SPACE_BOTTOM are not canonical.
HoleBelowKernel == \A u \in UserPages : u < KBottom - 1

HoleUnmapped == KBottom - 1 \notin DOMAIN pte

\* Pages the walks reach: a run that is mapped begins and ends in user space.
UserRuns == {v..w : v, w \in UserPages}
Reach == KernelPages \cup UNION UserRuns

\* A step that maps pages within the reach.
MapsPages == \E vs \in SUBSET Reach, o \in Perm : \E fr : Maps(vs, fr, o)

\* A step that maps nothing; what it unmaps is a run of mapped pages that begins
\* in user space.
MapsNothing ==
    /\ DOMAIN pte' \subseteq DOMAIN pte /\ dir' = dir
    /\ \A u \in DOMAIN pte' : pte'[u] = pte[u]
    /\ \A u \in DOMAIN pte \ DOMAIN pte' : \E v \in UserPages :
           v <= u /\ u \in Nat /\ v..u \subseteq DOMAIN pte
    /\ FirstHolds => FirstHolds'

\* A run between two user pages is within the reach.
LEMMA WithinReach ==
    ASSUME NEW v \in UserPages, NEW w \in UserPages
    PROVE  v..w \subseteq Reach
<1>1. v..w \in UserRuns
  BY DEF UserRuns
<1> QED
  BY <1>1 DEF Reach

\* Every step is of one of the two kinds.
LEMMA StepKinds ==
    ASSUME IInv, [Next]_vars
    PROVE  MapsPages \/ MapsNothing
<1> DEFINE Kind == MapsPages \/ MapsNothing
<1>0. Opts \subseteq Perm
  BY TableAssumption
<1>1. ASSUME NEW b \in HostBases, NEW s \in ChunkPages, create_mem_chunk(b, s) PROVE Kind
  <2>1. /\ chunks' = Append(chunks, [host |-> b, phys |-> total_memsz, size |-> s])
        /\ pte' = pte /\ dir' = dir
    BY <1>1 DEF create_mem_chunk, alloc_chunk
  <2>2. chunks \in Seq(Chunk) /\ Len(chunks) >= 1
    BY TableAssumption DEF IInv, TypeOK
  <2>3. chunks'[1] = chunks[1]
    BY <2>1, <2>2
  <2> QED
    BY <2>1, <2>3 DEF FirstHolds, MapsNothing
<1>2. ASSUME NEW p \in HostPages, NEW v \in UserPages, NEW n \in 1..MaxRun, NEW o \in Opts,
             v + n - 1 \in UserPages, map_region(p, v, n, o)
      PROVE  Kind
  <2>1. PICK vs, fr : vs \subseteq v..(v + n - 1) /\ Maps(vs, fr, o)
    BY <1>2, MapRegionMaps
  <2>2. v..(v + n - 1) \subseteq Reach
    BY <1>2, WithinReach
  <2>3. vs \in SUBSET Reach
    BY <2>1, <2>2
  <2> QED
    BY <1>0, <2>1, <2>3 DEF MapsPages
<1>3. ASSUME NEW p \in HostPages, NEW o \in Opts, map_kernel_page(p, o) PROVE Kind
  <2>1. PICK vs, fr : vs \subseteq KernelPages /\ Maps(vs, fr, o)
    BY <1>3, MapKernelMaps
  <2>2. vs \in SUBSET Reach
    BY <2>1 DEF Reach
  <2> QED
    BY <1>0, <2>1, <2>2 DEF MapsPages
<1>4. ASSUME NEW v \in UserPages, NEW n \in 1..MaxRun, unmap_region(v, n) PROVE Kind
  <2> DEFINE run  == v..(v + n - 1)
             bad  == {u \in run : ~page_table_walk(u)}
             gone == {u \in run : \A b \in bad : u < b}
  <2>1. pte' = [u \in DOMAIN pte \ gone |-> pte[u]] /\ dir' = dir /\ chunks' = chunks
    BY <1>4 DEF unmap_region
  <2>2. v \in Nat /\ n \in Nat
    BY TableAssumption, SpaceAssumption
  <2>3. ASSUME NEW u \in gone PROVE v <= u /\ u \in Nat /\ v..u \subseteq DOMAIN pte
    <3>1. u \in run /\ v <= u /\ u \in Nat
      BY <2>2
    <3>2. ASSUME NEW x \in v..u PROVE x \in DOMAIN pte
      <4>1. x \in run /\ x <= u /\ x \in Int
        BY <2>2, <3>1
      <4>2. x \notin bad
        BY <2>3, <3>1, <4>1
      <4> QED
        BY <4>1, <4>2 DEF page_table_walk
    <3> QED
      BY <3>1, <3>2
  <2> HIDE DEF gone
  <2>4. DOMAIN pte' = DOMAIN pte \ gone /\ \A u \in DOMAIN pte' : pte'[u] = pte[u]
    BY <2>1
  <2> QED
    BY <2>1, <2>3, <2>4 DEF FirstHolds, MapsNothing
<1>5. ASSUME NEW v \in Lookups, get_host_p(v) PROVE Kind
  BY <1>5 DEF get_host_p, FirstHolds, MapsNothing
<1>6. CASE UNCHANGED vars
  BY <1>6 DEF vars, FirstHolds, MapsNothing
<1> QED
  BY <1>1, <1>2, <1>3, <1>4, <1>5, <1>6 DEF Next

\* The pages mapped for the kernel stay mapped where they are, for every number
\* of pages that is unmapped: an unmap that runs on stops in the hole.
THEOREM KernelStableTheorem ==
    ASSUME HoleBelowKernel
    PROVE  Spec => KernelStable
<1> DEFINE Stable == \A v \in DOMAIN pte \cap KernelPages :
                         v \in DOMAIN pte' /\ pte'[v].frame = pte[v].frame
<1>0. KBottom \in Nat /\ UserPages \subseteq Nat /\ KBottom - 1 \in Int
  BY SpaceAssumption
<1>1. Init => HoleUnmapped
  BY DEF Init, HoleUnmapped
<1>2. IInv /\ HoleUnmapped /\ [Next]_vars => HoleUnmapped'
  <2> SUFFICES ASSUME IInv, HoleUnmapped, [Next]_vars PROVE HoleUnmapped'
    OBVIOUS
  <2>1. ASSUME NEW vs \in SUBSET Reach, NEW fr, NEW o \in Perm, Maps(vs, fr, o)
        PROVE  HoleUnmapped'
    <3>1. KBottom - 1 \notin Reach
      BY <1>0, SpaceAssumption DEF Reach, UserRuns, KernelPages, HoleBelowKernel
    <3>2. DOMAIN pte' = DOMAIN pte \cup DOMAIN fr /\ DOMAIN fr \subseteq vs
      BY <2>1 DEF Maps, create_entry
    <3> QED
      BY <3>1, <3>2 DEF HoleUnmapped
  <2>2. CASE DOMAIN pte' \subseteq DOMAIN pte
    BY <2>2 DEF HoleUnmapped
  <2> QED
    BY <2>1, <2>2, StepKinds DEF MapsPages, MapsNothing
<1>3. IInv /\ HoleUnmapped /\ [Next]_vars => [Stable]_vars
  <2> SUFFICES ASSUME IInv, HoleUnmapped, [Next]_vars PROVE Stable
    OBVIOUS
  <2>1. ASSUME NEW vs, NEW fr, NEW o \in Perm, Maps(vs, fr, o) PROVE Stable
    BY <2>1, MapsStable
  <2>2. ASSUME \A u \in DOMAIN pte' : pte'[u] = pte[u],
               \A u \in DOMAIN pte \ DOMAIN pte' : \E v \in UserPages :
                   v <= u /\ u \in Nat /\ v..u \subseteq DOMAIN pte
        PROVE  Stable
    <3> SUFFICES ASSUME NEW u \in DOMAIN pte \cap KernelPages, u \notin DOMAIN pte' PROVE FALSE
      BY <2>2
    <3>1. PICK v \in UserPages : v <= u /\ u \in Nat /\ v..u \subseteq DOMAIN pte
      BY <2>2
    <3>2. KBottom - 1 \in v..u
      BY <1>0, <3>1, SpaceAssumption DEF KernelPages, HoleBelowKernel
    <3> QED
      BY <3>1, <3>2 DEF HoleUnmapped
  <2> QED
    BY <2>1, <2>2, StepKinds DEF MapsPages, MapsNothing
<1> QED
  BY <1>1, <1>2, <1>3, Inductive, PTL DEF Spec, KernelStable
--------------------------------------------------------------------------------
(***************************************************************************)
(* The tables themselves.  host_next_free_tbl_p is never compared with the *)
(* end of the pager's memory, so that they fit is a matter of how much of  *)
(* the address space is used.                                              *)
(***************************************************************************)
\* Every directory entry a walk within the reach can create.
Nodes == UNION {Path(v) : v \in Reach}

\* The pager's own memory has room for the PML4 and a table for each of them.
RoomForTables == IsFiniteSet(Nodes) /\ 1 + Cardinality(Nodes) <= SysPages

\* Frames of the pager's own memory are not mapped, and only entries that a walk
\* can create are there.
Reserved ==
    /\ FirstHolds
    /\ DOMAIN dir \subseteq Nodes
    /\ \A v \in DOMAIN pte : pte[v].frame >= SysPages

\* Every step keeps user memory out of the pager's own.
LEMMA StepReserved ==
    ASSUME IInv, Reserved, [Next]_vars
    PROVE  Reserved'
<1>1. ASSUME NEW vs \in SUBSET Reach, NEW fr, NEW o \in Perm, Maps(vs, fr, o)
      PROVE  Reserved'
  <2>1. FirstHolds'
    BY <1>1 DEF Maps, FirstHolds, Reserved
  <2>2. DOMAIN dir' = DOMAIN dir \cup UNION {Path(v) : v \in vs}
    BY <1>1 DEF Maps, page_table_walk_create
  <2>3. DOMAIN dir' \subseteq Nodes
    BY <2>2 DEF Reserved, Nodes
  <2>4. /\ DOMAIN pte' = DOMAIN pte \cup DOMAIN fr
        /\ \A v \in DOMAIN fr : pte'[v].frame = fr[v]
        /\ \A v \in DOMAIN pte \ DOMAIN fr : pte'[v] = pte[v]
    <3>1. pte \in [DOMAIN pte -> Entry]
      BY DEF IInv, TypeOK
    <3>2. (\A v \in DOMAIN fr : fr[v] \in Nat) /\ pte' = create_entry(fr, o)
      BY <1>1 DEF Maps
    <3> QED
      BY <3>1, <3>2, EntryFacts
  <2>5. \A v \in DOMAIN fr : fr[v] >= SysPages
    BY <1>1 DEF Maps, Reserved
  <2> QED
    BY <2>1, <2>3, <2>4, <2>5 DEF Reserved
<1>2. ASSUME DOMAIN pte' \subseteq DOMAIN pte, dir' = dir,
             \A u \in DOMAIN pte' : pte'[u] = pte[u], FirstHolds => FirstHolds'
      PROVE  Reserved'
  BY <1>2 DEF Reserved
<1> QED
  BY <1>1, <1>2, StepKinds DEF MapsPages, MapsNothing

\* When the pager's memory has room for the tables of the address space that is
\* used, no frame that holds a table is ever mapped into the guest, whatever is
\* mapped, unmapped and mapped again.
THEOREM TablesNotMappedTheorem ==
    ASSUME RoomForTables
    PROVE  Spec => []TablesNotMapped
<1>1. Init => Reserved
  <2> SUFFICES ASSUME Init PROVE Reserved
    OBVIOUS
  <2>1. PICK b \in HostBases, s \in ChunkPages :
            s >= SysPages /\ chunks = <<[host |-> b, phys |-> 0, size |-> s]>>
    BY DEF Init
  <2>2. FirstHolds
    BY <2>1 DEF FirstHolds
  <2> QED
    BY <2>2 DEF Init, Reserved
<1>2. Reserved /\ IInv /\ [Next]_vars => Reserved'
  BY StepReserved
<1>3. Reserved /\ IInv => TablesNotMapped
  <2> SUFFICES ASSUME Reserved, IInv, NEW v \in DOMAIN pte PROVE pte[v].frame >= TablesUsed
    BY DEF TablesNotMapped
  <2>1. /\ IsFiniteSet(DOMAIN dir) /\ Cardinality(DOMAIN dir) <= Cardinality(Nodes)
    BY FS_Subset DEF Reserved, RoomForTables
  <2>2. Cardinality(DOMAIN dir) \in Nat /\ Cardinality(Nodes) \in Nat
    BY <2>1, FS_CardinalityType DEF RoomForTables
  <2>3. pte[v].frame \in Nat /\ pte[v].frame >= SysPages
    BY DEF Reserved, IInv, TypeOK, Entry
  <2> QED
    BY <2>1, <2>2, <2>3, TableAssumption DEF TablesUsed, RoomForTables
<1> QED
  BY <1>1, <1>2, <1>3, Inductive, PTL DEF Spec
===============================================================================
