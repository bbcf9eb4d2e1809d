--------------------------------- MODULE Pager ---------------------------------
(***************************************************************************)
(* The guest's page tables, its memory chunks and the software TLB:        *)
(* PagerX86_64 (src/src/pager.cc, include/elkvm/pager.h).                  *)
(*                                                                         *)
(* Everything is counted in pages: an address is the number of its page, a *)
(* frame the number of a page of guest physical memory.  The offset in the *)
(* page, which every function carries along unchanged, is left out (a host *)
(* and a guest address with different offsets make map_user_page return    *)
(* -EIO before it changes anything).                                       *)
(*                                                                         *)
(* The entry of a directory of level l that leads to page v is named       *)
(* <<l, v \div Fanout^l>>; level DirLevels is the PML4, level 1 the page   *)
(* directory.  dir holds the permissions of the entries that are present   *)
(* and pte the present entries of the page tables.  Tables are taken one   *)
(* after the other from the pager's region and never given back, so        *)
(* host_next_free_tbl_p is told by the number of entries of dir.           *)
(***************************************************************************)
EXTENDS Integers, Sequences, FiniteSets

CONSTANTS
    Fanout,      \* entries of a table (512)
    DirLevels,   \* levels above the page tables (3)
    SysPages,    \* pages of ELKVM_SYSTEM_MEMSIZE
    TlbSize,     \* TLB::NUM_ENTRIES
    KBottom,     \* page of KERNEL_SPACE_BOTTOM
    KTop,        \* bound: last kernel page the model uses
    UserPages,   \* guest pages that are mapped with map_region
    Lookups,     \* guest pages that get_host_p is asked for
    HostBases,   \* host pages posix_memalign may return
    ChunkPages,  \* sizes of chunks
    HostPages,   \* host pages of the regions that are mapped
    MaxSlots,    \* KVM_MEMORY_SLOTS
    MaxRun,      \* bound: pages of one map_region or unmap_region
    Opts         \* combinations of PT_OPT_WRITE and PT_OPT_EXEC

Perm == [w : BOOLEAN, x : BOOLEAN]

ASSUME TableAssumption ==
    /\ Fanout \in Nat \ {0}
    /\ DirLevels \in Nat \ {0}
    /\ TlbSize \in Nat \ {0}
    /\ SysPages \in Nat \ {0}
    /\ MaxRun \in Nat
    /\ MaxSlots \in Nat \ {0}
    /\ Opts \subseteq Perm

ASSUME SpaceAssumption ==
    /\ KBottom \in Nat \ {0}
    /\ KTop \in Nat
    /\ UserPages \subseteq Nat \ {0}
    /\ Lookups \subseteq Nat
    /\ HostBases \subseteq Nat \ {0}
    /\ ChunkPages \subseteq Nat \ {0}
    /\ HostPages \subseteq Nat

VARIABLES
    chunks,        \* chunks, in slot order
    dir,           \* present directory entries and their permissions
    pte,           \* present page table entries
    tlb,           \* the static TLB of get_host_p
    everUnmapped   \* history: pages free_page was called on successfully

vars == <<chunks, dir, pte, tlb, everUnmapped>>

Chunk == [host : Nat, phys : Nat, size : Nat]

Entry == [frame : Nat, w : BOOLEAN, x : BOOLEAN]

KernelPages == KBottom..KTop

Pages == UserPages \cup KernelPages

NULL == -1

Slots == 0..(TlbSize - 1)
--------------------------------------------------------------------------------
(***************************************************************************)
(* Chunks: host memory and guest physical memory.                          *)
(***************************************************************************)
\* contains_address and contains_phys_address
contains_address(c, p) == c.host <= p /\ p < c.host + c.size

contains_phys_address(c, f) == c.phys <= f /\ f < c.phys + c.size

\* total_memsz: chunks are never removed and fill physical memory from 0.
total_memsz == IF chunks = <<>> THEN 0
               ELSE chunks[Len(chunks)].phys + chunks[Len(chunks)].size

host_to_guest_physical(p) ==
    IF \E k \in DOMAIN chunks : contains_address(chunks[k], p)
    THEN LET c == chunks[CHOOSE k \in DOMAIN chunks :
                            /\ contains_address(chunks[k], p)
                            /\ \A j \in 1..(k - 1) : ~contains_address(chunks[j], p)]
         IN p - c.host + c.phys
    ELSE 0

\* The other direction, the second half of get_host_p.
HostOf(f) ==
    IF \E k \in DOMAIN chunks : contains_phys_address(chunks[k], f)
    THEN LET c == chunks[CHOOSE k \in DOMAIN chunks :
                            /\ contains_phys_address(chunks[k], f)
                            /\ \A j \in 1..(k - 1) : ~contains_phys_address(chunks[j], f)]
         IN f - c.phys + c.host
    ELSE NULL

\* alloc_chunk: slot and guest physical address of the new chunk.
alloc_chunk_Bug(base, size) ==
    Append(chunks, [host |-> base, phys |-> total_memsz - 1, size |-> size])

alloc_chunk(base, size) ==
    Append(chunks, [host |-> base, phys |-> total_memsz, size |-> size])

\* posix_memalign (external) returns memory that nobody has.
Fresh(base, size) ==
    \A k \in DOMAIN chunks :
        \/ base + size <= chunks[k].host
        \/ chunks[k].host + chunks[k].size <= base

\* A region of n pages at p as RegionManager hands it out: memory of one
\* chunk and not the pager's own, which is the front of the first chunk.
IsUserMemory_Bug(p, n) ==
    \E k \in DOMAIN chunks :
        chunks[k].host <= p /\ p + n <= chunks[k].host + chunks[k].size

IsUserMemory(p, n) ==
    \E k \in DOMAIN chunks :
        /\ chunks[k].host + (IF k = 1 THEN SysPages ELSE 0) <= p
        /\ p + n <= chunks[k].host + chunks[k].size
--------------------------------------------------------------------------------
(***************************************************************************)
(* Walking the tables.                                                     *)
(***************************************************************************)
\* find_table_entry on every level: the directory entries that lead to v.
Path(v) == {<<l, v \div Fanout^l>> : l \in 1..DirLevels}

\* page_table_walk returns an entry.
page_table_walk(v) == Path(v) \subseteq DOMAIN dir /\ v \in DOMAIN pte

\* update_entry with create_table and create_entry: a missing entry is made
\* with these permissions, an existing one may only gain some.
update_entry_Bug(n, o) ==
    IF n \in DOMAIN dir THEN dir[n] ELSE o

update_entry(n, o) ==
    IF n \in DOMAIN dir THEN [w |-> dir[n].w \/ o.w, x |-> dir[n].x \/ o.x] ELSE o

\* page_table_walk_create, called for every page of vs.
page_table_walk_create(vs, o) ==
    LET touched == UNION {Path(v) : v \in vs}
    IN [n \in DOMAIN dir \cup touched |->
            IF n \in touched THEN update_entry(n, o) ELSE dir[n]]

\* create_entry for the pages in the domain of frame, frame[v] being the
\* frame of v.
create_entry(frame, o) ==
    [v \in DOMAIN pte \cup DOMAIN frame |->
        IF v \in DOMAIN frame THEN [frame |-> frame[v], w |-> o.w, x |-> o.x] ELSE pte[v]]

\* The pages at which map_kernel_page looks: all of the table of KBottom,
\* and, because it adds half a table when it leaves one, only the upper half
\* of every later table.  guest_next_free never moves.
Candidates ==
    {v \in KernelPages : v < KBottom + Fanout \/ 2 * (v % Fanout) >= Fanout}
--------------------------------------------------------------------------------
(***************************************************************************)
(* Operations.                                                             *)
(***************************************************************************)
\* RegionManager's constructor: one chunk, set_pml4 and create_page_tables.
Init ==
    /\ \E b \in HostBases, s \in ChunkPages :
           s >= SysPages /\ chunks = <<[host |-> b, phys |-> 0, size |-> s]>>
    /\ dir = [n \in {} |-> 0]
    /\ pte = [v \in {} |-> 0]
    /\ tlb = [i \in Slots |-> [page |-> 0, host |-> 0]]
    /\ everUnmapped = {}

\* create_mem_chunk and map_chunk_to_kvm.  When KVM refuses the chunk, or no
\* slot is left, the only caller aborts the process (RegionManager.tla).
create_mem_chunk(base, size) ==
    /\ Len(chunks) < MaxSlots
    /\ Fresh(base, size)
    /\ chunks' = alloc_chunk(base, size)
    /\ UNCHANGED <<dir, pte, tlb, everUnmapped>>

\* The entry of v is taken: map_user_page returns -1.
Taken_Bug(v, f) == FALSE

Taken(v, f) == v \in DOMAIN pte /\ pte[v].frame # f

\* map_region and map_user_page: the pages are mapped one by one up to the
\* first that is taken, whose walk has already touched the directories.
map_region(p, v, n, o) ==
    LET run    == v..(v + n - 1)
        Frame(u) == host_to_guest_physical(p + (u - v))
        bad    == {u \in run : Taken(u, Frame(u))}
        mapped == {u \in run : \A b \in bad : u < b}
        walked == {u \in run : \A b \in bad : u <= b}
    IN /\ IsUserMemory(p, n)
       /\ dir' = page_table_walk_create(walked, o)
       /\ pte' = create_entry([u \in mapped |-> Frame(u)], o)
       /\ UNCHANGED <<chunks, tlb, everUnmapped>>

\* map_kernel_page: the first free candidate gets the page; every table on
\* the way to it is created or updated.
map_kernel_page_Bug(p, o) ==
    /\ IsUserMemory(p, 1)
    /\ dir' = page_table_walk_create({KBottom}, o)
    /\ pte' = create_entry([u \in {KBottom} |-> host_to_guest_physical(p)], o)
    /\ UNCHANGED <<chunks, tlb, everUnmapped>>

map_kernel_page(p, o) ==
    \E v \in Candidates \ DOMAIN pte :
        /\ \A u \in Candidates : u < v => u \in DOMAIN pte
        /\ IsUserMemory(p, 1)
        /\ dir' = page_table_walk_create({u \in Candidates : u <= v}, o)
        /\ pte' = create_entry([u \in {v} |-> host_to_guest_physical(p)], o)
        /\ UNCHANGED <<chunks, tlb, everUnmapped>>

\* unmap_region and free_page: pages are freed one by one up to the first
\* that is not mapped.  The TLB is left alone.
unmap_region(v, n) ==
    LET bad  == {u \in v..(v + n - 1) : ~page_table_walk(u)}
        gone == {u \in v..(v + n - 1) : \A b \in bad : u < b}
    IN /\ pte' = [u \in DOMAIN pte \ gone |-> pte[u]]
       /\ everUnmapped' = everUnmapped \cup gone
       /\ UNCHANGED <<chunks, dir, tlb>>

\* TLB::find.  An empty slot has tag 0, so it hits for the addresses of page
\* 0 other than 0 itself, which get_host_p has returned nullptr for.
Hit_Bug(v) == tlb[v % TlbSize].page # 0

Hit(v) == tlb[v % TlbSize].page = v

\* What get_host_p returns for an address of page v.
Translate(v) ==
    IF Hit(v) THEN tlb[v % TlbSize].host
    ELSE IF page_table_walk(v) THEN HostOf(pte[v].frame)
    ELSE NULL

\* get_host_p: a translation that was found by walking enters the TLB.
get_host_p_Bug(v) ==
    /\ tlb' = IF ~Hit(v)
              THEN [tlb EXCEPT ![v % TlbSize] = [page |-> v, host |-> Translate(v)]]
              ELSE tlb
    /\ UNCHANGED <<chunks, dir, pte, everUnmapped>>

get_host_p(v) ==
    /\ tlb' = IF ~Hit(v) /\ Translate(v) # NULL
              THEN [tlb EXCEPT ![v % TlbSize] = [page |-> v, host |-> Translate(v)]]
              ELSE tlb
    /\ UNCHANGED <<chunks, dir, pte, everUnmapped>>

Next ==
    \/ \E b \in HostBases, s \in ChunkPages : create_mem_chunk(b, s)
    \/ \E p \in HostPages, v \in UserPages, n \in 1..MaxRun, o \in Opts :
           v + n - 1 \in UserPages /\ map_region(p, v, n, o)
    \/ \E p \in HostPages, o \in Opts : map_kernel_page(p, o)
    \/ \E v \in UserPages, n \in 1..MaxRun : unmap_region(v, n)
    \/ \E v \in Lookups : get_host_p(v)

Spec == Init /\ [][Next]_vars
--------------------------------------------------------------------------------
(***************************************************************************)
(* Properties.                                                             *)
(***************************************************************************)
\* Type invariant.
TypeOK ==
    /\ chunks \in Seq(Chunk) /\ Len(chunks) \in 1..MaxSlots
    /\ dir \in [DOMAIN dir -> Perm]
    /\ DOMAIN pte \subseteq Nat
    /\ pte \in [DOMAIN pte -> Entry]
    /\ tlb \in [Slots -> [page : Nat, host : Nat]]
    /\ everUnmapped \subseteq Nat

\* Chunks have host memory and physical memory of their own, so translating
\* a host address to a frame and back gives the address: whatever number of
\* chunks has been added, two pages of memory never get the same frame.
ChunksInvertible ==
    \A k \in DOMAIN chunks :
        \A p \in chunks[k].host..(chunks[k].host + chunks[k].size - 1) :
            HostOf(host_to_guest_physical(p)) = p

\* The processor ands the permissions on the path to a page: every mapped
\* page is reachable, and each directory entry on its path grants what the
\* page's own entry grants, although the entry may have been made for a page
\* with fewer permissions.
EffectivePermission ==
    \A v \in DOMAIN pte : \A n \in Path(v) :
        /\ n \in DOMAIN dir
        /\ pte[v].w => dir[n].w
        /\ pte[v].x => dir[n].x

\* Number of pages host_next_free_tbl_p has passed, the PML4 included.
TablesUsed == 1 + Cardinality(DOMAIN dir)

\* No frame that holds a table is mapped into the guest.  "assert((host_mem_p
\* < host_pml4_p) || host_mem_p >= host_pml4_p + ELKVM_SYSTEM_MEMSIZE)" in
\* map_user_page is there for it; nothing bounds the tables themselves.
TablesNotMapped == \A v \in DOMAIN pte : pte[v].frame >= TablesUsed

\* "do NOT overwrite existing page table entries!": no step replaces the
\* frame of a mapped page by another.
NoOverwrite ==
    [][\A v \in DOMAIN pte \cap DOMAIN pte' : pte'[v].frame = pte[v].frame]_vars

\* The pages mapped for the kernel (tables of the CPU, kernel stack, flat
\* binaries) stay where they are for the life of the VM.
KernelStable ==
    [][\A v \in DOMAIN pte \cap KernelPages :
           v \in DOMAIN pte' /\ pte'[v].frame = pte[v].frame]_vars

\* For a page that never was unmapped, get_host_p returns what the tables
\* say, whether the answer comes from the TLB, from a slot another page has
\* taken over, or from a walk; a page that never was mapped has no address.
TranslationRight ==
    \A v \in Pages \ everUnmapped :
        Translate(v) = IF v \in DOMAIN pte THEN HostOf(pte[v].frame) ELSE NULL

\* A page that was just mapped translates to the memory it was mapped to:
\* test/test_pager.cc maps a page and asserts that get_host_p returns the
\* address it was mapped to.
TranslationCurrent ==
    \A v \in DOMAIN pte : Translate(v) = HostOf(pte[v].frame)
===============================================================================
