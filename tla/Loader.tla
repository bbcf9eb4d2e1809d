---------------------------------- MODULE Loader ----------------------------------
(* ElfBinary: a program, and the interpreter it names, are read header by       *)
(* header into new regions of the guest's memory.  Addresses and sizes are in   *)
(* bytes, with pages of P bytes.  Nothing is freed while a program is loaded,   *)
(* so regions follow each other in the host's memory, which nobody clears: what *)
(* was never written there may be any byte.  A byte of a file is the file and   *)
(* the offset; the null byte is <<>>.                                           *)
EXTENDS Integers, Sequences, FiniteSets

CONSTANTS
    P,              \* ELKVM_PAGESIZE
    Programs,       \* binaries the monitor may be started with
    Interpreter,    \* the binary a program names as its interpreter
    LoaderBase,     \* loader_base_addr
    SignalPage      \* the page where the signal handler's code is put

\* A program header and a binary, as far as the loader reads them.
Header == [type : STRING, vaddr : Nat, off : Nat, filesz : Nat, memsz : Nat,
           flags : SUBSET {"X", "W", "R"}]
Binary == [name : STRING, valid : BOOLEAN, shared : BOOLEAN, entry : Nat, length : Nat,
           phdrs : Seq(Header)]

\* The interpreter is loaded at the beginning of a page.
ASSUME LoaderConstants ==
    /\ P \in Nat \ {0} /\ LoaderBase \in Nat /\ LoaderBase % P = 0
    /\ Programs \subseteq Binary /\ Interpreter \in Binary

VARIABLES
    step,       \* what the loader does next, or how it ended
    bin,        \* the binary that is being loaded
    isLdr,      \* whether it is the interpreter
    idx,        \* the next program header
    noInterp,   \* pt_interp_forbidden
    noPhdr,     \* pt_phdr_forbidden
    mem,        \* the bytes written in the host's memory
    top,        \* first byte no region has
    segs,       \* history: the segments loaded, with their load addresses
    pt,         \* page tables: host pages of guest pages
    auxv,       \* _auxv of the program
    atBase,     \* _auxv.at_base of the binary being loaded
    entry,      \* the entry point of the guest
    curbrk      \* HeapManager::curbrk

loadvars == <<step, bin, isLdr, idx, noInterp, noPhdr, mem, top, segs, pt, auxv, atBase, entry, curbrk>>

\* posix_memalign gives memory as it is: a byte nobody wrote is none of these.
NoByte == <<>>
OldByte == <<"old">>
Byte(h) == IF h \in DOMAIN mem THEN mem[h] ELSE OldByte

offset_in_page(a) == a % P
page_begin(a) == a - (a % P)
page_remain(a) == P - (a % P)
pagesize_align(n) == IF n % P = 0 THEN n ELSE n - (n % P) + P
next_page(a) == page_begin(a) + P

---------------------------------------------------------------------------
(* check_elf                                                                   *)

Interpreters(b) == {i \in DOMAIN b.phdrs : b.phdrs[i].type = "PT_INTERP"}

\* The headers up to the interpreter's are looked at.
BadHeader(b) == \E i \in DOMAIN b.phdrs :
    /\ \A j \in Interpreters(b) : i <= j
    /\ b.phdrs[i].filesz > b.phdrs[i].memsz

\* Without any header a binary counts as dynamically linked.
StaticallyLinked(b) == b.phdrs # <<>> /\ Interpreters(b) = {}

\* A throw without an exception ends the process; the binary's kind and class
\* are checked before its headers.
check_elf ==
    /\ step = "check"
    /\ IF ~bin.valid \/ BadHeader(bin)
       THEN step' = "terminated" /\ UNCHANGED auxv
       ELSE /\ step' = "parse"
            /\ auxv' = IF StaticallyLinked(bin) \/ isLdr THEN auxv
                       ELSE [auxv EXCEPT !.valid = TRUE, !.entry = bin.entry,
                                         !.phnum = Len(bin.phdrs)]
    /\ UNCHANGED <<bin, isLdr, idx, noInterp, noPhdr, mem, top, segs, pt, atBase, entry, curbrk>>

---------------------------------------------------------------------------
(* load_phdr                                                                   *)

\* The first n bytes of the file from an offset, as far as there are any, at h.
FileBytes(h, n, off) ==
    [a \in {h + i : i \in {j \in 0 .. n - 1 : off + j < bin.length}} |-> <<bin.name, off + a - h>>]
Fill(h, n, byte) == [a \in h .. h + n - 1 |-> byte]
Write(m, new) == [a \in DOMAIN m \cup DOMAIN new |-> IF a \in DOMAIN new THEN new[a] ELSE m[a]]

\* find_header: the first loadable header with the flag, an assertion for none.
WithFlag(f) == {i \in DOMAIN bin.phdrs : bin.phdrs[i].type = "PT_LOAD" /\ f \in bin.phdrs[i].flags}
find_header(f) == bin.phdrs[CHOOSE i \in WithFlag(f) : \A j \in WithFlag(f) : i <= j]

\* The bytes before the segment in its first page: of the ELF header and what
\* lies behind it on the monitor's stack for text, of the end of text for data.
pad_begin(m, p, base) ==
    LET pad == offset_in_page(p.vaddr)
        textEnd == find_header("X").off + find_header("X").filesz
    IN IF pad = 0 THEN m
       ELSE IF "X" \in p.flags THEN Write(m, Fill(base, pad, <<"header">>))
       ELSE IF textEnd > pad THEN Write(m, FileBytes(base, pad, textEnd - pad - 1))
       ELSE Write(m, Fill(base, pad, NoByte))

read_segment(m, p, base) ==
    Write(m, FileBytes(base + offset_in_page(p.vaddr), p.filesz, p.off))

pad_end_Bug(m, p, base) ==
    LET h == base + offset_in_page(p.vaddr) + p.filesz IN
    IF "X" \in p.flags THEN Write(m, FileBytes(h, page_remain(h), find_header("W").off))
    ELSE Write(m, Fill(h, page_remain(h), NoByte))

\* The rest of the page in which the segment's part of the file ends is filled,
\* a whole page at a border; for data as many bytes again as are not in the file,
\* so that the zeroes may go on behind the region.
pad_end(m, p, base) ==
    LET h == base + offset_in_page(p.vaddr) + p.filesz IN
    IF "X" \in p.flags THEN Write(m, FileBytes(h, page_remain(h), find_header("W").off))
    ELSE Write(m, Fill(h, page_remain(h) + p.memsz - p.filesz, NoByte))

\* load_program_header
load_program_header(m, p, base) ==
    pad_end(read_segment(pad_begin(m, p, base), p, base), p, base)

\* A segment must be text or data, and the binary have the other one where its
\* bytes are used for padding; the file must be long enough.
Loadable(p) ==
    /\ "X" \in p.flags \/ "W" \in p.flags
    /\ "X" \in p.flags => WithFlag("W") # {}
    /\ "X" \notin p.flags /\ offset_in_page(p.vaddr) # 0 => WithFlag("X") # {}
    /\ p.off + p.filesz <= bin.length

\* load_phdr: every segment becomes the data segment of the heap, whose break
\* must be in the region's last page.
load_phdr(p) ==
    LET ldrBase == IF atBase = 0 THEN LoaderBase ELSE atBase
        load == IF isLdr THEN ldrBase + p.vaddr ELSE p.vaddr
        total == p.memsz + offset_in_page(load)
        size == pagesize_align(total)
        guest == page_begin(load)
        pages == 0 .. (size \div P) - 1
        new == [q \in {(guest \div P) + i : i \in pages} |-> (top \div P) + q - (guest \div P)]
    IN /\ atBase' = IF isLdr THEN ldrBase ELSE atBase
       /\ IF \/ ~Loadable(p) \/ guest = 0
             \/ DOMAIN new \cap DOMAIN pt # {}
             \/ total % P = 0
          THEN step' = "aborted" /\ UNCHANGED <<mem, top, segs, pt, curbrk>>
          ELSE /\ mem' = load_program_header(mem, p, top)
               /\ top' = top + size
               /\ pt' = [q \in DOMAIN pt \cup DOMAIN new |-> IF q \in DOMAIN new THEN new[q] ELSE pt[q]]
               /\ segs' = Append(segs, [p |-> p, file |-> bin.name, addr |-> load])
               /\ curbrk' = next_page(guest + total)
               /\ UNCHANGED step

---------------------------------------------------------------------------
(* parse_program                                                               *)

\* One program header.  An error, like a failed assertion, is the end.
parse_program ==
    /\ step = "parse" /\ idx <= Len(bin.phdrs)
    /\ idx' = idx + 1
    /\ LET p == bin.phdrs[idx]
           Fails == step' = "aborted" /\ UNCHANGED <<noInterp, noPhdr, mem, top, segs, pt, atBase, curbrk>>
           Keeps == UNCHANGED <<step, mem, top, segs, pt, atBase, curbrk>>
       IN \/ p.filesz > p.memsz /\ Fails /\ UNCHANGED auxv
          \/ /\ p.filesz <= p.memsz /\ p.type = "other"
             /\ Keeps /\ UNCHANGED <<noInterp, noPhdr, auxv>>
          \/ /\ p.filesz <= p.memsz /\ p.type = "PT_INTERP"
             /\ UNCHANGED auxv
             /\ IF noInterp THEN Fails ELSE noInterp' = TRUE /\ Keeps /\ UNCHANGED noPhdr
          \/ /\ p.filesz <= p.memsz /\ p.type = "PT_PHDR"
             /\ auxv' = IF isLdr THEN auxv ELSE [auxv EXCEPT !.phdr = p.vaddr]
             /\ IF noPhdr THEN Fails ELSE noPhdr' = TRUE /\ Keeps /\ UNCHANGED noInterp
          \/ /\ p.filesz <= p.memsz /\ p.type = "PT_LOAD"
             /\ noInterp' = TRUE /\ noPhdr' = TRUE
             /\ load_phdr(p) /\ UNCHANGED auxv
    /\ UNCHANGED <<bin, isLdr, entry>>

\* The end of the constructor: a dynamically linked program has its interpreter
\* loaded, if it names one, and starts there.
Loaded ==
    /\ step = "parse" /\ idx > Len(bin.phdrs)
    /\ IF StaticallyLinked(bin)
       THEN /\ entry' = IF bin.shared THEN atBase + bin.entry ELSE bin.entry
            /\ step' = "loaded"
            /\ UNCHANGED <<bin, isLdr, idx, noInterp, noPhdr, auxv, atBase>>
       ELSE /\ step' = IF Interpreters(bin) = {} THEN "terminated" ELSE "check"
            /\ auxv' = IF isLdr THEN auxv ELSE [auxv EXCEPT !.base = LoaderBase, !.valid = TRUE]
            /\ bin' = Interpreter /\ isLdr' = TRUE /\ idx' = 1 /\ atBase' = 0
            /\ noInterp' = FALSE /\ noPhdr' = FALSE
            /\ UNCHANGED entry
    /\ UNCHANGED <<mem, top, segs, pt, curbrk>>

\* setup_proxy_os: the descriptor tables and the two flat binaries of the kernel
\* get pages that are free, the signal handler's page must not be mapped.
setup_proxy_os ==
    /\ step = "setup"
    /\ IF SignalPage \in DOMAIN pt THEN step' = "aborted" /\ UNCHANGED <<top, pt>>
       ELSE /\ step' = "ready"
            /\ top' = top + 6 * P
            /\ pt' = [q \in DOMAIN pt \cup {SignalPage} |->
                        IF q = SignalPage THEN (top \div P) + 5 ELSE pt[q]]
    /\ UNCHANGED <<bin, isLdr, idx, noInterp, noPhdr, mem, segs, auxv, atBase, entry, curbrk>>

LoaderInit ==
    /\ step = "check" /\ bin \in Programs /\ isLdr = FALSE /\ idx = 1
    /\ noInterp = FALSE /\ noPhdr = FALSE
    /\ mem = [a \in {} |-> NoByte] /\ top = P /\ segs = <<>> /\ pt = [q \in {} |-> 0]
    /\ auxv = [valid |-> FALSE, phdr |-> 0, phnum |-> 0, entry |-> 0, base |-> 0]
    /\ atBase = 0 /\ entry = 0 /\ curbrk = 0

Load == check_elf \/ parse_program \/ Loaded

---------------------------------------------------------------------------
(* Properties.                                                                 *)

GuestByte(a) == Byte(P * pt[a \div P] + (a % P))

\* When the guest starts it finds, through its page tables, the bytes of the file
\* in every segment, and zeroes for the data the file does not have, over however
\* many pages and whatever the memory held before: neither the padding of a segment
\* nor what it writes behind its region harms another.
SegmentsLoaded ==
    step = "ready" => \A k \in DOMAIN segs :
        LET s == segs[k] IN
        /\ \A i \in 0 .. s.p.filesz - 1 : GuestByte(s.addr + i) = <<s.file, s.p.off + i>>
        /\ "X" \notin s.p.flags =>
              \A i \in s.p.filesz .. s.p.memsz - 1 : GuestByte(s.addr + i) = NoByte
================================================================================
