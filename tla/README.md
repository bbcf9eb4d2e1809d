# A TLA+ verification of libelkvm

libelkvm runs a 64 bit ELF binary inside a KVM virtual machine and forwards its
system calls to handlers in the host process. This directory holds TLA+ models
of the library, TLC configurations that check them on small instances, and
proofs checked by TLAPS that hold for every value of the constants.

`PROJECT.json` records, for machines, what this file explains: components,
runs, mutants (one deliberate mistake per property, which the property must
catch), the map from definitions to source lines, findings, hazards, theorems.

    tlc -config MCRegionManager.cfg MCRegionManager     # a run
    tlapm RegionManagerProofs.tla                       # the proofs

## The system

| part | state | operations | correct when |
|---|---|---|---|
| `RegionManager`, `Region` (region_manager.cc, region.cc) | regions in use, 17 free lists by size class | constructor, `allocate_region`, `free_region` (two forms), `use_region`, `add_free_region`, slices | no memory is given out twice, lost or hidden; regions stay inside chunks |
| `PagerX86_64` (pager.cc) | chunks (KVM memory slots), page tables, next free table, static TLB | `create_mem_chunk`, `map_region`, `map_user_page`, `map_kernel_page`, `unmap_region`, `get_host_p` | mapped pages are reachable with their permissions, entries are not overwritten, host and guest agree on translations |
| `VM::run` (vm.cc), `VCPU` (kvm.cc, vcpu.cc) | registers and their copy, exit reason | `run`, `set_regs`, `get_regs`, `handle_vm_exit` | the guest continues where it was; the loop goes on |
| signals (signal.cc) | `pending_signals[32]`, counter, guest handlers | `elkvm_signal_handler`, `signal_register`, `signal_deliver` | signals are neither invented nor lost |
| system calls (syscall*.cc) | a copy of the resource limits, registered signal handlers | `handle_hypercall`, `handle_syscall`, a table of 313 entries | every call returns, with the host's result, and advances the guest once; a buffer is moved as a whole |
| `HeapManager`, `Mapping` (heap.cc, mapping.cc) | mappings for brk and for mmap, current break | `brk`, `get_mapping`, `unmap`, `remap`, `slice`, mprotect | mappings, regions and page tables agree; no assert fails for legal calls |
| `Stack`, interrupts (stack.cc, interrupt.cc) | stack regions, base | push, pop, `expand`, page faults | the stack is contiguous; faults end |
| GDB stub (gdbstub.cc) | socket buffers, breakpoints | packet loop, continue, step, memory access | each packet is answered once; progress |
| ELF loader, environment (elfloader.cc, environ.cc) | loaded segments, initial stack | load, build argv, envp, auxv | segments and stack laid out as the ABI says |
| set-up (vm_internals.cc, gdt.cc, idt.cc, tss.cc) | descriptor tables, flat binaries | once, before the guest runs | |

How they interact: everything that needs memory calls
`RegionManager::allocate_region`, which asks the pager for a chunk when no free
region fits. Mappings and the stack enter their regions into the page tables
with `map_region`; the tables of the CPU use `map_kernel_page`. System call
handlers translate guest pointers with `get_host_p`. The guest leaves KVM with
a hypercall for each system call and interrupt; `VM::run` handles it, delivers
at most one pending signal and enters the guest again.

What is hard. There is one thread, but signal handlers run on it between any
two machine instructions, over plain shared variables, and nest. Regions,
mappings and page tables are three views of one memory that are updated one
after the other. The TLB is a cache without invalidation. Operations on several
pages can stop half way. Asserts are enabled in the default (debug) build, so a
failed one ends the process. Memory slots, table memory and the array of
pending signals are finite.

## Modules

`RegionManager.tla` - the allocator. Memory is counted in units of which
`PageSize` make a page, so sizes and cuts inside a page exist. A region is a
record of host base, size and guest address; `allocated` and `freelists` are
the C++ containers, `chunks` the pager's chunks, `sys` the pager's own region,
`fault` the assert that ended the process. `Construct` is the constructor;
`allocate_region` is split into its three outcomes (`AllocateFree`,
`AllocateGrow`, `AllocateFail`); `free_region` and `free_region_at` are the two
overloads; `Bind` is what the users of fresh regions do; `SliceFront` and
`SliceCenter` are what `HeapManager` does to regions, with all container
updates of the calling function in one step. The if-chain of size limits is the
number of limits a size exceeds. `find_free_region` is a predicate on the
position it returns (`IsFirstFit`) and one for nullptr (`NoFit`).

`MemoryPool.tla` - what an allocator promises: a growing pool and a set of held
extents; acquire, release, shrink. `RegionManager` implements it
(`ImplementsPool`), with the pool mapped to the bytes of the chunks and held to
the regions in use.

`Pager.tla` - page tables, chunks and TLB in whole pages. Directories are a
function from present entries (level and index path) to their permissions,
page tables a function from mapped pages to frame and permissions; the next
free table is the number of directory entries, since tables are never given
back. `map_region` and `unmap_region` stop at the first page that fails and
keep what was done before. `map_kernel_page` takes the first free candidate,
including the half table it skips. `get_host_p` reads and fills the TLB.

`RunLoop.tla` - the thread that runs the guest. Each access of
`elkvm_signal_handler` and `signal_deliver` to the shared variables is a step
of its own; `active` is the stack of handlers. The guest's registers are
abstracted to how far it has come: `kregs` in KVM, `regs` in the library's
copy. The monitor's call of `VM::run` is `CallRun`; the debugger's continue with
an address, which changes the copy first, is `ContinueAt`. History variables
(`raised`, `delivered`, `arrived`, `sent`, `raced`, `causes`, `overrun`) record
what the properties speak of and guard nothing but the bound on arriving
signals; `causes` holds the reasons there were for the guest to go back.

`SyscallTable.tla` - data only: the table `elkvm_syscalls`, for each function
that forwards whether it tests for a handler, how it treats each parameter and
how it makes the guest's result of the handler's, and the handlers of
`default_handlers`.

`Syscalls.tla` - `handle_syscall` over that table, one step per call. A pointer
of the guest is null, unmapped or mapped; the host's answer is a result with the
errno it leaves. The calls that keep state in the VM (limits, signal handlers,
`arch_prctl`, `exit_group`) are actions of their own. History: `call`.

`GuestIO.tla` - composes `Syscalls` with `read`, `write`, `readv` and `writev`,
whose loops are stepped through one host call at a time, because each call may
move less than asked or fail. Regions are adjacent in the guest and lie in the
host as the chosen layout says. `moved` records the host addresses transferred.
A vector has one element, whose null base, an assertion of its own
(syscall.cc:915), is a null pointer of the call; the array of the guest's size on
the monitor's stack (`host_iov`) is left out.

`Heap.tla` - `HeapManager` and `Mapping` over their own view of regions and page
tables. The functions are operators from heap to heap, and a system call is one
step, as nothing runs in between. Mappings share region objects by index;
references are positions in the two vectors, so one that is used after its
mapping was erased or moved is seen. A failed assertion stops the evaluation and
leaves its line in `err`. `kinds` records which kinds of calls were made, since
the code is only right for some mixes of them (`Orderly`) and, mostly, as long as
the memory of the break is left to brk (`AwayFromBreak`).

`Stack.tla`, `Loader.tla`, `Startup.tla` - a program from its file to its end.
`Loader` is `ElfBinary`, byte by byte, with the interpreter; `Stack` is the
stack, pushes and pops, and `handle_interrupt`; `Startup` composes both with
`Environment` and `elkvm_vm_create`, and then lets the guest run into traps and
page faults. Stack addresses count words, file addresses bytes. Memory holds old
bytes and words (`OldByte`, `OldWord`) until something is written there: the
chunks come from `posix_memalign`, which does not clear them. `prog` is the
program that was loaded, kept so that `InitialStack` can say what its headers
ask for.

`GdbStub.tla` - `gdb_session` and a debugger on the other side of a TCP
connection, one character of the packet protocol per step (the text of a command
is one character; packets are not numbered). The debugger, external, may send a wrong checksum, repeat a
packet, ask for a reply again, or interrupt at any time, each a bounded number
of times.

`MC*.tla` and `*.cfg` give the constants small values. `*Proofs.tla` hold the
theorems. A definition `X_Bug` is the mistaken form of `X` used by a mutant and
by nothing else.

External code is modelled from its use: `posix_memalign` returns memory that no
chunk has; the kernel blocks a signal while its handler runs and makes `KVM_RUN`
return EINTR; the guest makes progress at will.

## Runs

| run | configuration | result |
|---|---|---|
| `regions` | page of 2 units, 3 lists, chunks of 3 pages, 2 slots, requests of 0, 1, 3 and 7 units, cuts of 1 and 2 pages | all properties hold |
| `pager_tables` | fanout 2, two directory levels, pages in two page tables, two permissions, runs of up to 3 pages | permissions, tables and entries are safe |
| `pager_tlb` | TLB of 2 slots, three pages and a kernel page competing, kernel pages in two tables, two neighbouring chunks in either order | translation and kernel pages are safe |
| `run_loop` | two signals, array of 2 entries, 3 arrivals, guest progress up to 3 | all properties hold, liveness included |
| `system_calls` | every number from 0 to 315 but the heap's, all pointers; a monitor without four of the handlers; three regions of 2 bytes in three layouts, buffers of 0, 1, 3 and 5 bytes; five signals, two resources of which one exists | all properties hold, liveness included |
| `heap` | pages of 3 bytes, chunks of 16 pages, lengths of one page, between one and two, and three, breaks inside, at and behind the data segment's region, three fixed addresses of which one is at the break, up to 4 calls | all properties hold, three of them for the mixes named `Orderly` and two for sequences of calls named `AwayFromBreak` |
| `startup` | pages of 4 bytes, segments at and off page borders with and without zeroed data, static and dynamic, 14 malformed ones; stack pages of 8 words, memory for 4 expansions; faults on the null page, below the stack, far away | all properties hold, liveness included |
| `gdb` | 3 commands of 6 kinds, debugger impatient twice, one wrong checksum | all properties hold, liveness included |
| `pager_stale` | as `pager_tlb` | `TranslationCurrent` is violated |
| `pager_overrun` | pager memory with room for 3 tables | `TablesNotMapped` is violated |
| `run_loop_resume` | as `run_loop` | `ResumesAtCurrent` is violated |
| `signal_slots` | as `system_calls` | `SlotsInRange` is violated |

Why the bounds suffice. Requests cover an empty one, one below a page, one
between two pages and one larger than a chunk; with three lists a region can be
in the list of the request, in a larger one, and move to a smaller one when it
is cut. Two slots let the second chunk lie below or above the first and let
slots run out. In the pager, fanout 2 makes neighbouring pages share or not
share a table at each level, a run of three crosses a table, and a TLB of two
slots has evictions and conflicts. Two signals nest one handler in another (a
signal cannot interrupt its own handler), and three arrivals overrun an array
of two.

Buffers of up to 5 bytes over regions of 2 start and end anywhere in one, two or
three regions. Pages of 3 bytes give lengths that are whole pages or not; four
calls suffice to map, split, split again and reuse. Two fixed addresses are
neighbours, so mappings there touch and overlap; the third lies where the break
comes and goes. No property claims anything of a fixed mapping, munmap, mremap or
mprotect there, nor of what comes after it, so the run ends such sequences with
that call (the constraint `AwayFromBreak`). The condition is needed: without it
`BreakMapped` fails when the data segment is unmapped, and `MappedIsAllocated`
when brk to 309, brk to 303 and a fixed mapping at 306 take memory into use that
is in a free list. The stack needs its second
and third part for the words of the environment, so pushes cross a border, and
the guest may map a page where the fourth would go. Three commands let a late
reply or acknowledgement meet the next command and the one after it.

`regions` also finds aborts: exhausted memory, `allocate_region(0)` when a free
region exists (`slice_begin` asserts `size > 0`), a wrong size passed to
`free_region`, a front slice that rounds up to the whole region. They end the
process by design and are recorded in `fault`; `AllocateAssertionsHold` says
that the asserts `allocate_region` makes about its own work are not among them.

### Findings

* `pager_stale`: `get_host_p` (pager.cc:402) trusts its TLB, which neither
  `free_page` nor `map_user_page` ever updates. Map, look up, unmap, map to
  other memory: the old memory is returned. `TranslationRight` says exactly how
  far the cache can be trusted: for pages that were never unmapped.
* `pager_overrun`: `create_table` (pager.cc:285) has no bound. The assert in
  `map_user_page` keeps mappings out of the pager's memory, but not tables out
  of the mapped memory. With 16 MB for tables this takes thousands of sparse
  mappings.
* `run_loop_resume`: when a signal interrupts `KVM_RUN`, `VM::run` returns
  before `get_regs` (vm.cc:66). The debugger's continue calls it again and
  `set_regs` puts back registers of an earlier exit. `NoRollback` says this is
  the only way, apart from an error of KVM itself or an address the debugger
  names.
* `signal_slots`: `signal_register` asserts that its number has a slot
  (signal.cc:53) and changes the number afterwards. Signal 63 becomes 65, and the
  guest's handler is copied behind the last slot, 64, before the host refuses the
  number.

### Known deviations

The properties leave out the following, which the models show as the code has
them; no document of the repository says otherwise, so they are not findings.

* System calls. Number `NUM_SYSCALLS` passes the bound (syscall.cc:420) and
  calls what lies behind the table; numbers without an entry call a null
  pointer. `chdir`, `epoll_create` and others do not test for a handler. Most
  functions hand on the -1 of the C library, which the guest reads as EPERM;
  `futex` and `dup` use errno after calls that succeeded; `getcwd` returns a
  positive error. Real-time signals are registered under another number than the
  guest's, 32 and 64 under the same one (signal.cc:60). Registering the default
  action, or to ignore a signal, installs the library's handler too, and delivery
  pushes 0 or 1 as the address to go to (signal.cc:107).
* Transfers. A failing part of a split read returns a positive errno
  (syscall.cc:496). A split write, and elements of a vector, take for granted
  that regions follow each other in the host. A transfer of no bytes at the
  start of a region looks at the byte before it. A write repeats its call until
  all bytes are taken or the result is negative (syscall.cc:539): a host that
  answers 0 for ever is asked for ever.
* Heap. `map` leaves copies of the break's mappings in the vector for mmap
  (heap.cc:253), which munmap or a fixed mapping may find in their place. After
  an unaligned break the mapping cannot grow (heap.cc:101). mremap to a smaller
  size and back leaves pages unmapped (heap.cc:297), and
  `create_resized_mapping` uses a reference that appending may have moved
  (heap.cc:316). A slice that takes all remaining pages goes on with the erased
  mapping (heap.cc:429). Ranges that lie partly in a mapping fail an assertion.
  mprotect of a part may lose its contents. A fixed mapping next to the break
  may take a region into use twice (region_manager.cc:178).
* Start. Read-only segments, segments that end at a page border, and segments on
  the page of the signal handler abort. Strings get no terminator and the
  auxiliary vector no last entry (environ.cc:61): they are null if the host's
  memory was. A static program is told where the headers and the entry of the
  monitor are, not its own (environ.cc:195); a dynamic one without PT_PHDR, the
  headers of the monitor. A type of the auxiliary vector that is
  not in the list of numbers, such as AT_HWCAP2, is read as a string. A page
  fault anywhere above the null page takes memory for the stack until there is
  none. The interrupt stubs lack number 15, so the gates from there on lead to
  the wrong one.
* Debugger. After a late repeat, the acknowledgement of an old reply is taken
  for that of the next one; a second repeat is then read as a new command and
  executed again. `AnswersMatch` therefore claims its order for sessions in
  which the debugger lost patience at most once; `Answered` holds for all. Both
  take the text of a command for one character: that a plus in it (qSupported)
  ends the wait of `put_reply` when the packet comes instead of the
  acknowledgement is not shown, nor is the echo of a packet's number.

### Fairness

`LoopProgresses` assumes weak fairness of the handler's steps and of the VMM's
own steps: the thread is scheduled by the host and its code between two entries
into the guest has no waits. Nothing is assumed of the guest, of the monitor
that calls `VM::run`, or of those who send signals; arrivals are bounded, since
endless signals could keep any handler from returning. The system calls that
are forwarded to the host are taken to return.

`CallReturns` assumes that a transfer goes on (`Transfer`): each of its steps is
a host call. Its hypothesis `HostTakesBytes` is about the host, not the code: one
that is asked to write again and again takes some bytes at last. Without it the
property fails, as described above. `FaultEnds` assumes that the monitor serves the interrupt it was
called for and that the guest repeats the faulting instruction, as the processor
makes it do. `Answered` assumes that the stub and the debugger take what has
arrived; nobody has to give a command or to lose patience, and a guest that runs
need not stop.

## Proofs

All constants are arbitrary, subject to the named assumptions in the modules:
sizes are positive, addresses natural numbers. Three theorems, and those about
the heap together, have a hypothesis of their own, named below with the code
that justifies it.

`RegionManagerProofs` - the inductive invariant joins the type, disjointness of
all regions, their place inside chunks and `ListsSorted` (every free region is
in the list of its present size).
Disjointness alone is not inductive: a new chunk must be known to be apart from
all regions, which follows from every region being inside an old chunk. The
lemmas say what appending to a list and erasing from one do to the entries of
the lists, what a piece of a region inherits, and that replacing a region by
disjoint pieces keeps the invariant; each action is an instance. Theorems:
`TypeCorrect`, `NoOverlapTheorem`, `InsideChunksTheorem`,
`SearchCompleteTheorem` (from `ListsSorted` and monotonicity of the index).

`RegionManagerPoolProofs` - builds on that invariant. `StepKinds` shows that
every step is one of four: a region is taken from the lists, perhaps from a new
chunk (`Takes`); a region is cut into pieces and a gap that is freed (`Gives`,
which covers both frees and both slices); a region is bound; or nothing moves.
The remaining properties are proved for these four. `AllocateAssertionsTheorem`
needs that the region found, or the new chunk, is large enough. `NoLeakTheorem`:
cutting and filing lose no unit (`AllKept`). `BindingStableTheorem`: a piece
keeps the distance of guest address and base of its region.
`ImplementsPoolTheorem` is the refinement of `MemoryPool`, step by step; it also
needs that no region is empty (`NonEmptyTheorem`), since two empty ones at one
address would be one extent of the pool. `PagesNotSharedTheorem` (via
`AllOnPages`) assumes `WholePages`: chunks begin at pages (`posix_memalign` with
the page size, `src/src/vm.cc:346`, `src/src/pager.cc:256`), they grow by whole
pages (`src/include/elkvm/pager.h:38`), and slices are cut at pages. The last is
not so everywhere: mprotect may pass on a length inside a page. The other
theorems about the allocator hold for such cuts too, which no run makes; requested
sizes may be anything.

`PagerProofs` - the invariant adds to the types that chunks are disjoint in
host memory and lie one after the other in physical memory, that every frame
in a page table belongs to a chunk, and that a TLB entry of a page that is
mapped and never was unmapped has the host page of its frame. Theorems:
`TypeCorrect`, `EffectivePermissionTheorem`, `ChunksInvertibleTheorem`,
`TranslationRightTheorem`, and the action property `NoOverwriteTheorem`. Two more
rest on `StepKinds`: a step maps pages of user runs or of the kernel, or it maps
nothing and what it unmaps is an unbroken run from a user page.
`KernelStableTheorem` assumes `HoleBelowKernel`, that the page below the kernel
is no user page: addresses below `KERNEL_SPACE_BOTTOM` are not canonical
(`src/include/elkvm/pager.h:39`). Then that page is never mapped
(`HoleUnmapped`), and an unmap that runs on, for which the code has no check,
stops there. `TablesNotMappedTheorem` assumes `RoomForTables`, that the pager's
own chunk holds one page per table of the address space in use; then user frames
come after it (`Reserved`). The code checks neither; a run with less room shows
what happens without.

`RunLoopProofs` - `num + sent <= arrived` is not inductive, because handlers and
`signal_deliver` store values computed from earlier reads. The invariant says
that such a read is never ahead of the counter, that an inner handler has read
no less than the code it interrupted, and that one arrived signal is in reserve
for every handler that has yet to count and for the one `signal_deliver` has
taken off. Theorems: `NoExtraDeliveryTheorem`, `OverrunTheorem`. The second part
has `TypeCorrect`; `NoRollbackTheorem` from `Fresh` (outside the window from
`KVM_RUN` to `get_regs` the copy of the registers is not older than KVM's); and
`NoSignalLostTheorem` from `Ledger`: as long as nothing raced and the array was
not overrun, nested handlers all wait at the same place for different signals
(`Undisturbed`), what was read is still there (`Current`), and for every signal
the number that arrived is the number delivered, waiting in the array, in a
handler and in the hands of `signal_deliver` (`Balanced`). The count of waiting
signals is a cardinality; its lemmas say what one more entry and a change beyond
the end do to it.

`GuestIOProofs` - about `IOSpec`, the composition of the system calls with the
transfers. `LimitsTheorem`, and
`ResultTheorem`, that the guest gets the host's result or error. The last goes
through the table of system calls by the kind of result a function makes, not
row by row. `TransfersTheorem` and `ReportsTheorem` from `IOInv`: during a read
the mark is the guest address after the bytes moved so far, and every part
but the first begins with a region (`Reading`); during a write it is the host
address after them (`Writing`). That the regions of a buffer in host order are
adjacent to the end of the buffer needs an induction over regions, which is done
by contradiction with the least counterexample (`LeastElement`, from the
well-foundedness of the naturals). `CallsReturnTheorem` says that no call with
mapped memory the library implements ends the monitor; it combines the table
with the transfers.

`GdbStubProofs` - `AnswersMatchTheorem`. The invariant `GInv` is about the
contents of both channels. `Turns` relates the numbers of the commands given,
executed and answered; `Format` says that packets are complete up to what was
read; `Backward` says what the debugger can take for an acknowledgement or for a
reply. In the other direction there is one message under way as long as the
debugger is patient (`LockStep`). After it lost patience there may be more, but:
once a command was accepted, what repeats it comes before the next
acknowledgement and is taken for a bad one (`NotAgain`); before, the packets the
stub can find are those of the present command, and either there is only one of
them or no acknowledgement is astray that could end the reply early
(`ReadNext`: `Once` or `NoStray`). With two losses of patience both can go wrong
at once, which is why the property stops at one. Contents are stated with three
operators (`None`, `NoneAfter`, `Followed`) whose behaviour under taking and
putting characters is proved once.

`StartupProofs` - what loops leave in memory, for every program and every input.
`SegmentsLoadedTheorem` from `LoadInv`: the segments loaded so far are in place
and mapped (`SegmentWritten`), with zeroes written where the file has no data,
they lie below the first free byte, and nothing but zeroes was written above it
(`Blank`), so that the padding `pad_end` writes behind a region harms nobody. Later steps of the start only take
memory above. `InitialStackTheorem` adds `StackInv`: of the list of words to be
pushed the first ones are in place below the top of the stack, the strings they
point to are complete below the offset in the environment's region, with no
byte of another right behind them, and the word at the top, after the auxiliary vector,
is written by nobody. That the values of the vector are the ones the program's
headers ask for, but for the `Foreign` ones, is `AuxInv`, carried from `check_elf`
on. `PlanReversed` says that the list, read backwards, is what a
new program expects (`NewProgram`). Interrupts push onto the kernel's stack and
page faults add parts below, so the words stay (`StackKept`). The places where
a concatenation of arbitrary length is built are proved by the least
counterexample. Assumptions: the page size and the environment's pages are
positive, the interpreter's base is page aligned (`loader_base_addr`,
`src/include/elkvm/elfloader.h`), headers and inputs are well typed, and entries
of the auxiliary vector that the code reads as numbers are numbers.

`HeapProofs` - four properties of `Heap` as long as the guest calls mmap
without an address and munmap of ranges in one mapping, the first of the mixes in
`Orderly`: `AssertionsTheorem`, `AllocatedTheorem`, `ServedTheorem` and `UntouchedTheorem`. The invariant `HeapInv` says of the heap
(`HeapOK`) that regions are whole pages, apart from each other, and that exactly
the allocated ones are not free, with every listed one listed once
(`RegionsOK`); that a mapping for mmap has a region of its own and starts with
it, and that its count of pages is the number of its pages that are still in the
page tables (`MappingOK`); and that a mapped page is one of the data segment or of
a mapping (`PagesOK`). The count is what the code relies on: `unmap` gives the
region back when the count reaches zero, so it must be a cardinality for the
region to be mapped nowhere, and the checks of `unmap` follow from it. That the
search by host address and the one by equality, which does not compare regions,
find the mapping meant follows from regions being apart (`HostFound`,
`MappingErased`). There is a lemma for every function in the chains of calls:
`Allocated`, `Constructed`, `MappedSome`, `MappedNone`, `Created` for mmap,
`UnmapDone`, `RegionReturned`, `MappingErased`, `Munmapped` for munmap. The
hypothesis `RoomBelowData` says that the memory all calls can take ends below
the data segment. The code does not check that host memory, whose address becomes
the guest's (mapping.cc:49), is apart from the program; it relies on where the
host has its memory. `MCHeap` evaluates the hypothesis.

Only model-checked:
- `LoopProgresses`, `CallReturns`, `FaultEnds` and `Answered`: liveness under
  fairness is out of the prover's reach;
- `BreakMapped`, which is about brk, and the other four properties of `Heap` for
  calls other than mmap and munmap: a fixed mapping, mprotect and
  brk go through `slice` and through copies of mappings in both vectors, and
  `free_unused_mappings` is a loop over a vector (a fold, for which there is no
  induction here); `MappedIsAllocated` claims something for every sequence that
  leaves the break to brk, and only the mix above is proved.

## Not modelled

Output, logging, dumps and disassembly; the bit layout of page table entries and
descriptor tables, which are written once; offsets inside a page in the pager,
which are carried along unchanged; what files put into mappings; the frame that
is pushed for a signal; the initial segment and control registers; the text of
debugger commands and replies, the size of the command buffer and a connection
that was closed; `Stack::grow`, `chunk_remap` and other functions without a
caller; more than one VM or virtual CPU (the library creates one); the example
monitors, which only use the library.

## Plan

Done: all modules above, and the proofs about `RegionManager`, `Pager`,
`RunLoop`, `Syscalls`, `GuestIO`, `GdbStub`, `Startup` and, for mmap with munmap,
`Heap`.

Left are the other two mixes of `Heap`, mmap with MAP_FIXED and mprotect, and mmap
with brk: `MappingOK` would have to let a mapping's guest address differ from its
memory's, and let several mappings share what was one region.
