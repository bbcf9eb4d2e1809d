----------------------------- MODULE MCSystemCalls -----------------------------
\* All system calls, made in any order by a guest whose monitor counts times
\* itself and leaves four handlers out.
EXTENDS GuestIO

MCInOthers == {"read", "write", "readv", "writev", "mmap", "munmap", "brk", "mremap", "mprotect"}
MCCalls == {n \in 0 .. 315 : n >= NUM_SYSCALLS \/ elkvm_syscalls[n] \notin MCInOthers}
MCHandlers == (default_handlers \cup {"times"}) \ {"statfs", "gettimeofday", "chdir", "readv"}

\* Three regions in the host's memory: in the guest's order without gaps, with
\* gaps, and in another order.
MCLayouts == {<<20, 22, 24>>, <<20, 30, 40>>, <<24, 20, 22>>}
================================================================================
