----------------------------- MODULE GuestIOProofs -----------------------------
(***************************************************************************)
(* Proofs about the system calls: first those that keep state and those    *)
(* that forward, then read, write, readv and writev - what they move, what *)
(* they report, and that a well-formed call does not end the monitor.      *)
(***************************************************************************)
EXTENDS GuestIO, SequenceTheorems, WellFoundedInduction, TLAPS

--------------------------------------------------------------------------------
(***************************************************************************)
(* Proofs about the system calls that keep state in the virtual machine    *)
(* and about those that forward, in the system that GuestIO composes of    *)
(* them and the transfers.                                                 *)
(***************************************************************************)
\* What the steps leave alone: only setrlimit touches the limits.
LEMMA Frames ==
    ASSUME [IONext]_allvars
    PROVE  \/ UNCHANGED procvars
           \/ \E res \in Resources, p \in Pointers, v \in Limits : elkvm_do_setrlimit(res, p, v)
<1> DEFINE Lim == \/ UNCHANGED procvars
                  \/ \E res \in Resources, p \in Pointers, v \in Limits : elkvm_do_setrlimit(res, p, v)
<1>1. CASE UNCHANGED allvars
  BY <1>1 DEF allvars, vars, procvars
<1>2. ASSUME Call PROVE Lim
  <2>1. ASSUME NEW n \in GuestCalls, handle_syscall(n) PROVE Lim
    <3>1. ASSUME ForwardedCall(n) \/ Unimplemented(n) \/ NoFunction(n) \/ InvalidNumber(n)
          PROVE  Lim
      BY <3>1 DEF ForwardedCall, Unimplemented, NoFunction, InvalidNumber
    <3>2. ASSUME KeptInVm(n) PROVE Lim
      <4>1. ASSUME NEW res, NEW p, elkvm_do_getrlimit(res, p) PROVE Lim
        BY <4>1 DEF elkvm_do_getrlimit
      <4>2. ASSUME NEW s, NEW p, NEW act, elkvm_do_sigaction(s, p, act) PROVE Lim
        BY <4>2 DEF elkvm_do_sigaction
      <4>3. ASSUME NEW code, NEW p, elkvm_do_arch_prctl(code, p) PROVE Lim
        BY <4>3 DEF elkvm_do_arch_prctl
      <4>4. ASSUME elkvm_do_exit_group PROVE Lim
        BY <4>4 DEF elkvm_do_exit_group
      <4> QED
        BY <3>2, <4>1, <4>2, <4>3, <4>4 DEF KeptInVm
    <3> QED
      BY <2>1, <3>1, <3>2 DEF handle_syscall
  <2>2. ASSUME NEW o, NEW p, Refused(o, p) PROVE Lim
    BY <2>2 DEF Refused
  <2>3. ASSUME GuestContinues PROVE Lim
    BY <2>3 DEF GuestContinues
  <2>4. ASSUME NEW o, NEW l, NEW p, NEW n, Begin(o, l, p, n) PROVE Lim
    BY <2>4 DEF Begin
  <2> HIDE DEF Lim
  <2> QED
    BY <1>2, <2>1, <2>2, <2>3, <2>4 DEF Call
<1>3. ASSUME Transfer PROVE UNCHANGED procvars
  <2>1. Elsewhere
    BY <1>3 DEF Transfer, elkvm_do_read, elkvm_do_write, elkvm_do_iov, ReadWhole, ReadAborts,
                ReadPart, WriteNowhere, Halt
  <2> QED
    BY <2>1 DEF Elsewhere, procvars
<1> QED
  BY <1>1, <1>2, <1>3 DEF IONext

\* The copy of the limits that getrlimit shows to the guest follows the host's
\* limits through every sequence of calls, refused or granted.
THEOREM LimitsTheorem == IOSpec => []LimitsMatchHost
<1>1. IOInit => LimitsMatchHost
  BY DEF IOInit, Init, LimitsMatchHost
<1>2. LimitsMatchHost /\ [IONext]_allvars => LimitsMatchHost'
  <2> SUFFICES ASSUME LimitsMatchHost, [IONext]_allvars PROVE LimitsMatchHost'
    OBVIOUS
  <2>1. CASE UNCHANGED procvars
    BY <2>1 DEF procvars, LimitsMatchHost
  <2>2. ASSUME NEW res, NEW p, NEW v, elkvm_do_setrlimit(res, p, v) PROVE LimitsMatchHost'
    BY <2>2 DEF elkvm_do_setrlimit, procvars, LimitsMatchHost
  <2> QED
    BY <2>1, <2>2, Frames
<1> QED
  BY <1>1, <1>2, PTL DEF IOSpec

--------------------------------------------------------------------------------
(***************************************************************************)
(* The table of the functions that forward.                                *)
(***************************************************************************)
Negative == {"openat", "ioctl", "getdents", "times"}
NonZero == {"access", "pipe", "statfs", "futex"}

\* The names in the table.
LEMMA TableRaw ==
    ASSUME NEW c \in DOMAIN Forwarding, c \notin Negative \cup NonZero \cup {"dup", "getcwd"}
    PROVE  Forwarding[c].ret = "raw"
BY DEF Negative, NonZero, Forwarding, Forward, elkvm_do_open, elkvm_do_close, elkvm_do_stat,
    elkvm_do_fstat, elkvm_do_lstat, elkvm_do_lseek, elkvm_do_sigprocmask, elkvm_do_nanosleep,
    elkvm_do_getpid, elkvm_do_uname, elkvm_do_fcntl, elkvm_do_truncate, elkvm_do_ftruncate,
    elkvm_do_chdir, elkvm_do_fchdir, elkvm_do_mkdir, elkvm_do_unlink, elkvm_do_readlink,
    elkvm_do_gettimeofday, elkvm_do_getrusage, elkvm_do_getuid, elkvm_do_getgid,
    elkvm_do_geteuid, elkvm_do_getegid, elkvm_do_gettid, elkvm_do_time, elkvm_do_epoll_create,
    elkvm_do_epoll_wait, elkvm_do_epoll_ctl, elkvm_do_socket, elkvm_do_accept, elkvm_do_bind,
    elkvm_do_listen, elkvm_do_getsockname, elkvm_do_setsockopt, elkvm_do_fstatfs,
    elkvm_do_set_robust_list, elkvm_do_set_tid_address, elkvm_do_clock_gettime,
    elkvm_do_clock_getres, elkvm_do_tgkill

\* The functions that turn a negative result into the error call the host for a count.
LEMMA TableNegative ==
    ASSUME NEW c \in Negative
    PROVE  c \in DOMAIN Forwarding /\ Forwarding[c].ret = "negative" /\ HostKind(c) = "count"
BY DEF Negative, Forwarding, Forward, elkvm_do_openat, elkvm_do_ioctl, elkvm_do_getdents,
    elkvm_do_times, HostKind, pass_file, pass_process, pass_system, pass_socket

\* Those that turn every result but 0 into the error call it for 0, futex excepted.
LEMMA TableNonZero ==
    ASSUME NEW c \in NonZero
    PROVE  /\ c \in DOMAIN Forwarding /\ Forwarding[c].ret = "nonzero"
           /\ HostKind(c) = IF c = "futex" THEN "count" ELSE "zero"
BY DEF NonZero, Forwarding, Forward, elkvm_do_access, elkvm_do_pipe, elkvm_do_statfs,
    elkvm_do_futex, HostKind, pass_file, pass_process, pass_system, pass_socket

\* What a forwarding function makes of the host's answer is its result, the
\* negated error, or the result as it is.
LEMMA ForwardedResult ==
    ASSUME NEW c \in DOMAIN Forwarding, c \notin {"dup", "getcwd"},
           NEW h \in HostAnswers(HostKind(c)), ~(c = "futex" /\ h.ok)
    PROVE  Result(Forwarding[c].ret, h) \in {Expected(h), h.r}
<1>1. CASE c \in Negative
  <2>1. h \in Failures \cup [ok : {TRUE}, r : Counts, e : {errno}]
    BY <1>1, TableNegative DEF HostAnswers
  <2>2. h.ok = FALSE \/ h.r \in Nat
    BY <2>1, SyscallConstants DEF Failures
  <2> QED
    BY <1>1, <2>2, TableNegative DEF Result, Expected
<1>2. CASE c \in NonZero
  <2>1. CASE c = "futex"
    <3>1. h \in Failures \cup [ok : {TRUE}, r : Counts, e : {errno}]
      BY <1>2, <2>1, TableNonZero DEF HostAnswers
    <3>2. ~h.ok /\ h.r = -1
      BY <2>1, <3>1 DEF Failures
    <3> QED
      BY <1>2, <3>2, TableNonZero DEF Result, Expected
  <2>2. CASE c # "futex"
    <3>1. h \in Failures \cup [ok : {TRUE}, r : {0}, e : {errno}]
      BY <1>2, <2>2, TableNonZero DEF HostAnswers
    <3>2. h.ok = FALSE \/ h.r = 0
      BY <3>1 DEF Failures
    <3> QED
      BY <1>2, <3>2, TableNonZero DEF Result, Expected
  <2> QED
    BY <2>1, <2>2
<1>3. CASE c \notin Negative \cup NonZero
  BY <1>3, TableRaw DEF Result
<1> QED
  BY <1>1, <1>2, <1>3

\* A transfer in progress is no call that reached the host as a whole.
TransferCall == busy => call.host = <<>>

\* The system calls leave a result of the host's call, or none was made.
LEMMA CallGivesResult ==
    ASSUME NEW n, handle_syscall(n)
    PROVE  GuestGetsHostResult'
<1>1. ASSUME NEW c, NEW a, NoHostCall(c, a) PROVE GuestGetsHostResult'
  BY <1>1 DEF NoHostCall, Reached, GuestGetsHostResult
<1>2. ASSUME NEW c \in DOMAIN Forwarding, NEW a, Forwarded(c, a) PROVE GuestGetsHostResult'
  <2>1. ASSUME NEW h \in HostAnswers(HostKind(c)), NEW host, Reached(c, a, host, h),
               Return(Result(Forwarding[c].ret, h))
        PROVE  GuestGetsHostResult'
    BY <2>1, ForwardedResult DEF Reached, Return, GuestGetsHostResult, Expected
  <2> QED
    BY <1>1, <1>2, <2>1 DEF Forwarded
<1>3. ASSUME NEW res, NEW p, NEW v, elkvm_do_setrlimit(res, p, v) PROVE GuestGetsHostResult'
  <2>1. ASSUME NEW h, NEW host, Reached("setrlimit", <<p>>, host, h), Return(h.r)
        PROVE  GuestGetsHostResult'
    BY <2>1 DEF Reached, Return, GuestGetsHostResult, Expected
  <2> QED
    BY <1>1, <1>3, <2>1 DEF elkvm_do_setrlimit
<1>4. ASSUME KeptInVm(n) PROVE GuestGetsHostResult'
  BY <1>1, <1>3, <1>4 DEF KeptInVm, elkvm_do_getrlimit, elkvm_do_sigaction,
                          elkvm_do_arch_prctl, elkvm_do_exit_group
<1> QED
  BY <1>1, <1>2, <1>4 DEF handle_syscall, ForwardedCall, Unimplemented, NoFunction, InvalidNumber

\* The guest gets what the host answered to this call of its own, through any
\* sequence of calls, transfers and errors, from every function of the table but
\* the three the property names.
THEOREM ResultTheorem == IOSpec => []GuestGetsHostResult
<1> DEFINE I == GuestGetsHostResult /\ TransferCall
<1>1. IOInit => I
  BY DEF IOInit, Init, NoTransfer, NoCall, GuestGetsHostResult, TransferCall
<1>2. I /\ [IONext]_allvars => I'
  <2> SUFFICES ASSUME I, [IONext]_allvars PROVE I'
    OBVIOUS
  <2>1. CASE UNCHANGED allvars
    BY <2>1 DEF allvars, vars, iovars, GuestGetsHostResult, TransferCall, Expected
  <2>2. ASSUME Call PROVE I'
    <3>1. ASSUME NEW n, handle_syscall(n), UNCHANGED iovars PROVE I'
      <4>1. ~busy'
        BY <2>2, <3>1 DEF Call, iovars
      <4> QED
        BY <3>1, <4>1, CallGivesResult DEF TransferCall
    <3>2. ASSUME call'.host = <<>> PROVE I'
      BY <3>2 DEF GuestGetsHostResult, TransferCall
    <3>3. ASSUME NEW o, NEW p, Refused(o, p) PROVE I'
      BY <3>2, <3>3 DEF Refused, NoHostCall, Reached
    <3>4. ASSUME GuestContinues PROVE I'
      BY <3>2, <3>4 DEF GuestContinues, NoCall
    <3>5. ASSUME NEW o, NEW l, NEW p, NEW n, Begin(o, l, p, n) PROVE I'
      BY <3>2, <3>5 DEF Begin, Reached
    <3> HIDE DEF I
    <3> QED
      BY <2>2, <3>1, <3>3, <3>4, <3>5 DEF Call
  <2>3. ASSUME Transfer PROVE I'
    <3>1. Elsewhere /\ busy
      BY <2>3 DEF Transfer, elkvm_do_read, elkvm_do_write, elkvm_do_iov, ReadWhole, ReadAborts,
                  ReadPart, WriteNowhere, Halt
    <3> QED
      BY <3>1 DEF Elsewhere, GuestGetsHostResult, TransferCall
  <2> QED
    BY <2>1, <2>2, <2>3 DEF IONext
<1> QED
  BY <1>1, <1>2, PTL DEF IOSpec

--------------------------------------------------------------------------------
(***************************************************************************)
(* The guest's memory as regions of Size bytes.                            *)
(***************************************************************************)
Mapped == GuestBase .. GuestEnd - 1

\* The region of an address of the guest, and the offset in it.
Idx(g) == ((g - GuestBase) \div Size) + 1
Off(g) == (g - GuestBase) % Size

\* Every mapped address has a place in one of the regions.
LEMMA Place ==
    ASSUME NEW g \in Mapped
    PROVE  /\ Idx(g) \in 1 .. Regions /\ Off(g) \in 0 .. Size - 1
           /\ g = GuestBase + Size * (Idx(g) - 1) + Off(g)
<1>1. g \in Nat /\ g - GuestBase \in Nat /\ Size \in Nat \ {0} /\ Regions \in Nat /\ GuestBase \in Nat
  BY GuestIOConstants DEF Mapped
<1> DEFINE x == g - GuestBase
           q == x \div Size
           r == x % Size
<1>2. q \in Int /\ r \in 0 .. Size - 1 /\ x = Size * q + r
  BY <1>1
<1>3. x < Regions * Size
  BY <1>1, GuestIOConstants DEF Mapped, GuestEnd
<1> HIDE DEF x, q, r
<1>4. q >= 0
  <2> SUFFICES ASSUME q <= -1 PROVE FALSE
    BY <1>2
  <2>1. Size * q <= -Size
    BY <1>1, <1>2
  <2> QED
    BY <1>1, <1>2, <2>1 DEF x
<1>5. q < Regions
  <2> SUFFICES ASSUME q >= Regions PROVE FALSE
    BY <1>1, <1>2
  <2>1. Size * q >= Size * Regions
    BY <1>1, <1>2
  <2> QED
    BY <1>1, <1>2, <1>3, <2>1 DEF x
<1> QED
  BY <1>1, <1>2, <1>4, <1>5 DEF Idx, Off, x, q, r

\* The place of an address is the only one.
LEMMA PlaceUnique ==
    ASSUME NEW q \in Int, NEW r \in 0 .. Size - 1
    PROVE  Idx(GuestBase + Size * q + r) = q + 1 /\ Off(GuestBase + Size * q + r) = r
<1>1. Size \in Nat \ {0} /\ GuestBase \in Nat
  BY GuestIOConstants
<1> DEFINE x == Size * q + r
           d == x \div Size
           m == x % Size
<1>2. x \in Int /\ (GuestBase + Size * q + r) - GuestBase = x
  BY <1>1
<1>3. d \in Int /\ m \in 0 .. Size - 1 /\ x = Size * d + m
  BY <1>1, <1>2
<1>4. Size * (d - q) = r - m
  BY <1>1, <1>3
<1> HIDE DEF d, m
<1>5. d = q
  <2>1. CASE d >= q + 1
    BY <1>1, <1>3, <1>4, <2>1
  <2>2. CASE d <= q - 1
    BY <1>1, <1>3, <1>4, <2>2
  <2> QED
    BY <1>3, <2>1, <2>2
<1>6. m = r
  <2>1. d - q = 0 /\ Size * 0 = 0
    BY <1>1, <1>5
  <2> QED
    BY <1>3, <1>4, <2>1
<1> QED
  BY <1>2, <1>5, <1>6 DEF Idx, Off, d, m

\* Two addresses are in one region when the second is before the end of the
\* first one's, and their offsets differ as they do.
LEMMA SameRegion ==
    ASSUME NEW g \in Mapped, NEW j \in Nat
    PROVE  /\ Off(g) + j < Size => g + j \in Mapped /\ Idx(g + j) = Idx(g) /\ Off(g + j) = Off(g) + j
           /\ g + j \in Mapped /\ Off(g) + j >= Size => Idx(g + j) # Idx(g)
<1>0. Size \in Nat \ {0} /\ GuestBase \in Nat /\ Regions \in Nat /\ g \in Nat
  BY GuestIOConstants DEF Mapped
<1>1. /\ Idx(g) \in 1 .. Regions /\ Off(g) \in 0 .. Size - 1
      /\ g = GuestBase + Size * (Idx(g) - 1) + Off(g)
  BY Place
<1> DEFINE q == Idx(g) - 1
           r == Off(g)
<1>2. q \in Nat /\ q + 1 <= Regions /\ r \in 0 .. Size - 1 /\ g = GuestBase + Size * q + r
  BY <1>0, <1>1
<1>3. Idx(g) = q + 1 /\ Off(g) = r
  BY <1>1
<1> HIDE DEF q, r
<1>4. ASSUME r + j < Size PROVE g + j \in Mapped /\ Idx(g + j) = Idx(g) /\ Off(g + j) = r + j
  <2>1. r + j \in 0 .. Size - 1 /\ g + j = GuestBase + Size * q + (r + j)
    BY <1>0, <1>2, <1>4
  <2>2. Idx(g + j) = q + 1 /\ Off(g + j) = r + j
    BY <1>2, <2>1, PlaceUnique
  <2>3. Size * (q + 1) <= Regions * Size
    BY <1>0, <1>2
  <2>4. g + j < GuestEnd
    BY <1>0, <1>2, <2>1, <2>3 DEF GuestEnd
  <2> QED
    BY <1>0, <1>2, <1>3, <2>2, <2>4, GuestIOConstants DEF Mapped, GuestEnd
<1>5. ASSUME g + j \in Mapped, r + j >= Size PROVE Idx(g + j) # Idx(g)
  <2> SUFFICES ASSUME Idx(g + j) = q + 1 PROVE FALSE
    BY <1>3
  <2>1. g + j = GuestBase + Size * q + Off(g + j) /\ Off(g + j) \in 0 .. Size - 1
    BY <1>2, <1>5, Place
  <2> QED
    BY <1>0, <1>2, <1>5, <2>1
<1> QED
  BY <1>3, <1>4, <1>5

\* After the last address of a region comes the first of the next.
LEMMA NextRegion ==
    ASSUME NEW g \in Mapped, g + (Size - Off(g)) \in Mapped
    PROVE  /\ Idx(g + (Size - Off(g))) = Idx(g) + 1 /\ Off(g + (Size - Off(g))) = 0
           /\ Idx(g) + 1 <= Regions
<1>0. Size \in Nat \ {0} /\ GuestBase \in Nat /\ Regions \in Nat /\ g \in Nat
  BY GuestIOConstants DEF Mapped
<1>1. /\ Idx(g) \in 1 .. Regions /\ Off(g) \in 0 .. Size - 1
      /\ g = GuestBase + Size * (Idx(g) - 1) + Off(g)
  BY Place
<1> DEFINE q == Idx(g)
<1>2. g + (Size - Off(g)) = GuestBase + Size * q + 0 /\ q \in Int /\ 0 \in 0 .. Size - 1
  BY <1>0, <1>1
<1>3. Idx(g + (Size - Off(g))) = q + 1 /\ Off(g + (Size - Off(g))) = 0
  <2> HIDE DEF q
  <2> QED
    BY <1>2, PlaceUnique
<1> QED
  BY <1>3, Place

\* The translation of a mapped address.
LEMMA Translation ==
    ASSUME NEW g \in Mapped, layout \in Layouts
    PROVE  /\ get_host_p(g) = layout[Idx(g)] + Off(g)
           /\ layout[Idx(g)] \in Nat \ {0} /\ get_host_p(g) \in Nat \ {0}
           /\ contains_address(Idx(g), get_host_p(g))
<1>1. Idx(g) \in 1 .. Regions /\ Off(g) \in 0 .. Size - 1
  BY Place
<1>2. layout[Idx(g)] \in Nat \ {0}
  BY <1>1, GuestIOConstants
<1>3. GuestBase <= g /\ g < GuestEnd
  BY GuestIOConstants DEF Mapped, GuestEnd
<1> QED
  BY <1>1, <1>2, <1>3, GuestIOConstants DEF get_host_p, Idx, Off, contains_address

\* An address of the host is in one region at most, and find_region finds it.
LEMMA FindRegion ==
    ASSUME layout \in Layouts, NEW r \in 1 .. Regions, NEW h \in Int, contains_address(r, h)
    PROVE  find_region(h) = r /\ \A i \in 1 .. Regions : contains_address(i, h) => i = r
<1>1. \A i \in 1 .. Regions : contains_address(i, h) => i = r
  <2> SUFFICES ASSUME NEW i \in 1 .. Regions, contains_address(i, h), i # r PROVE FALSE
    OBVIOUS
  <2>1. layout[i] \in Nat /\ layout[r] \in Nat /\ Size \in Nat
    BY GuestIOConstants
  <2>2. layout[i] + Size <= layout[r] \/ layout[r] + Size <= layout[i]
    BY GuestIOConstants
  <2> QED
    BY <2>1, <2>2 DEF contains_address
<1> QED
  BY <1>1 DEF find_region

\* A mapped address in the host's memory: its region, the space after it, and
\* which other addresses share the region.
LEMMA HostPlace ==
    ASSUME NEW g \in Mapped, layout \in Layouts
    PROVE  /\ find_region(get_host_p(g)) = Idx(g)
           /\ SpaceAfter(get_host_p(g)) = Size - Off(g)
           /\ \A e \in Mapped : same_region(get_host_p(g), get_host_p(e)) <=> Idx(e) = Idx(g)
<1>1. /\ get_host_p(g) = layout[Idx(g)] + Off(g) /\ layout[Idx(g)] \in Nat
      /\ get_host_p(g) \in Nat /\ contains_address(Idx(g), get_host_p(g))
  BY Translation
<1>2. Idx(g) \in 1 .. Regions /\ Off(g) \in 0 .. Size - 1
  BY Place
<1>3. find_region(get_host_p(g)) = Idx(g)
  BY <1>1, <1>2, FindRegion
<1>4. SpaceAfter(get_host_p(g)) = Size - Off(g)
  BY <1>1, <1>2, <1>3, GuestIOConstants DEF SpaceAfter
<1>5. ASSUME NEW e \in Mapped PROVE same_region(get_host_p(g), get_host_p(e)) <=> Idx(e) = Idx(g)
  <2>1. get_host_p(e) \in Int /\ contains_address(Idx(e), get_host_p(e)) /\ Idx(e) \in 1 .. Regions
    BY Translation, Place
  <2>2. \A i \in 1 .. Regions : contains_address(i, get_host_p(e)) => i = Idx(e)
    BY <2>1, FindRegion
  <2> QED
    BY <1>2, <1>3, <2>1, <2>2 DEF same_region
<1> QED
  BY <1>3, <1>4, <1>5

\* A set of naturals that is not empty has a least element.
LEMMA LeastElement ==
    ASSUME NEW T, T \subseteq Nat, T # {}
    PROVE  \E x \in T : \A y \in T : x <= y
<1>1. ASSUME NEW R, IsWellFoundedOn(R, Nat) PROVE \E x \in T : \A y \in T : ~(<<y, x>> \in R)
  BY <1>1, WFMin
<1>2. \E R : IsWellFoundedOn(R, Nat) /\ \A x, y \in Nat : y < x => <<y, x>> \in R
  <2>1. \A x, y \in Nat : y < x => <<y, x>> \in OpToRel(<, Nat)
    BY DEF OpToRel
  <2> WITNESS OpToRel(<, Nat)
  <2> QED
    BY <2>1, NatLessThanWellFounded
<1>3. PICK R : IsWellFoundedOn(R, Nat) /\ \A x, y \in Nat : y < x => <<y, x>> \in R
  BY <1>2
<1>4. PICK x \in T : \A y \in T : ~(<<y, x>> \in R)
  BY <1>1, <1>3
<1>5. ASSUME NEW y \in T PROVE x <= y
  <2>1. x \in Nat /\ y \in Nat
    OBVIOUS
  <2>2. ~(y < x)
    BY <1>3, <1>4, <2>1
  <2> QED
    BY <2>1, <2>2
<1> QED
  BY <1>5

\* Regions that follow each other pairwise in the host's memory lie there as
\* one block: a translated address goes on where the buffer does.
LEMMA HostOrder ==
    ASSUME layout \in Layouts, InHostOrder
    PROVE  \A i \in 1 .. Regions : layout[i] = layout[1] + Size * (i - 1)
<1>0. Size \in Nat /\ Regions \in Nat /\ \A i \in 1 .. Regions : layout[i] \in Nat
  BY GuestIOConstants
<1> DEFINE T == {i \in Nat : i \in 1 .. Regions /\ layout[i] # layout[1] + Size * (i - 1)}
<1> SUFFICES ASSUME T # {} PROVE FALSE
  BY <1>0
<1>1. PICK x \in T : \A y \in T : x <= y
  BY LeastElement
<1>2. x # 1
  BY <1>0
<1>3. x - 1 \in 1 .. Regions - 1 /\ x - 1 \notin T
  BY <1>0, <1>1, <1>2
<1>4. layout[x - 1] = layout[1] + Size * ((x - 1) - 1)
  BY <1>0, <1>3
<1>5. layout[x] = layout[x - 1] + Size
  BY <1>0, <1>3 DEF InHostOrder
<1> QED
  BY <1>0, <1>3, <1>4, <1>5

\* Up to the end of the region the translation goes on by bytes.
LEMMA GuestRun ==
    ASSUME NEW g \in Mapped, layout \in Layouts, NEW k \in Nat, k <= Size - Off(g)
    PROVE  \A i \in 1 .. k : get_host_p(g + (i - 1)) = get_host_p(g) + (i - 1)
<1> SUFFICES ASSUME NEW i \in 1 .. k PROVE get_host_p(g + (i - 1)) = get_host_p(g) + (i - 1)
  OBVIOUS
<1>1. Off(g) \in Nat /\ i - 1 \in Nat /\ Size \in Nat /\ Off(g) + (i - 1) < Size
  BY Place, GuestIOConstants
<1>2. g + (i - 1) \in Mapped /\ Idx(g + (i - 1)) = Idx(g) /\ Off(g + (i - 1)) = Off(g) + (i - 1)
  BY <1>1, SameRegion
<1> QED
  BY <1>1, <1>2, Translation

\* In the host's order it goes on by bytes through all of the memory.
LEMMA GuestOrder ==
    ASSUME layout \in Layouts, InHostOrder, NEW g \in Mapped, NEW j \in Nat, g + j \in Mapped
    PROVE  get_host_p(g + j) = get_host_p(g) + j
<1>0. layout[1] \in Nat /\ Size \in Nat /\ GuestBase \in Nat
  BY GuestIOConstants
<1>1. ASSUME NEW a \in Mapped PROVE get_host_p(a) = layout[1] + (a - GuestBase)
  <2>1. /\ Idx(a) \in 1 .. Regions /\ Off(a) \in 0 .. Size - 1
        /\ a = GuestBase + Size * (Idx(a) - 1) + Off(a)
    BY Place
  <2>2. layout[Idx(a)] = layout[1] + Size * (Idx(a) - 1)
    BY <2>1, HostOrder
  <2>3. get_host_p(a) = layout[Idx(a)] + Off(a)
    BY Translation
  <2>4. Size * (Idx(a) - 1) \in Int
    BY <1>0, <2>1
  <2> QED
    BY <1>0, <2>1, <2>2, <2>3, <2>4
<1> QED
  BY <1>0, <1>1 DEF Mapped

--------------------------------------------------------------------------------
(***************************************************************************)
(* The invariant of the transfers.                                         *)
(***************************************************************************)
\* A transfer is about a buffer that is mapped, and belongs to the last call.
Sound ==
    op # "none" =>
        /\ op \in Transfers /\ call.name = op
        /\ layout \in Layouts /\ buf_p \in Mapped /\ count \in Nat /\ buf_p + count <= GuestEnd
        /\ total \in Nat /\ moved \in Seq(Nat)

\* The parts that are done make up the beginning of the buffer, and something is
\* left to do; a part of read but the first begins with a region.
Reading ==
    /\ mark = buf_p + total /\ Len(moved) = total
    /\ InOneRegion => total = 0
    /\ total = 0 \/ Off(mark) = 0
    /\ IF count = 0 THEN total = 0 ELSE total < count

Writing ==
    /\ mark = get_host_p(buf_p) + total /\ Len(moved) = total
    /\ count > 0 /\ InHostOrder => total < count

InProgress ==
    busy => /\ op # "none" /\ status = "running"
            /\ op = "read" => Reading
            /\ op = "write" => Writing
            /\ op \in {"readv", "writev"} => moved = <<>>

IOInv == Sound /\ InProgress /\ TransfersBuffer /\ ReportsWhatMoved

\* What appending a range of the host's addresses does.
LEMMA AppendRange ==
    ASSUME NEW s \in Seq(Nat), NEW h \in Nat, NEW k \in Nat
    PROVE  /\ s \o HostRange(h, k) \in Seq(Nat)
           /\ Len(s \o HostRange(h, k)) = Len(s) + k
           /\ \A i \in 1 .. Len(s) : (s \o HostRange(h, k))[i] = s[i]
           /\ \A i \in 1 .. k : (s \o HostRange(h, k))[Len(s) + i] = h + (i - 1)
<1>1. HostRange(h, k) \in Seq(Nat) /\ Len(HostRange(h, k)) = k
  <2>1. HostRange(h, k) \in [1 .. k -> Nat]
    BY DEF HostRange
  <2> QED
    BY <2>1, IsASeq, LenProperties DEF HostRange
<1>2. \A i \in 1 .. k : HostRange(h, k)[i] = h + (i - 1)
  BY DEF HostRange
<1> DEFINE t == HostRange(h, k)
<1> HIDE DEF t
<1>3. t \in Seq(Nat) /\ Len(t) = k /\ \A i \in 1 .. k : t[i] = h + (i - 1)
  BY <1>1, <1>2 DEF t
<1>4. s \o t \in Seq(Nat) /\ Len(s \o t) = Len(s) + k /\ Len(s) \in Nat
  BY <1>3, ConcatProperties, LenProperties
<1>5. \A i \in 1 .. Len(s) : (s \o t)[i] = s[i]
  BY <1>3, <1>4
<1>6. ASSUME NEW i \in 1 .. k PROVE (s \o t)[Len(s) + i] = t[i]
  BY <1>3, <1>4
<1> QED
  BY <1>3, <1>4, <1>5, <1>6 DEF t

\* A sequence whose bytes are the buffer's is the beginning of the buffer.
LEMMA IsGuestBytes ==
    ASSUME NEW s \in Seq(Nat), \A i \in 1 .. Len(s) : s[i] = get_host_p(buf_p + i - 1)
    PROVE  s = GuestBytes(Len(s))
<1>1. s = [i \in 1 .. Len(s) |-> s[i]]
  BY LenProperties
<1> QED
  BY <1>1 DEF GuestBytes

\* A handler that moves bytes from where the last one stopped goes on in the
\* buffer.
LEMMA MovesBuffer ==
    ASSUME moved \in Seq(Nat), moved = GuestBytes(Len(moved)), buf_p \in Nat,
           NEW h \in Nat, NEW k \in Nat,
           \A i \in 1 .. k : get_host_p((buf_p + Len(moved)) + (i - 1)) = h + (i - 1)
    PROVE  moved \o HostRange(h, k) = GuestBytes(Len(moved) + k)
<1> DEFINE n == Len(moved)
           s == moved \o HostRange(h, k)
<1>1. n \in Nat /\ s \in Seq(Nat) /\ Len(s) = n + k
  BY AppendRange, LenProperties
<1>2. ASSUME NEW i \in 1 .. Len(s) PROVE s[i] = get_host_p(buf_p + i - 1)
  <2>1. CASE i <= n
    <3>1. s[i] = moved[i]
      BY <1>1, <2>1, AppendRange
    <3>2. GuestBytes(n)[i] = get_host_p(buf_p + i - 1)
      BY <1>1, <2>1 DEF GuestBytes
    <3> QED
      BY <3>1, <3>2
  <2>2. CASE i > n
    <3> DEFINE j == i - n
    <3>1. j \in 1 .. k /\ i = n + j
      BY <1>1, <2>2
    <3>2. s[i] = h + (j - 1)
      <4> HIDE DEF j
      <4> QED
        BY <3>1, AppendRange
    <3>3. (buf_p + n) + (j - 1) = buf_p + i - 1
      BY <1>1, <3>1
    <3> QED
      BY <3>1, <3>2, <3>3
  <2> QED
    BY <1>1, <2>1, <2>2
<1> HIDE DEF s
<1>3. s = GuestBytes(Len(s))
  BY <1>1, <1>2, IsGuestBytes
<1> QED
  BY <1>1, <1>3 DEF s

\* A step of a transfer keeps the buffer, and with it what was computed of it.
LEMMA SameBuffer ==
    ASSUME Elsewhere, NEW n
    PROVE  /\ op' = op /\ call' = call /\ layout' = layout /\ buf_p' = buf_p /\ count' = count
           /\ InOneRegion' <=> InOneRegion
           /\ InHostOrder' <=> InHostOrder
           /\ get_host_p(buf_p)' = get_host_p(buf_p)
           /\ GuestBytes(n)' = GuestBytes(n)
<1>1. op' = op /\ call' = call /\ layout' = layout /\ buf_p' = buf_p /\ count' = count
  BY DEF Elsewhere, buffer
<1>2. get_host_p(buf_p)' = get_host_p(buf_p) /\ GuestBytes(n)' = GuestBytes(n)
  BY <1>1 DEF get_host_p, GuestBytes
<1>3. InHostOrder' <=> InHostOrder
  BY <1>1 DEF InHostOrder
<1>4. InOneRegion' <=> InOneRegion
  BY <1>1 DEF InOneRegion, same_region, contains_address, find_region, bend, get_host_p
<1> QED
  BY <1>1, <1>2, <1>3, <1>4

\* Where a read is that is in progress.
LEMMA ReadFacts ==
    ASSUME Sound, op = "read", Reading
    PROVE  /\ mark \in Mapped /\ get_host_p(mark) \in Nat \ {0}
           /\ PartSize(get_host_p(mark)) \in Nat
           /\ PartSize(get_host_p(mark)) <= count - total
           /\ PartSize(get_host_p(mark)) <= Size - Off(mark)
           /\ PartSize(get_host_p(mark)) \in {count - total, Size - Off(mark)}
           /\ count > 0 => /\ bend # NULL
                           /\ same_region(get_host_p(mark), bend) <=>
                                  PartSize(get_host_p(mark)) = count - total
<1>0. /\ layout \in Layouts /\ buf_p \in Mapped /\ count \in Nat /\ buf_p + count <= GuestEnd
      /\ total \in Nat /\ mark = buf_p + total
      /\ IF count = 0 THEN total = 0 ELSE total < count
  BY DEF Sound, Reading
<1>1. GuestBase \in Nat /\ Size \in Nat \ {0} /\ GuestEnd \in Nat
  BY GuestIOConstants DEF GuestEnd
<1>2. mark \in Mapped
  BY <1>0, <1>1 DEF Mapped
<1> DEFINE h == get_host_p(mark)
           space == Size - Off(mark)
<1>3. h \in Nat \ {0} /\ SpaceAfter(h) = space
  BY <1>0, <1>2, Translation, HostPlace
<1>4. Off(mark) \in 0 .. Size - 1 /\ space \in Nat
  BY <1>1, <1>2, Place
<1>5. PartSize(h) = IF space > count - total THEN count - total ELSE space
  BY <1>3 DEF PartSize
<1>6. ASSUME count > 0
      PROVE  bend # NULL /\ (same_region(h, bend) <=> PartSize(h) = count - total)
  <2> DEFINE j == (count - total) - 1
  <2>1. j \in Nat /\ mark + j = buf_p + count - 1 /\ mark + j \in Mapped
    BY <1>0, <1>1, <1>6 DEF Mapped
  <2>2. bend = get_host_p(mark + j)
    BY <2>1 DEF bend
  <2> HIDE DEF j
  <2>3. bend \in Nat \ {0}
    BY <1>0, <2>1, <2>2, Translation
  <2>4. same_region(h, bend) <=> Idx(mark + j) = Idx(mark)
    BY <1>0, <1>2, <2>1, <2>2, HostPlace
  <2>5. Idx(mark + j) = Idx(mark) <=> Off(mark) + j < Size
    BY <1>1, <1>2, <1>4, <2>1, SameRegion
  <2>6. Off(mark) + j < Size <=> PartSize(h) = count - total
    <3> HIDE DEF h
    <3> QED
      BY <1>0, <1>1, <1>4, <1>5 DEF j
  <2> QED
    BY <2>3, <2>4, <2>5, <2>6 DEF NULL
<1> HIDE DEF h
<1>7. PartSize(h) \in Nat /\ PartSize(h) <= count - total /\ PartSize(h) <= space
      /\ PartSize(h) \in {count - total, space}
  BY <1>0, <1>1, <1>4, <1>5
<1> QED
  BY <1>2, <1>3, <1>6, <1>7 DEF h

--------------------------------------------------------------------------------
(***************************************************************************)
(* The steps of the transfers keep the invariant.                          *)
(***************************************************************************)
\* What has to be shown of the bytes a step moves.
LEMMA TransferStep ==
    ASSUME IOInv, busy, Elsewhere, moved' \in Seq(Nat), total' \in Nat,
           count > 0 /\ (op = "read" \/ InHostOrder) =>
               Len(moved') <= count /\ moved' = GuestBytes(Len(moved'))
    PROVE  Sound' /\ TransfersBuffer'
<1>1. /\ op' = op /\ call' = call /\ layout' = layout /\ buf_p' = buf_p /\ count' = count
      /\ InHostOrder' <=> InHostOrder
      /\ GuestBytes(Len(moved))' = [i \in 1 .. Len(moved') |-> get_host_p(buf_p + i - 1)]
  <2>1. op' = op /\ call' = call /\ layout' = layout /\ buf_p' = buf_p /\ count' = count
    BY DEF Elsewhere, buffer
  <2> QED
    BY <2>1, SameBuffer DEF GuestBytes, get_host_p
<1>2. op # "none"
  BY DEF IOInv, InProgress
<1>3. Sound'
  BY <1>1, <1>2 DEF IOInv, Sound
<1>4. TransfersBuffer'
  BY <1>1 DEF TransfersBuffer, GuestBytes
<1> QED
  BY <1>3, <1>4

\* A step that moves nothing and ends the transfer with an error or the process.
LEMMA MovesNothing ==
    ASSUME IOInv, busy, Elsewhere, UNCHANGED <<moved, total>>, busy' = FALSE,
           \/ status' # "running"
           \/ rax' \in Int /\ rax' < 0
           \/ op = "read" /\ ~InOneRegion /\ rax' = errno'
    PROVE  IOInv'
<1>0. op # "none"
  BY DEF IOInv, InProgress
<1>1. moved \in Seq(Nat) /\ total \in Nat
  BY <1>0 DEF IOInv, Sound
<1>2. Sound' /\ TransfersBuffer'
  BY <1>1, TransferStep DEF IOInv, TransfersBuffer
<1>3. InProgress'
  BY DEF InProgress
<1>4. ReportsWhatMoved'
  <2>1. op' = op /\ (InOneRegion' <=> InOneRegion)
    BY SameBuffer
  <2> QED
    BY <2>1 DEF ReportsWhatMoved
<1> QED
  BY <1>2, <1>3, <1>4 DEF IOInv

\* A step that moves k bytes from h, where the last one stopped.
LEMMA MovesOn ==
    ASSUME IOInv, busy, Elsewhere, NEW h \in Nat, NEW k \in Nat,
           moved' = moved \o HostRange(h, k), total' \in Nat,
           count > 0 /\ (op = "read" \/ InHostOrder) =>
               /\ Len(moved) + k <= count
               /\ \A i \in 1 .. k : get_host_p((buf_p + Len(moved)) + (i - 1)) = h + (i - 1)
    PROVE  Sound' /\ TransfersBuffer' /\ Len(moved') = Len(moved) + k /\ moved' \in Seq(Nat)
<1>0. op # "none"
  BY DEF IOInv, InProgress
<1>1. moved \in Seq(Nat) /\ buf_p \in Nat
  BY <1>0, GuestIOConstants DEF IOInv, Sound, Mapped
<1>2. moved' \in Seq(Nat) /\ Len(moved') = Len(moved) + k
  BY <1>1, AppendRange
<1>3. count > 0 /\ (op = "read" \/ InHostOrder) =>
          Len(moved') <= count /\ moved' = GuestBytes(Len(moved'))
  <2> SUFFICES ASSUME count > 0 /\ (op = "read" \/ InHostOrder)
               PROVE  Len(moved') <= count /\ moved' = GuestBytes(Len(moved'))
    OBVIOUS
  <2>1. moved = GuestBytes(Len(moved))
    BY DEF IOInv, TransfersBuffer
  <2>2. moved \o HostRange(h, k) = GuestBytes(Len(moved) + k)
    BY <1>1, <2>1, MovesBuffer
  <2> QED
    BY <1>2, <2>2
<1> QED
  BY <1>2, <1>3, TransferStep

\* The buffer of a read lies in one region.
LEMMA ReadWholeStep ==
    ASSUME IOInv, busy, ReadWhole
    PROVE  IOInv'
<1>0. op = "read" /\ InOneRegion /\ Elsewhere
  BY DEF ReadWhole
<1>1. Sound /\ Reading /\ total = 0 /\ mark = buf_p /\ count \in Nat /\ moved \in Seq(Nat)
  <2>1. Sound /\ Reading
    BY <1>0 DEF IOInv, InProgress
  <2>2. buf_p \in Nat /\ total = 0 /\ mark = buf_p + total
    BY <1>0, <2>1, GuestIOConstants DEF Sound, Reading, Mapped
  <2> QED
    BY <1>0, <2>1, <2>2 DEF Sound
<1>2. CASE Fails(LAMBDA e : -1) /\ turn' = 1 - turn
  <2>1. busy' = FALSE /\ rax' = -1 /\ UNCHANGED <<moved, total>>
    BY <1>2 DEF Fails, Finish, Return
  <2>2. rax' \in Int /\ rax' < 0
    BY <2>1
  <2> QED
    BY <1>0, <2>1, <2>2, MovesNothing
<1>3. ASSUME NEW k \in 0 .. count, Moves(get_host_p(buf_p), k), Finish(k), UNCHANGED <<mark, total>>
      PROVE  IOInv'
  <2> DEFINE h == get_host_p(buf_p)
  <2>1. h \in Nat /\ k \in Nat /\ Len(moved) = 0 /\ buf_p + Len(moved) = mark
    BY <1>0, <1>1, ReadFacts DEF Reading
  <2>2. count > 0 => k <= Size - Off(mark)
    <3> SUFFICES ASSUME count > 0 PROVE k <= Size - Off(mark)
      OBVIOUS
    <3>1. PartSize(h) = count
      BY <1>0, <1>1, ReadFacts DEF InOneRegion
    <3>2. count <= Size - Off(mark)
      BY <1>0, <1>1, <3>1, ReadFacts
    <3>3. Off(mark) \in Int /\ Size \in Int
      BY <1>0, <1>1, ReadFacts, Place, GuestIOConstants
    <3> QED
      BY <1>1, <2>1, <3>2, <3>3
  <2>3. count > 0 => \A i \in 1 .. k : get_host_p((buf_p + Len(moved)) + (i - 1)) = h + (i - 1)
    BY <1>0, <1>1, <2>1, <2>2, ReadFacts, GuestRun DEF Sound
  <2>4. moved' = moved \o HostRange(h, k) /\ total' \in Nat
    BY <1>0, <1>1, <1>3 DEF Moves, Sound
  <2> HIDE DEF h
  <2>5. Sound' /\ TransfersBuffer' /\ Len(moved') = k
    <3>1. Len(moved) + k <= count /\ Len(moved) + k = k
      BY <1>1, <2>1
    <3> QED
      BY <1>0, <2>1, <2>3, <2>4, <3>1, MovesOn
  <2>6. rax' = k /\ busy' = FALSE
    BY <1>3 DEF Finish, Return
  <2> QED
    BY <2>5, <2>6 DEF IOInv, InProgress, ReportsWhatMoved
<1> QED
  BY <1>2, <1>3 DEF ReadWhole

\* One part of a read whose buffer lies in several regions.
LEMMA ReadPartStep ==
    ASSUME IOInv, busy, ReadPart
    PROVE  IOInv'
<1> DEFINE h == get_host_p(mark)
           n == PartSize(h)
<1>0. op = "read" /\ ~InOneRegion /\ Elsewhere
  BY DEF ReadPart
<1>1. Sound /\ Reading /\ status = "running"
  BY <1>0 DEF IOInv, InProgress
<1>2. /\ layout \in Layouts /\ buf_p \in Mapped /\ buf_p \in Nat /\ count \in Nat
      /\ buf_p + count <= GuestEnd
      /\ total \in Nat /\ mark = buf_p + total /\ Len(moved) = total
      /\ GuestEnd \in Nat /\ Size \in Nat /\ GuestBase \in Nat
      /\ IF count = 0 THEN total = 0 ELSE total < count
  BY <1>0, <1>1, GuestIOConstants DEF Sound, Reading, Mapped, GuestEnd
<1>3. /\ mark \in Mapped /\ h \in Nat /\ n \in Nat
      /\ n <= count - total /\ n <= Size - Off(mark) /\ n \in {count - total, Size - Off(mark)}
      /\ count > 0 => (same_region(h, bend) <=> n = count - total)
  BY <1>0, <1>1, ReadFacts
<1>4. Off(mark) \in 0 .. Size - 1
  BY <1>3, Place
<1>5. CASE Fails(LAMBDA e : e)
  <2>1. busy' = FALSE /\ rax' = errno' /\ UNCHANGED <<moved, total>>
    BY <1>5 DEF Fails, Finish, Return
  <2> QED
    BY <1>0, <2>1, MovesNothing
<1>6. ASSUME NEW k \in 0 .. n, Moves(h, k),
             IF k < n
             THEN Finish(total + k) /\ UNCHANGED <<mark, total>>
             ELSE /\ mark' = mark + k /\ total' = total + k
                  /\ IF ~same_region(h, bend) THEN GoOn
                     ELSE IF total + k = count THEN Finish(total + k)
                     ELSE Stop("aborted") /\ busy' = FALSE
      PROVE  IOInv'
  <2> HIDE DEF n, h
  <2>1. k \in Nat /\ k <= n /\ moved' = moved \o HostRange(h, k) /\ total' \in Nat
    BY <1>2, <1>3, <1>6 DEF Moves
  <2>2. \A i \in 1 .. k : get_host_p((buf_p + Len(moved)) + (i - 1)) = h + (i - 1)
    <3>1. k <= Size - Off(mark)
      BY <1>2, <1>3, <1>4, <2>1
    <3> QED
      BY <1>2, <1>3, <2>1, <3>1, GuestRun DEF h
  <2>3. Len(moved) + k <= count
    BY <1>2, <1>3, <2>1
  <2>4. Sound' /\ TransfersBuffer' /\ Len(moved') = total + k
    BY <1>0, <1>2, <1>3, <2>1, <2>2, <2>3, MovesOn
  <2>5. CASE k < n
    BY <1>6, <2>4, <2>5 DEF IOInv, InProgress, ReportsWhatMoved, Finish, Return
  <2>6. CASE ~(k < n) /\ same_region(h, bend)
    BY <1>6, <2>4, <2>6 DEF IOInv, InProgress, ReportsWhatMoved, Finish, Return, Stop
  <2>7. CASE ~(k < n) /\ ~same_region(h, bend)
    <3>1. k = n /\ mark' = mark + k /\ total' = total + k /\ busy' = busy /\ rax' = rax /\ status' = status
      BY <1>3, <1>6, <2>1, <2>7 DEF GoOn
    <3>2. CASE count = 0
      <4>1. k = 0 /\ total' = 0 /\ mark' = mark
        BY <1>2, <1>3, <2>1, <3>1, <3>2 DEF Mapped
      <4>2. Reading'
        BY <1>0, <1>1, <1>2, <2>4, <3>2, <4>1, SameBuffer DEF Reading
      <4> QED
        BY <1>0, <1>1, <2>4, <3>1, <4>2, SameBuffer DEF IOInv, InProgress, ReportsWhatMoved
    <3>3. CASE count # 0
      <4>1. k = Size - Off(mark) /\ total + k < count
        BY <1>2, <1>3, <1>4, <2>1, <2>7, <3>1, <3>3
      <4>2. mark + (Size - Off(mark)) \in Mapped
        BY <1>2, <1>3, <1>4, <4>1 DEF Mapped
      <4>3. Off(mark') = 0
        BY <1>3, <3>1, <4>1, <4>2, NextRegion
      <4>4. mark' = buf_p + total' /\ total' < count /\ total' # 0
        <5>1. buf_p \in Int /\ total \in Nat /\ Size \in Nat /\ Off(mark) \in Int /\ Off(mark) < Size
          BY <1>2, <1>3, <1>4
        <5>2. mark = buf_p + total
          BY <1>2, <1>3
        <5>3. k \in Nat /\ k > 0
          BY <4>1, <5>1
        <5> QED
          BY <3>1, <4>1, <5>1, <5>2, <5>3
      <4>5. Reading'
        <5>1. buf_p' = buf_p /\ count' = count /\ ~InOneRegion'
          BY <1>0, SameBuffer
        <5>2. Off(mark)' = 0
          BY <4>3 DEF Off
        <5> QED
          BY <2>4, <3>1, <3>3, <4>4, <5>1, <5>2 DEF Reading
      <4> QED
        BY <1>0, <1>1, <2>4, <3>1, <4>5, SameBuffer DEF IOInv, InProgress, ReportsWhatMoved
    <3> QED
      BY <3>2, <3>3
  <2> QED
    BY <2>5, <2>6, <2>7
<1> QED
  BY <1>5, <1>6 DEF ReadPart

\* A read that fails an assertion.
LEMMA ReadAbortsStep ==
    ASSUME IOInv, busy, ReadAborts
    PROVE  IOInv'
<1>1. Elsewhere /\ UNCHANGED <<moved, total>> /\ busy' = FALSE /\ status' = "aborted"
  BY DEF ReadAborts, Halt, Stop
<1> QED
  BY <1>1, MovesNothing

\* A part of a write.
LEMMA WriteStep ==
    ASSUME IOInv, busy, elkvm_do_write
    PROVE  IOInv'
<1>0. op = "write" /\ Elsewhere
  BY DEF elkvm_do_write, WriteNowhere, Halt
<1>1. Sound /\ Writing /\ status = "running"
  BY <1>0 DEF IOInv, InProgress
<1>2. /\ layout \in Layouts /\ buf_p \in Mapped /\ buf_p \in Nat /\ count \in Nat
      /\ buf_p + count <= GuestEnd /\ moved \in Seq(Nat)
      /\ total \in Nat /\ mark = get_host_p(buf_p) + total /\ Len(moved) = total
      /\ GuestEnd \in Nat /\ Size \in Nat \ {0} /\ GuestBase \in Nat /\ Regions \in Nat
      /\ count > 0 /\ InHostOrder => total < count
  BY <1>0, <1>1, GuestIOConstants DEF Sound, Writing, Mapped, GuestEnd
<1>3. get_host_p(buf_p) \in Nat /\ mark \in Nat
  BY <1>2, Translation
<1>4. CASE WriteNowhere
  <2>1. Elsewhere /\ UNCHANGED <<moved, total>> /\ busy' = FALSE /\ status' = "crashed"
    BY <1>4 DEF WriteNowhere, Halt, Stop
  <2> QED
    BY <2>1, MovesNothing
<1>5. ASSUME NEW bytes \in Int, NEW last, WritePart(bytes, last),
             count > 0 /\ InHostOrder => bytes <= count - total /\ (~last => bytes < count - total)
      PROVE  IOInv'
  <2>1. CASE Fails(LAMBDA e : -e)
    <3>1. PICK e \in HostErrnos : rax' = -e /\ busy' = FALSE /\ UNCHANGED <<moved, total>>
      BY <2>1 DEF Fails, Finish, Return
    <3>2. rax' \in Int /\ rax' < 0
      BY <3>1, SyscallConstants
    <3> QED
      BY <1>0, <3>1, <3>2, MovesNothing
  <2>2. ASSUME NEW k \in 0 .. bytes,
               Moves(mark, k), mark' = mark + k, total' = total + k,
               IF last THEN Finish(total + k) ELSE GoOn
        PROVE  IOInv'
    <3>1. k \in Nat /\ k <= bytes /\ total' \in Nat /\ moved' = moved \o HostRange(mark, k)
      BY <1>2, <2>2 DEF Moves
    <3>2. ASSUME count > 0, InHostOrder
          PROVE  /\ Len(moved) + k <= count
                 /\ \A i \in 1 .. k : get_host_p((buf_p + Len(moved)) + (i - 1)) = mark + (i - 1)
      <4>1. total + k <= count
        BY <1>2, <1>5, <3>1, <3>2
      <4>2. ASSUME NEW i \in 1 .. k
            PROVE  get_host_p((buf_p + total) + (i - 1)) = mark + (i - 1)
        <5> DEFINE j == total + (i - 1)
        <5>1. j \in Nat /\ (buf_p + total) + (i - 1) = buf_p + j /\ buf_p + j \in Mapped
          BY <1>2, <3>1, <4>1 DEF Mapped
        <5>2. get_host_p(buf_p + j) = get_host_p(buf_p) + j
          <6> HIDE DEF j
          <6> QED
            BY <1>2, <3>2, <5>1, GuestOrder
        <5> QED
          BY <1>2, <1>3, <3>1, <5>1, <5>2
      <4> QED
        BY <1>2, <4>1, <4>2
    <3>3. Sound' /\ TransfersBuffer' /\ Len(moved') = total + k
      BY <1>0, <1>2, <1>3, <3>1, <3>2, MovesOn
    <3>4. CASE last
      BY <2>2, <3>3, <3>4 DEF IOInv, InProgress, ReportsWhatMoved, Finish, Return
    <3>5. CASE ~last
      <4>1. busy' = busy /\ status' = status
        BY <2>2, <3>5 DEF GoOn
      <4>2. count > 0 /\ InHostOrder => total' < count
        BY <1>2, <1>5, <2>2, <3>1, <3>5
      <4>3. mark' = get_host_p(buf_p) + total' /\ Len(moved') = total'
        BY <1>2, <1>3, <2>2, <3>1, <3>3
      <4>4. Writing'
        BY <1>0, <4>2, <4>3, SameBuffer DEF Writing
      <4> QED
        BY <1>0, <1>1, <3>3, <4>1, <4>4, SameBuffer DEF IOInv, InProgress, ReportsWhatMoved
    <3> QED
      BY <3>4, <3>5
  <2> QED
    BY <1>5, <2>1, <2>2 DEF WritePart
<1>6. CASE find_region(mark) # 0
  <2> DEFINE r == find_region(mark)
  <2>1. r \in 1 .. Regions /\ contains_address(r, mark)
    BY <1>6 DEF find_region
  <2>2. layout[r] \in Nat
    BY <1>2, <2>1, GuestIOConstants
  <2>3. SpaceAfter(mark) \in Nat /\ SpaceAfter(mark) = layout[r] + Size - mark
    BY <1>2, <1>3, <2>1, <2>2 DEF SpaceAfter, contains_address
  <2>4. WriteLast = mark + (count - total) - 1
    BY <1>2, <1>3 DEF WriteLast
  <2> HIDE DEF r
  <2>5. CASE contains_address(r, WriteLast)
    <3>1. WritePart(count - total, TRUE) \/ WriteNowhere
      BY <2>5 DEF elkvm_do_write, r
    <3>2. count - total \in Int /\ count - total <= count - total
      BY <1>2
    <3> QED
      BY <1>4, <1>5, <3>1, <3>2
  <2>6. CASE ~contains_address(r, WriteLast)
    <3>1. WritePart(SpaceAfter(mark), FALSE) \/ WriteNowhere
      BY <2>6 DEF elkvm_do_write, r
    <3>2. ASSUME count > 0, InHostOrder
          PROVE  SpaceAfter(mark) <= count - total /\ SpaceAfter(mark) < count - total
      <4>1. layout[r] <= mark /\ total < count
        BY <1>2, <2>1, <3>2 DEF contains_address
      <4>2. ~(layout[r] <= WriteLast /\ WriteLast < layout[r] + Size)
        BY <2>6 DEF contains_address
      <4>3. count \in Nat /\ total \in Nat /\ mark \in Nat /\ Size \in Nat
        BY <1>2, <1>3
      <4> QED
        BY <2>2, <2>3, <2>4, <4>1, <4>2, <4>3
    <3> DEFINE bytes == SpaceAfter(mark)
    <3>3. bytes \in Int
      BY <2>3
    <3>4. count > 0 /\ InHostOrder => bytes <= count - total /\ (~FALSE => bytes < count - total)
      BY <3>2
    <3> HIDE DEF bytes
    <3>5. WritePart(bytes, FALSE) \/ WriteNowhere
      BY <3>1 DEF bytes
    <3> QED
      BY <1>4, <1>5, <3>3, <3>4, <3>5
  <2> QED
    BY <2>5, <2>6
<1> QED
  BY <1>4, <1>6 DEF elkvm_do_write

\* A vector is moved by one call of the handler, from its beginning.
LEMMA VectorStep ==
    ASSUME IOInv, busy, elkvm_do_iov
    PROVE  IOInv'
<1>0. op \in {"readv", "writev"} /\ Elsewhere
  BY DEF elkvm_do_iov
<1>1. Sound /\ moved = <<>> /\ status = "running"
  BY <1>0 DEF IOInv, InProgress
<1>2. /\ layout \in Layouts /\ buf_p \in Mapped /\ buf_p \in Nat /\ count \in Nat
      /\ buf_p + count <= GuestEnd /\ total \in Nat /\ GuestEnd \in Nat /\ GuestBase \in Nat
  BY <1>0, <1>1, GuestIOConstants DEF Sound, Mapped, GuestEnd
<1> DEFINE h == get_host_p(buf_p)
<1>3. h \in Nat
  BY <1>2, Translation
<1>4. CASE Fails(LAMBDA e : -1)
  <2>1. busy' = FALSE /\ rax' = -1 /\ UNCHANGED <<moved, total>>
    BY <1>4 DEF Fails, Finish, Return
  <2>2. rax' \in Int /\ rax' < 0
    BY <2>1
  <2> QED
    BY <1>0, <2>1, <2>2, MovesNothing
<1>5. ASSUME NEW k \in 0 .. count, moved' = SubSeq(elkvm_get_host_iov, 1, k), Finish(k),
             UNCHANGED <<errno, mark, total>>
      PROVE  IOInv'
  <2>1. k \in Nat /\ k <= count /\ Len(moved) = 0
    BY <1>1, <1>2
  <2>2. moved' = moved \o HostRange(h, k)
    <3>1. HostRange(h, count) \in Seq(Nat) /\ HostRange(h, k) \in Seq(Nat)
      BY <1>2, <1>3, <2>1 DEF HostRange
    <3>2. SubSeq(HostRange(h, count), 1, k) = [i \in 1 .. k |-> HostRange(h, count)[i]]
      BY <1>2, <2>1, <3>1
    <3>3. [i \in 1 .. k |-> HostRange(h, count)[i]] = HostRange(h, k)
      BY <1>2, <2>1 DEF HostRange
    <3>4. <<>> \o HostRange(h, k) = HostRange(h, k)
      BY <3>1, ConcatEmptySeq
    <3> QED
      BY <1>1, <1>5, <3>2, <3>3, <3>4 DEF elkvm_get_host_iov
  <2>3. ASSUME count > 0, InHostOrder
        PROVE  /\ Len(moved) + k <= count
               /\ \A i \in 1 .. k : get_host_p((buf_p + Len(moved)) + (i - 1)) = h + (i - 1)
    <3>1. ASSUME NEW i \in 1 .. k PROVE get_host_p((buf_p + Len(moved)) + (i - 1)) = h + (i - 1)
      <4> DEFINE j == i - 1
      <4>1. j \in Nat /\ (buf_p + Len(moved)) + (i - 1) = buf_p + j /\ buf_p + j \in Mapped
        BY <1>2, <2>1 DEF Mapped
      <4>2. get_host_p(buf_p + j) = h + j
        <5> HIDE DEF j
        <5> QED
          BY <1>2, <2>3, <4>1, GuestOrder
      <4> QED
        BY <4>1, <4>2
    <3> QED
      BY <1>2, <2>1, <3>1
  <2> HIDE DEF h
  <2>4. Sound' /\ TransfersBuffer' /\ Len(moved') = k
    <3>1. Len(moved) + k = k /\ total' \in Nat
      BY <1>2, <1>5, <2>1
    <3> QED
      BY <1>0, <1>3, <2>1, <2>2, <2>3, <3>1, MovesOn
  <2>5. rax' = k /\ busy' = FALSE
    BY <1>5 DEF Finish, Return
  <2> QED
    BY <2>4, <2>5 DEF IOInv, InProgress, ReportsWhatMoved
<1> QED
  BY <1>4, <1>5 DEF elkvm_do_iov

\* A transfer begins.
LEMMA BeginStep ==
    ASSUME IOInv, status = "running", NEW o \in Transfers, NEW l \in Layouts,
           NEW p \in GuestBase .. GuestEnd - 1, NEW n \in BufferSizes, Begin(o, l, p, n)
    PROVE  IOInv'
<1>1. /\ op' = o /\ busy' = TRUE /\ layout' = l /\ buf_p' = p /\ count' = n /\ total' = 0
      /\ moved' = <<>> /\ p + n <= GuestEnd /\ status' = status /\ call'.name = o
      /\ mark' = IF o = "write" THEN l[((p - GuestBase) \div Size) + 1] + ((p - GuestBase) % Size)
                 ELSE p
  BY DEF Begin, Reached
<1>2. n \in Nat /\ p \in Nat /\ p \in Mapped /\ o # "none"
  BY GuestIOConstants DEF Mapped, Transfers, GuestEnd
<1>3. Sound'
  BY <1>1, <1>2 DEF Sound
<1>4. o = "read" => Reading'
  BY <1>1, <1>2 DEF Reading
<1>5. o = "write" => Writing'
  <2> SUFFICES ASSUME o = "write" PROVE Writing'
    OBVIOUS
  <2>1. GuestBase <= p /\ p < GuestEnd
    BY GuestIOConstants DEF GuestEnd
  <2>2. get_host_p(buf_p)' = mark'
    BY <1>1, <2>1 DEF get_host_p
  <2>3. mark' \in Nat
    <3>1. Idx(p) \in 1 .. Regions /\ Off(p) \in 0 .. Size - 1
      BY <1>2, Place
    <3>2. l[Idx(p)] \in Nat
      BY <3>1, GuestIOConstants
    <3> QED
      BY <1>1, <3>1, <3>2, GuestIOConstants DEF Idx, Off
  <2> QED
    BY <1>1, <1>2, <2>2, <2>3 DEF Writing
<1>6. TransfersBuffer'
  BY <1>1, <1>2 DEF TransfersBuffer, GuestBytes
<1> QED
  BY <1>1, <1>2, <1>3, <1>4, <1>5, <1>6 DEF IOInv, InProgress, ReportsWhatMoved

\* Every step of the system keeps the invariant of the transfers.
LEMMA IONextInv ==
    ASSUME IOInv, [IONext]_allvars
    PROVE  IOInv'
<1>1. CASE UNCHANGED iovars /\ call' = call /\ status' = status /\ rax' = rax /\ errno' = errno
  <2>1. Sound' /\ TransfersBuffer'
    BY <1>1 DEF iovars, IOInv, Sound, TransfersBuffer, GuestBytes, get_host_p, InHostOrder
  <2>2. InOneRegion' <=> InOneRegion
    BY <1>1 DEF iovars, InOneRegion, same_region, contains_address, find_region, bend, get_host_p
  <2>3. ReportsWhatMoved'
    BY <1>1, <2>2 DEF iovars, IOInv, ReportsWhatMoved
  <2>4. Reading => Reading'
    BY <1>1, <2>2 DEF iovars, Reading, Off
  <2>5. Writing => Writing'
    BY <1>1 DEF iovars, Writing, get_host_p, InHostOrder
  <2>6. InProgress'
    BY <1>1, <2>4, <2>5 DEF iovars, IOInv, InProgress
  <2> QED
    BY <2>1, <2>3, <2>6 DEF IOInv
<1>2. CASE UNCHANGED allvars
  BY <1>1, <1>2 DEF allvars, vars
<1>3. ASSUME Call PROVE IOInv'
  <2>0. status = "running" /\ ~busy
    BY <1>3 DEF Call
  <2>1. ASSUME call = NoCall, UNCHANGED iovars PROVE IOInv'
    <3>1. op = "none" /\ op' = "none" /\ ~busy'
      BY <2>0, <2>1 DEF IOInv, Sound, NoCall, Transfers, iovars
    <3>2. TransfersBuffer'
      BY <2>1 DEF iovars, IOInv, TransfersBuffer, GuestBytes, get_host_p, InHostOrder
    <3> QED
      BY <3>1, <3>2 DEF IOInv, Sound, InProgress, ReportsWhatMoved
  <2>2. ASSUME NEW n \in GuestCalls, handle_syscall(n), UNCHANGED iovars PROVE IOInv'
    BY <2>1, <2>2 DEF handle_syscall
  <2>3. ASSUME NEW o, NEW p, Refused(o, p) PROVE IOInv'
    BY <2>1, <2>3 DEF Refused
  <2>4. ASSUME Forget PROVE IOInv'
    BY <2>4 DEF Forget, NoTransfer, IOInv, Sound, InProgress, ReportsWhatMoved, TransfersBuffer
  <2>5. ASSUME NEW o \in Transfers, NEW l \in Layouts, NEW p \in GuestBase .. GuestEnd - 1,
               NEW n \in BufferSizes, Begin(o, l, p, n)
        PROVE  IOInv'
    BY <2>0, <2>5, BeginStep
  <2> QED
    BY <1>3, <2>2, <2>3, <2>4, <2>5 DEF Call
<1>4. ASSUME Transfer PROVE IOInv'
  BY <1>4, ReadWholeStep, ReadAbortsStep, ReadPartStep, WriteStep, VectorStep
     DEF Transfer, elkvm_do_read
<1> QED
  BY <1>2, <1>3, <1>4 DEF IONext

\* The invariant of the transfers is one.
LEMMA IOInductive == IOSpec => []IOInv
<1>1. IOInit => IOInv
  BY DEF IOInit, NoTransfer, IOInv, Sound, InProgress, ReportsWhatMoved, TransfersBuffer
<1> QED
  BY <1>1, IONextInv, PTL DEF IOSpec

\* For buffers of every size at every place in any number of regions of any size,
\* a transfer moves the bytes of the guest's buffer in their order, none skipped,
\* repeated or taken from elsewhere, through every pattern of partial results:
\* a read wherever the regions lie in the host's memory, the other three when
\* they lie there in the guest's order.
THEOREM TransfersTheorem == IOSpec => []TransfersBuffer
<1>1. IOInv => TransfersBuffer
  BY DEF IOInv
<1> QED
  BY <1>1, IOInductive, PTL

\* The number of bytes a transfer reports is the number it moved.
THEOREM ReportsTheorem == IOSpec => []ReportsWhatMoved
<1>1. IOInv => ReportsWhatMoved
  BY DEF IOInv
<1> QED
  BY <1>1, IOInductive, PTL

--------------------------------------------------------------------------------
(***************************************************************************)
(* Well-formed calls.                                                      *)
(***************************************************************************)
\* The functions that call their handler without a check.
Unchecked ==
    {"chdir", "fchdir", "epoll_create", "epoll_wait", "epoll_ctl", "socket", "accept", "bind",
     "listen", "getsockname", "setsockopt"}

\* How a parameter may be treated, "zero" apart.
Modes == {"int", "opt", "raw", "assert", "host", "both", "efault", "cmd"}

\* Each function of the table but the unchecked checks for its handler.
LEMMA TableChecked ==
    ASSUME NEW c \in DOMAIN Forwarding \ Unchecked
    PROVE  Forwarding[c].check # "none"
BY DEF Unchecked, Forwarding, Forward, elkvm_do_open, elkvm_do_openat, elkvm_do_close,
    elkvm_do_stat, elkvm_do_fstat, elkvm_do_lstat, elkvm_do_lseek, elkvm_do_sigprocmask,
    elkvm_do_ioctl, elkvm_do_access, elkvm_do_pipe, elkvm_do_dup, elkvm_do_nanosleep,
    elkvm_do_getpid, elkvm_do_uname, elkvm_do_fcntl, elkvm_do_truncate,
    elkvm_do_ftruncate, elkvm_do_getdents, elkvm_do_getcwd, elkvm_do_mkdir,
    elkvm_do_unlink, elkvm_do_readlink, elkvm_do_gettimeofday, elkvm_do_times,
    elkvm_do_getuid, elkvm_do_getgid, elkvm_do_geteuid, elkvm_do_getegid,
    elkvm_do_gettid, elkvm_do_time, elkvm_do_futex, elkvm_do_statfs, elkvm_do_fstatfs,
    elkvm_do_set_robust_list, elkvm_do_set_tid_address, elkvm_do_clock_gettime,
    elkvm_do_clock_getres, elkvm_do_tgkill, elkvm_do_getrusage

\* It has at most as many parameters as there are registers, of which getrusage
\* alone wants one to be 0.
LEMMA TableParameters ==
    ASSUME NEW c \in DOMAIN Forwarding, c # "getrusage"
    PROVE  Forwarding[c].args \in Seq(Modes) /\ Len(Forwarding[c].args) <= 6
<1> DEFINE Fits(f) == f.args \in Seq(Modes) /\ Len(f.args) <= 6
<1>1. /\ Fits(elkvm_do_open) /\ Fits(elkvm_do_openat) /\ Fits(elkvm_do_close)
      /\ Fits(elkvm_do_stat) /\ Fits(elkvm_do_fstat) /\ Fits(elkvm_do_lstat)
      /\ Fits(elkvm_do_lseek) /\ Fits(elkvm_do_sigprocmask) /\ Fits(elkvm_do_ioctl)
      /\ Fits(elkvm_do_access) /\ Fits(elkvm_do_pipe) /\ Fits(elkvm_do_dup)
      /\ Fits(elkvm_do_nanosleep)
  BY DEF Modes, Forward, elkvm_do_open, elkvm_do_openat, elkvm_do_close, elkvm_do_stat,
    elkvm_do_fstat, elkvm_do_lstat, elkvm_do_lseek, elkvm_do_sigprocmask,
    elkvm_do_ioctl, elkvm_do_access, elkvm_do_pipe, elkvm_do_dup, elkvm_do_nanosleep
<1>2. /\ Fits(elkvm_do_getpid) /\ Fits(elkvm_do_uname) /\ Fits(elkvm_do_fcntl)
      /\ Fits(elkvm_do_truncate) /\ Fits(elkvm_do_ftruncate) /\ Fits(elkvm_do_getdents)
      /\ Fits(elkvm_do_getcwd) /\ Fits(elkvm_do_chdir) /\ Fits(elkvm_do_fchdir)
      /\ Fits(elkvm_do_mkdir) /\ Fits(elkvm_do_unlink) /\ Fits(elkvm_do_readlink)
      /\ Fits(elkvm_do_gettimeofday)
  BY DEF Modes, Forward, elkvm_do_getpid, elkvm_do_uname, elkvm_do_fcntl,
    elkvm_do_truncate, elkvm_do_ftruncate, elkvm_do_getdents, elkvm_do_getcwd,
    elkvm_do_chdir, elkvm_do_fchdir, elkvm_do_mkdir, elkvm_do_unlink, elkvm_do_readlink,
    elkvm_do_gettimeofday
<1>3. /\ Fits(elkvm_do_times) /\ Fits(elkvm_do_getuid) /\ Fits(elkvm_do_getgid)
      /\ Fits(elkvm_do_geteuid) /\ Fits(elkvm_do_getegid) /\ Fits(elkvm_do_gettid)
      /\ Fits(elkvm_do_time) /\ Fits(elkvm_do_futex) /\ Fits(elkvm_do_epoll_create)
      /\ Fits(elkvm_do_epoll_wait) /\ Fits(elkvm_do_epoll_ctl) /\ Fits(elkvm_do_socket)
      /\ Fits(elkvm_do_accept)
  BY DEF Modes, Forward, elkvm_do_times, elkvm_do_getuid, elkvm_do_getgid,
    elkvm_do_geteuid, elkvm_do_getegid, elkvm_do_gettid, elkvm_do_time, elkvm_do_futex,
    elkvm_do_epoll_create, elkvm_do_epoll_wait, elkvm_do_epoll_ctl, elkvm_do_socket,
    elkvm_do_accept
<1>4. /\ Fits(elkvm_do_bind) /\ Fits(elkvm_do_listen) /\ Fits(elkvm_do_getsockname)
      /\ Fits(elkvm_do_setsockopt) /\ Fits(elkvm_do_statfs) /\ Fits(elkvm_do_fstatfs)
      /\ Fits(elkvm_do_set_robust_list) /\ Fits(elkvm_do_set_tid_address) /\ Fits(elkvm_do_clock_gettime)
      /\ Fits(elkvm_do_clock_getres) /\ Fits(elkvm_do_tgkill)
  BY DEF Modes, Forward, elkvm_do_bind, elkvm_do_listen, elkvm_do_getsockname,
    elkvm_do_setsockopt, elkvm_do_statfs, elkvm_do_fstatfs, elkvm_do_set_robust_list,
    elkvm_do_set_tid_address, elkvm_do_clock_gettime, elkvm_do_clock_getres,
    elkvm_do_tgkill
<1> HIDE DEF Fits
<1>5. Fits(Forwarding[c])
  BY <1>1, <1>2, <1>3, <1>4 DEF Forwarding
<1> QED
  BY <1>5 DEF Fits

\* The unchecked ones have a default handler.
LEMMA UncheckedHaveDefault == Unchecked \cup {"exit_group"} \subseteq default_handlers
BY DEF Unchecked, default_handlers, pass_process, pass_socket, pass_system

\* The handler gets the parameters the guest passed.
LEMMA Parameters ==
    ASSUME NEW n \in 0 .. 6, NEW a, DOMAIN a = 1 .. n
    PROVE  \A i \in 1 .. n : unpack_syscall(GuestRegs(a), n)[i] = a[i]
<1>1. \A i \in 1 .. 6 : get_parameter(i) = GuestRegister[i]
  BY DEF get_parameter, GuestRegister
<1>2. \A i, j \in 1 .. 6 : GuestRegister[i] = GuestRegister[j] => i = j
  BY DEF GuestRegister
<1>3. \A i \in 1 .. 6 : GuestRegister[i] \in {"rdi", "rsi", "rdx", "rcx", "r10", "r8", "r9"}
  BY DEF GuestRegister
<1> SUFFICES ASSUME NEW i \in 1 .. n PROVE unpack_syscall(GuestRegs(a), n)[i] = a[i]
  OBVIOUS
<1>4. i \in 1 .. 6 /\ DOMAIN a \subseteq 1 .. 6
  OBVIOUS
<1>5. (CHOOSE j \in DOMAIN a : GuestRegister[j] = GuestRegister[i]) = i
  BY <1>2, <1>4
<1>6. GuestRegs(a)[GuestRegister[i]] = a[i]
  BY <1>3, <1>4, <1>5 DEF GuestRegs
<1> QED
  BY <1>1, <1>4, <1>6 DEF unpack_syscall

\* A call that takes the monitor down although it has a handler was made with a
\* pointer to no memory, or is getrusage.
LEMMA AssertedForPointer ==
    ASSUME NEW c \in DOMAIN Forwarding, c # "getrusage",
           NEW a \in GuestArgs(Forwarding[c].args),
           \E i \in DOMAIN unpack_syscall(GuestRegs(a), Len(Forwarding[c].args)) :
               Asserts(Forwarding[c].args[i], unpack_syscall(GuestRegs(a), Len(Forwarding[c].args))[i])
    PROVE  \E i \in DOMAIN a : a[i] \in {"null", "bad"}
<1> DEFINE modes == Forwarding[c].args
           n == Len(modes)
           p == unpack_syscall(GuestRegs(a), n)
<1>0. modes \in Seq(Modes) /\ n <= 6
  BY TableParameters
<1>1. modes \in Seq(Modes) /\ n \in 0 .. 6 /\ DOMAIN modes = 1 .. n
  <2>1. \A m \in Seq(Modes) : Len(m) \in Nat /\ DOMAIN m = 1 .. Len(m)
    OBVIOUS
  <2>2. n \in Nat /\ DOMAIN modes = 1 .. n
    BY <1>0, <2>1
  <2> HIDE DEF modes, n
  <2> QED
    BY <1>0, <2>2
<1>2. DOMAIN a = 1 .. n /\ \A i \in 1 .. n : a[i] \in Passed(modes[i])
  BY <1>1 DEF GuestArgs
<1>3. DOMAIN p = 1 .. n
  BY DEF unpack_syscall
<1>4. PICK i \in 1 .. n : Asserts(modes[i], p[i])
  BY <1>3
<1> HIDE DEF modes, n, p
<1>5. p[i] = a[i]
  BY <1>1, <1>2, Parameters DEF p
<1>6. modes[i] \in Modes
  BY <1>1
<1>7. a[i] \in {"null", "bad"}
  BY <1>2, <1>4, <1>5, <1>6 DEF Asserts, Passed, Modes
<1> QED
  BY <1>2, <1>7

\* The exceptions of WellFormedCallsReturn that are about the call itself.
Excused ==
    \/ call.name \in {"hole", "invalid", "getrusage", "getrlimit", "sigaction"}
    \/ call.name \in default_handlers \ Handlers
    \/ \E i \in DOMAIN call.guest : call.guest[i] \in {"null", "bad"}

\* One pointer among the parameters of a call.
LEMMA BadPointer ==
    ASSUME NEW c, NEW p \in {"null", "bad"}, NoHostCall(c, <<p>>)
    PROVE  Excused'
<1>1. call'.guest = <<p>>
  BY DEF NoHostCall, Reached
<1>2. 1 \in DOMAIN call'.guest /\ call'.guest[1] = p
  BY <1>1
<1> QED
  BY <1>2 DEF Excused

\* A system call that ends the process by an assertion or a null pointer.
LEMMA CallExcused ==
    ASSUME NEW n, handle_syscall(n)
    PROVE  status' \in {"aborted", "crashed"} => Excused'
<1> DEFINE Goal == status' \in {"aborted", "crashed"} => Excused'
<1>0. status = "running"
  BY DEF handle_syscall
<1>1. ASSUME NEW v, Return(v) PROVE Goal
  BY <1>0, <1>1 DEF Return
<1>2. ASSUME NEW c \in DOMAIN Forwarding, NEW a \in GuestArgs(Forwarding[c].args), Forwarded(c, a)
      PROVE  Goal
  <2>1. ASSUME c \notin Handlers, Forwarding[c].check = "none", NoHostCall(c, a) PROVE Goal
    <3>1. c \in default_handlers \ Handlers
      BY <2>1, TableChecked, UncheckedHaveDefault
    <3> QED
      BY <2>1, <3>1 DEF NoHostCall, Reached, Excused
  <2>2. ASSUME \E i \in DOMAIN unpack_syscall(GuestRegs(a), Len(Forwarding[c].args)) :
                  Asserts(Forwarding[c].args[i],
                          unpack_syscall(GuestRegs(a), Len(Forwarding[c].args))[i]),
               NoHostCall(c, a)
        PROVE  Goal
    <3>1. call'.name = c /\ call'.guest = a
      BY <2>2 DEF NoHostCall, Reached
    <3>2. c = "getrusage" \/ \E i \in DOMAIN a : a[i] \in {"null", "bad"}
      BY <2>2, AssertedForPointer
    <3> QED
      BY <3>1, <3>2 DEF Excused
  <2>3. ASSUME Stop("exit1") PROVE Goal
    BY <2>3 DEF Stop
  <2> HIDE DEF Goal
  <2> QED
    BY <1>1, <1>2, <2>1, <2>2, <2>3 DEF Forwarded
<1>3. ASSUME NEW c \in {"hole", "invalid", "getrlimit", "sigaction"}, NEW a, NoHostCall(c, a) PROVE Goal
  BY <1>3 DEF NoHostCall, Reached, Excused
<1>4. ASSUME NEW res, NEW p \in Pointers, NEW v, elkvm_do_setrlimit(res, p, v) PROVE Goal
  <2>1. CASE p = "null" /\ NoHostCall("setrlimit", <<p>>)
    BY <2>1, BadPointer
  <2> HIDE DEF Goal
  <2> QED
    BY <1>1, <1>4, <2>1 DEF elkvm_do_setrlimit
<1>5. ASSUME NEW code, NEW p \in Pointers, elkvm_do_arch_prctl(code, p) PROVE Goal
  <2>1. CASE p # "good"
    <3>1. p \in {"null", "bad"} /\ NoHostCall("arch_prctl", <<p>>)
      BY <1>5, <2>1 DEF Pointers, elkvm_do_arch_prctl
    <3> QED
      BY <3>1, BadPointer
  <2> HIDE DEF Goal
  <2> QED
    BY <1>1, <1>5, <2>1 DEF elkvm_do_arch_prctl
<1>6. ASSUME elkvm_do_exit_group PROVE Goal
  <2>1. CASE "exit_group" \in Handlers
    BY <1>6, <2>1 DEF elkvm_do_exit_group, Stop
  <2>2. CASE "exit_group" \notin Handlers
    <3>1. "exit_group" \in default_handlers \ Handlers
      BY <2>2, UncheckedHaveDefault
    <3> QED
      BY <1>6, <3>1 DEF elkvm_do_exit_group, NoHostCall, Reached, Excused
  <2> QED
    BY <2>1, <2>2
<1>7. ASSUME Stop("exit1") PROVE Goal
  BY <1>7 DEF Stop
<1> HIDE DEF Goal
<1>8. ASSUME KeptInVm(n) PROVE Goal
  <2>1. ASSUME NEW res, NEW p, elkvm_do_getrlimit(res, p) PROVE Goal
    BY <1>3, <2>1 DEF elkvm_do_getrlimit
  <2>2. ASSUME NEW s, NEW p, NEW act, elkvm_do_sigaction(s, p, act) PROVE Goal
    BY <1>3, <2>2 DEF elkvm_do_sigaction
  <2> QED
    BY <1>4, <1>5, <1>6, <1>8, <2>1, <2>2 DEF KeptInVm
<1>9. ASSUME ForwardedCall(n) PROVE Goal
  BY <1>2, <1>9 DEF ForwardedCall
<1>10. ASSUME Unimplemented(n) \/ NoFunction(n) \/ InvalidNumber(n) PROVE Goal
  BY <1>1, <1>3, <1>7, <1>10 DEF Unimplemented, NoFunction, InvalidNumber
<1>11. Goal
  BY <1>8, <1>9, <1>10 DEF handle_syscall
<1> QED
  BY <1>11 DEF Goal

\* A transfer of some bytes, in the host's order when it is a write, does not
\* take the monitor down: no assertion of read fails, and write finds a region.
LEMMA TransferReturns ==
    ASSUME IOInv, Transfer, status' \in {"aborted", "crashed"}
    PROVE  op # "none" /\ (count = 0 \/ (op = "write" /\ ~InHostOrder))
<1>1. busy /\ op # "none" /\ status = "running" /\ Sound
  BY DEF IOInv, Transfer, InProgress
<1>2. count \in Nat
  BY <1>1 DEF Sound
<1>3. ASSUME ReadAborts PROVE count = 0
  <2> SUFFICES ASSUME count > 0 PROVE FALSE
    BY <1>2
  <2>1. op = "read" /\ ~PartChecked
    BY <1>3 DEF ReadAborts
  <2>2. Reading
    BY <1>1, <2>1 DEF IOInv, InProgress
  <2>3. bend # NULL /\ mark \in Mapped
    BY <1>1, <2>1, <2>2, ReadFacts
  <2>4. mark # buf_p /\ get_host_p(mark) # layout[find_region(get_host_p(mark))]
    BY <2>1, <2>3 DEF PartChecked
  <2>5. layout \in Layouts /\ buf_p \in Nat /\ total \in Nat /\ mark = buf_p + total
    BY <1>1, <2>2, GuestIOConstants DEF Sound, Reading, Mapped
  <2>6. Off(mark) = 0
    BY <2>2, <2>4, <2>5 DEF Reading
  <2>7. find_region(get_host_p(mark)) = Idx(mark) /\ get_host_p(mark) = layout[Idx(mark)] + Off(mark)
        /\ layout[Idx(mark)] \in Nat
    BY <2>3, <2>5, HostPlace, Translation
  <2> QED
    BY <2>4, <2>6, <2>7
<1>4. ASSUME ReadPart PROVE count = 0
  <2> SUFFICES ASSUME count > 0 PROVE FALSE
    BY <1>2
  <2> DEFINE h == get_host_p(mark)
  <2>1. op = "read"
    BY <1>4 DEF ReadPart
  <2>2. Reading
    BY <1>1, <2>1 DEF IOInv, InProgress
  <2>3. PartSize(h) \in Nat /\ (same_region(h, bend) <=> PartSize(h) = count - total)
    BY <1>1, <2>1, <2>2, ReadFacts
  <2>4. total \in Nat
    BY <1>1 DEF Sound
  <2>5. PICK k \in 0 .. PartSize(h) :
            ~(k < PartSize(h)) /\ same_region(h, bend) /\ total + k # count
    BY <1>1, <1>4 DEF ReadPart, Fails, Finish, GoOn, Return
  <2> HIDE DEF h
  <2> QED
    BY <1>2, <2>3, <2>4, <2>5
<1>5. ASSUME elkvm_do_write PROVE count = 0 \/ (op = "write" /\ ~InHostOrder)
  <2>0. op = "write"
    BY <1>5 DEF elkvm_do_write, WriteNowhere
  <2> SUFFICES ASSUME count > 0, InHostOrder PROVE FALSE
    BY <1>2, <2>0
  <2>1. op = "write" /\ find_region(mark) = 0
    BY <1>1, <1>5, <2>0 DEF elkvm_do_write, WriteNowhere, WritePart, Fails, Finish, GoOn, Return
  <2>2. Writing
    BY <1>1, <2>1 DEF IOInv, InProgress
  <2>3. /\ layout \in Layouts /\ buf_p \in Mapped /\ buf_p \in Nat /\ total \in Nat /\ total < count
        /\ buf_p + count <= GuestEnd /\ mark = get_host_p(buf_p) + total
        /\ GuestBase \in Nat /\ GuestEnd \in Nat
    BY <1>1, <2>2, GuestIOConstants DEF Sound, Writing, Mapped, GuestEnd
  <2>4. buf_p + total \in Mapped
    BY <1>2, <2>3 DEF Mapped
  <2>5. mark = get_host_p(buf_p + total)
    BY <2>3, <2>4, GuestOrder
  <2>6. find_region(mark) \in 1 .. Regions
    BY <2>3, <2>4, <2>5, HostPlace, Place
  <2> QED
    BY <2>1, <2>6
<1>6. ~ReadWhole /\ ~elkvm_do_iov
  BY <1>1 DEF ReadWhole, elkvm_do_iov, Fails, Finish, Return
<1> QED
  BY <1>1, <1>3, <1>4, <1>5, <1>6 DEF Transfer, elkvm_do_read

\* Whatever calls the guest makes before, a call the library implements, made
\* with memory that is mapped, does not take the monitor down.
THEOREM CallsReturnTheorem == IOSpec => []WellFormedCallsReturn
<1>1. IOInit => WellFormedCallsReturn
  BY DEF IOInit, Init, WellFormedCallsReturn
<1>2. IOInv /\ WellFormedCallsReturn /\ [IONext]_allvars => WellFormedCallsReturn'
  <2> SUFFICES ASSUME IOInv, WellFormedCallsReturn, [IONext]_allvars,
                      status' \in {"aborted", "crashed"}
               PROVE  WellFormedCallsReturn'
    BY DEF WellFormedCallsReturn
  <2>1. ASSUME Excused' PROVE WellFormedCallsReturn'
    BY <2>1 DEF Excused, WellFormedCallsReturn
  <2>2. CASE UNCHANGED allvars
    BY <2>2 DEF allvars, vars, iovars, WellFormedCallsReturn, InHostOrder
  <2>3. ASSUME Call PROVE WellFormedCallsReturn'
    <3>0. status = "running"
      BY <2>3 DEF Call
    <3>1. ASSUME NEW n \in GuestCalls, handle_syscall(n) PROVE WellFormedCallsReturn'
      BY <2>1, <3>1, CallExcused
    <3>2. ASSUME NEW o, NEW p \in {"null", "bad"}, Refused(o, p) PROVE WellFormedCallsReturn'
      <4>1. NoHostCall(o, <<p>>)
        BY <3>2 DEF Refused
      <4> QED
        BY <2>1, <4>1, BadPointer
    <3>3. ASSUME GuestContinues PROVE FALSE
      BY <3>0, <3>3 DEF GuestContinues
    <3>4. ASSUME NEW o, NEW l, NEW p, NEW n, Begin(o, l, p, n) PROVE FALSE
      BY <3>0, <3>4 DEF Begin
    <3> QED
      BY <2>3, <3>1, <3>2, <3>3, <3>4 DEF Call
  <2>4. ASSUME Transfer PROVE WellFormedCallsReturn'
    <3>1. op # "none" /\ (count = 0 \/ (op = "write" /\ ~InHostOrder))
      BY <2>4, TransferReturns
    <3>2. Elsewhere
      BY <2>4 DEF Transfer, elkvm_do_read, elkvm_do_write, elkvm_do_iov, ReadWhole, ReadAborts,
                  ReadPart, WriteNowhere, Halt
    <3>3. op' = op /\ count' = count /\ (InHostOrder' <=> InHostOrder)
      BY <3>2, SameBuffer
    <3> QED
      BY <3>1, <3>3 DEF WellFormedCallsReturn
  <2> QED
    BY <2>2, <2>3, <2>4 DEF IONext
<1> QED
  BY <1>1, <1>2, IOInductive, PTL DEF IOSpec
===============================================================================
