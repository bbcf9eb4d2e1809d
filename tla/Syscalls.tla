-------------------------------- MODULE Syscalls --------------------------------
(* VM::handle_syscall with everything it calls for the system calls that do    *)
(* not transfer data themselves: read, write, readv and writev are added by    *)
(* GuestIO; mmap, munmap, brk, mremap and mprotect are in Heap.                *)
(* A pointer of the guest is "null", "bad" (no page is mapped there) or "good";*)
(* the host's address it is translated to is "null" for the first two.         *)
EXTENDS SyscallTable

CONSTANTS
    GuestCalls,     \* the system call numbers the guest uses
    Handlers,       \* the members of elkvm_handlers the monitor sets
    HostErrnos,     \* errors of the host's calls
    Counts,         \* results of a host call that counts something
    Signals,        \* signal numbers the guest registers
    Actions,        \* handlers the guest registers for them
    Resources,      \* resources whose limit the guest asks for
    RLIMIT_NLIMITS, \* the number of resources there are
    Limits          \* values of a limit

ASSUME SyscallConstants ==
    /\ GuestCalls \subseteq Nat /\ HostErrnos \subseteq Nat \ {0} /\ Counts \subseteq Nat
    /\ Signals \subseteq Nat /\ Resources \subseteq Nat /\ RLIMIT_NLIMITS \in Nat

VARIABLES
    status,     \* "running", or how the process of the monitor ended
    errno,      \* of the process of the monitor
    rax,        \* what the guest finds in rax after the call
    call,       \* history: the last call that reached a handler
    limits,     \* Elkvm::rlimit, the copy of the limits the guest is shown
    hostLimits, \* the limits of the process of the monitor
    sigtab,     \* sigs.signals, and what was written behind it, by signal number
    installed   \* signals whose host handler is elkvm_signal_handler

procvars == <<limits, hostLimits>>
sigvars == <<sigtab, installed>>
vars == <<status, errno, rax, call, limits, hostLimits, sigtab, installed>>

EINVAL == 22
EFAULT == 14
ENOSYS == 38
SIGRTMIN == 34
NSIG == 65

NoAnswer == [ok |-> TRUE, r |-> 0, e |-> 0]
NoCall == [name |-> "none", guest |-> <<>>, host |-> <<>>, answer |-> NoAnswer]

---------------------------------------------------------------------------
(* Parameters.                                                                 *)

\* Where Linux's calling convention has the guest put its parameters.
GuestRegister == <<"rdi", "rsi", "rdx", "r10", "r8", "r9">>

\* X86_64_ABI::get_parameter, for pos > 0: the register of a parameter.
get_parameter(pos) == <<"rdi", "rsi", "rdx", "r10", "r8", "r9">>[pos]

\* The registers of a guest that makes a call with the given parameters.
GuestRegs(args) == [r \in {"rdi", "rsi", "rdx", "rcx", "r10", "r8", "r9"} |->
    IF \E i \in DOMAIN args : GuestRegister[i] = r
    THEN args[CHOOSE i \in DOMAIN args : GuestRegister[i] = r] ELSE "int"]

\* VM::unpack_syscall: the first n parameters.
unpack_syscall(regs, n) == [i \in 1 .. n |-> regs[get_parameter(i)]]

\* What the guest may pass for a parameter that is treated as mode says.
Passed(mode) == IF mode = "int" THEN {"int"}
                ELSE IF mode = "cmd" THEN {"null", "bad", "good", "int"}
                ELSE {"null", "bad", "good"}

GuestArgs(modes) == {a \in [DOMAIN modes -> {"null", "bad", "good", "int"}] :
                        \A i \in DOMAIN modes : a[i] \in Passed(modes[i])}

\* An assertion on the parameter fails.
Asserts(mode, a) == \/ mode \in {"assert", "both", "efault"} /\ a = "null"
                    \/ mode \in {"host", "both"} /\ a # "good"
                    \/ mode = "zero" /\ a # "null"

\* What the handler gets: a pointer that is not mapped translates to null.
Translated(a) == IF a = "bad" THEN "null" ELSE a

---------------------------------------------------------------------------
(* The host.  External: an answer is a result and the errno it leaves.         *)

Failures == [ok : {FALSE}, r : {-1}, e : HostErrnos]

HostAnswers(kind) ==
    CASE kind = "zero"    -> Failures \cup [ok : {TRUE}, r : {0}, e : {errno}]
      [] kind = "count"   -> Failures \cup [ok : {TRUE}, r : Counts, e : {errno}]
      [] kind = "id"      -> [ok : {TRUE}, r : {1}, e : {errno}]
      [] kind = "one"     -> [ok : {TRUE}, r : {1}, e : {errno}]
      [] kind = "pointer" -> [ok : {FALSE}, r : {0}, e : HostErrnos]
                               \cup [ok : {TRUE}, r : {1}, e : {errno}]

\* How a forwarding function turns the handler's answer into the guest's.
Result(ret, h) ==
    CASE ret = "raw"      -> h.r
      [] ret = "negative" -> IF h.r < 0 THEN -h.e ELSE h.r
      [] ret = "nonzero"  -> IF h.r # 0 THEN -h.e ELSE 0
      [] ret = "always"   -> -h.e
      [] ret = "pointer"  -> IF h.r = 0 THEN h.e ELSE 0

\* Linux's convention: the negated error, or the result.
Expected(h) == IF h.ok THEN h.r ELSE -h.e

---------------------------------------------------------------------------
(* Ends of a call.                                                             *)

\* handle_syscall writes the result to rax and the guest goes on.
Return(v) == rax' = v /\ UNCHANGED status

Stop(how) == status' = how /\ UNCHANGED rax

Reached(c, a, host, h) == call' = [name |-> c, guest |-> a, host |-> host, answer |-> h]

\* The call ended before a handler was called.
NoHostCall(c, a) == errno' = errno /\ Reached(c, a, <<>>, NoAnswer)

\* A function that forwards, from its check for a handler to its return.
Forwarded(c, a) ==
    LET f == Forwarding[c]
        p == unpack_syscall(GuestRegs(a), Len(f.args))
        Asserted == \E i \in DOMAIN p : Asserts(f.args[i], p[i])
        Refused == \E i \in DOMAIN p : f.args[i] = "efault" /\ p[i] = "bad"
    IN \/ /\ c \notin Handlers
          /\ \/ f.check = "ENOSYS" /\ Return(-ENOSYS)
             \/ f.check = "exit" /\ Stop("exit1")
             \/ f.check = "none" /\ Stop("crashed")
          /\ NoHostCall(c, a)
       \/ c \in Handlers /\ Asserted /\ Stop("aborted") /\ NoHostCall(c, a)
       \/ c \in Handlers /\ ~Asserted /\ Refused /\ Return(-EFAULT) /\ NoHostCall(c, a)
       \/ /\ c \in Handlers /\ ~Asserted /\ ~Refused
          /\ \E h \in HostAnswers(HostKind(c)) :
                /\ errno' = h.e
                /\ Reached(c, a, [i \in DOMAIN p |-> Translated(p[i])], h)
                /\ Return(Result(f.ret, h))

ForwardedCall(n) ==
    /\ n < NUM_SYSCALLS /\ elkvm_syscalls[n] \in DOMAIN Forwarding
    /\ \E a \in GuestArgs(Forwarding[elkvm_syscalls[n]].args) : Forwarded(elkvm_syscalls[n], a)
    /\ UNCHANGED <<procvars, sigvars>>

\* UNIMPLEMENTED_SYSCALL: exit(1).
Unimplemented(n) ==
    /\ n < NUM_SYSCALLS /\ elkvm_syscalls[n] \in Stubs
    /\ Stop("exit1") /\ NoHostCall("stub", <<>>)
    /\ UNCHANGED <<procvars, sigvars>>

\* A number without a function: the bound of handle_syscall lets NUM_SYSCALLS
\* itself through, and what lies behind the array is called; an entry without
\* an initialiser is a null pointer.
NoFunction(n) ==
    /\ \/ n < NUM_SYSCALLS /\ elkvm_syscalls[n] = "NULL" /\ NoHostCall("hole", <<>>)
       \/ n = NUM_SYSCALLS /\ NoHostCall("invalid", <<>>)
    /\ Stop("crashed")
    /\ UNCHANGED <<procvars, sigvars>>

InvalidNumber(n) ==
    /\ n > NUM_SYSCALLS
    /\ Return(-ENOSYS) /\ NoHostCall("invalid", <<>>)
    /\ UNCHANGED <<procvars, sigvars>>

---------------------------------------------------------------------------
(* System calls that keep state in the virtual machine.                        *)

Pointers == {"null", "bad", "good"}

\* The copy of the limits is made without a handler; memcpy through the null
\* pointer that a pointer without a page translates to crashes.
elkvm_do_getrlimit(res, p) ==
    /\ \/ p = "null" /\ Stop("aborted")
       \/ p # "null" /\ res >= RLIMIT_NLIMITS /\ Stop("aborted")
       \/ p = "bad" /\ res < RLIMIT_NLIMITS /\ Stop("crashed")
       \/ p = "good" /\ res < RLIMIT_NLIMITS /\ Return(0)
    /\ NoHostCall("getrlimit", <<p>>)
    /\ UNCHANGED <<procvars, sigvars>>

elkvm_do_setrlimit_Bug(res, p, v) ==
    /\ p = "good"
    /\ \E h \in HostAnswers("zero") :
          /\ errno' = h.e /\ Reached("setrlimit", <<p>>, <<p>>, h) /\ Return(h.r)
          /\ limits' = [limits EXCEPT ![res] = v]
          /\ hostLimits' = IF h.ok THEN [hostLimits EXCEPT ![res] = v] ELSE hostLimits
    /\ UNCHANGED sigvars

\* The host refuses a resource it does not know and a null pointer.
elkvm_do_setrlimit(res, p, v) ==
    /\ \/ /\ "setrlimit" \notin Handlers
          /\ Return(-ENOSYS) /\ NoHostCall("setrlimit", <<p>>) /\ UNCHANGED procvars
       \/ /\ "setrlimit" \in Handlers /\ p = "null"
          /\ Stop("aborted") /\ NoHostCall("setrlimit", <<p>>) /\ UNCHANGED procvars
       \/ /\ "setrlimit" \in Handlers /\ p # "null"
          /\ \E h \in HostAnswers("zero") :
               /\ h.ok => p = "good" /\ res < RLIMIT_NLIMITS
               /\ errno' = h.e /\ Return(h.r)
               /\ Reached("setrlimit", <<p>>, <<Translated(p)>>, h)
               /\ IF h.r = 0
                  THEN /\ limits' = [limits EXCEPT ![res] = v]
                       /\ hostLimits' = [hostLimits EXCEPT ![res] = v]
                  ELSE UNCHANGED procvars
    /\ UNCHANGED sigvars

\* The slot of sigs.signals and the host's signal for a number of the guest.
RegisteredAs(signum) == IF 32 <= signum /\ signum <= 64 THEN (signum % 32) + SIGRTMIN ELSE signum

\* Signals the host's sigaction refuses, external: SIGKILL, SIGSTOP and those
\* past the last one.
HostRefuses(signum) == signum \in {9, 19} \/ signum >= NSIG

\* The assertion on the number comes before it is changed, the one on the host's
\* answer after the slot was written, whether there is such a slot or not.
signal_register(signum, act) ==
    LET s == RegisteredAs(signum) IN
    \/ signum >= NSIG /\ Stop("aborted") /\ UNCHANGED sigvars
    \/ /\ signum < NSIG
       /\ sigtab' = [n \in DOMAIN sigtab \cup {s} |-> IF n = s THEN act ELSE sigtab[n]]
       /\ IF HostRefuses(s)
          THEN Stop("aborted") /\ UNCHANGED installed
          ELSE installed' = installed \cup {s} /\ Return(0)

\* The monitor's handler decides whether the action is registered; without an
\* action, when the pointer is null or translates to null, nothing is.
elkvm_do_sigaction(signum, p, act) ==
    /\ \/ "sigaction" \notin Handlers /\ Return(-ENOSYS) /\ UNCHANGED sigvars
       \/ "sigaction" \in Handlers /\ Return(0) /\ UNCHANGED sigvars
       \/ "sigaction" \in Handlers /\ p = "good" /\ signal_register(signum, act)
       \/ /\ "sigaction" \in Handlers /\ p # "good" /\ signum >= NSIG
          /\ Stop("aborted") /\ UNCHANGED sigvars
    /\ NoHostCall("sigaction", <<p>>)
    /\ UNCHANGED procvars

\* get_sregs, the base of fs or gs in the virtual CPU or in the guest's memory,
\* set_sregs; either ioctl may fail.  The segments themselves are not modelled.
elkvm_do_arch_prctl(code, p) ==
    /\ \/ \E e \in HostErrnos : Return(-e)
       \/ p # "good" /\ Stop("aborted")
       \/ p = "good" /\ Return(IF code = "other" THEN -EINVAL ELSE 0)
    /\ NoHostCall("arch_prctl", <<p>>)
    /\ UNCHANGED <<procvars, sigvars>>

\* The handler ends the process; a monitor's own may come back, and then the
\* run loop is left.
elkvm_do_exit_group ==
    /\ IF "exit_group" \in Handlers THEN Stop("exited") ELSE Stop("crashed")
    /\ NoHostCall("exit_group", <<>>)
    /\ UNCHANGED <<procvars, sigvars>>

KeptInVm(n) ==
    /\ n < NUM_SYSCALLS
    /\ \/ /\ elkvm_syscalls[n] = "getrlimit"
          /\ \E res \in Resources, p \in Pointers : elkvm_do_getrlimit(res, p)
       \/ /\ elkvm_syscalls[n] = "setrlimit"
          /\ \E res \in Resources, p \in Pointers, v \in Limits : elkvm_do_setrlimit(res, p, v)
       \/ /\ elkvm_syscalls[n] = "sigaction"
          /\ \E s \in Signals, p \in Pointers, act \in Actions : elkvm_do_sigaction(s, p, act)
       \/ /\ elkvm_syscalls[n] = "arch_prctl"
          /\ \E code \in {"base", "other"}, p \in Pointers : elkvm_do_arch_prctl(code, p)
       \/ elkvm_syscalls[n] = "exit_group" /\ elkvm_do_exit_group

Init ==
    /\ status = "running" /\ errno = 0 /\ rax = 0 /\ call = NoCall
    /\ hostLimits \in [0 .. RLIMIT_NLIMITS - 1 -> Limits]
    /\ limits = hostLimits
    /\ sigtab = [s \in 0 .. NSIG - 1 |-> "default"]
    /\ installed = {}

\* VM::handle_syscall, with the function of the table it calls.
handle_syscall(n) ==
    /\ status = "running" /\ call = NoCall
    /\ \/ ForwardedCall(n) \/ Unimplemented(n) \/ NoFunction(n)
       \/ InvalidNumber(n) \/ KeptInVm(n)

\* The guest runs until its next system call, and uses rax for other things.
GuestContinues ==
    /\ status = "running" /\ call # NoCall
    /\ call' = NoCall /\ rax' = 0
    /\ UNCHANGED <<status, errno, procvars, sigvars>>

Ended == status # "running" /\ UNCHANGED vars

Next == Ended \/ GuestContinues \/ \E n \in GuestCalls : handle_syscall(n)

Spec == Init /\ [][Next]_vars

---------------------------------------------------------------------------
(* Properties.                                                                 *)

\* The guest gets the result of the host's call, or the negated error of that
\* call and of no earlier one; from the many functions that hand the handler's
\* result on it gets -1 for every error.  Not so what dup and a successful futex
\* make of an errno the call did not set, and what getcwd makes of a pointer.
GuestGetsHostResult ==
    /\ call.host # <<>> /\ call.name \notin {"dup", "getcwd"}
    /\ ~(call.name = "futex" /\ call.answer.ok)
    => rax \in {Expected(call.answer), call.answer.r}

\* The limits the guest is shown are the ones the host enforces on the monitor,
\* whatever the host refused on the way.
LimitsMatchHost == limits = hostLimits

\* signal_register asserts that the number it is given has a slot in sigs.signals
\* (signal.cc:53), so what the guest registers is written into that table and
\* nowhere else.
SlotsInRange == DOMAIN sigtab \subseteq 0 .. NSIG - 1
================================================================================
