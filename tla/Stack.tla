---------------------------------- MODULE Stack ----------------------------------
(* Stack, the pushes and pops of VCPU, and VM::handle_interrupt.  Addresses     *)
(* count words of 8 bytes.  word holds the words of all mapped memory that the  *)
(* stacks can meet: the user's stack, the kernel's, and pages the guest mapped  *)
(* below its stack.  A word is a tuple that begins with its kind; nobody clears *)
(* the memory of a stack, so a word that was never written may be anything.     *)
EXTENDS Integers, Sequences, FiniteSets

CONSTANTS
    PageWords,  \* words of a page
    Grow,       \* ELKVM_STACK_GROW
    StackBase,  \* LINUX_64_STACK_BASE
    KernelTop,  \* address after the kernel's stack, above the user's
    Memory,     \* bound: how often the host gives memory for the stack
    NullEnd,    \* last address of a fault that is taken for a null pointer
    Touches,    \* addresses the guest may touch
    Mappable    \* addresses where the guest may map a page

ASSUME StackConstants ==
    /\ PageWords \in Nat \ {0} /\ Grow \in Nat \ {0} /\ Grow % PageWords = 0
    /\ StackBase \in Nat /\ StackBase % PageWords = 0
    /\ KernelTop \in Nat /\ KernelTop - PageWords >= StackBase
    /\ Memory \in Nat \ {0} /\ NullEnd \in Nat /\ Touches \subseteq Nat \ {0}
    /\ PageWords >= 7 /\ \A a \in Mappable : a \in Nat /\ a % PageWords = 0

VARIABLES
    phase,      \* what the monitor does, or how it ended
    cpu,        \* base of the stack, word, rsp, and how much memory is left
    fault,      \* the address the guest touches in vain, 0 for none
    userRsp     \* rsp of the interrupted guest

stackvars == <<cpu, fault, userRsp>>

Num(n) == <<"num", n>>
OldWord == <<"old">>
Mapped(c, a) == a \in DOMAIN c.word
Page(a) == a .. a + PageWords - 1

---------------------------------------------------------------------------
(* Stack.                                                                      *)

\* The pages of a new part of the stack are mapped upwards until one is met that
\* the guest has mapped already.
MapRegion(c, start) ==
    LET starts == {start + i * PageWords : i \in 0 .. (Grow \div PageWords) - 1}
        bad == {p \in starts : Mapped(c, p)}
        new == UNION {Page(p) : p \in {x \in starts : \A b \in bad : x < b}}
    IN [c EXCEPT !.word = [a \in new \cup DOMAIN c.word |-> IF a \in new THEN OldWord ELSE c.word[a]],
                 !.err = bad # {}]

\* The base moves first and stays where it is when mapping fails; without memory
\* allocate_region fails an assertion.
expand(c) == IF c.memory = 0 THEN [c EXCEPT !.aborted = TRUE]
             ELSE MapRegion([c EXCEPT !.base = @ - Grow, !.memory = @ - 1], c.base - Grow)

\* A full stack is expanded once.
pushq(c, v) ==
    LET x == IF Mapped(c, c.rsp) THEN [c EXCEPT !.err = FALSE] ELSE expand(c) IN
    IF x.aborted \/ x.err THEN x
    ELSE IF ~Mapped(x, c.rsp) THEN [x EXCEPT !.aborted = TRUE]
    ELSE [x EXCEPT !.word[c.rsp] = v]

\* VCPU::push and VCPU::pop; push ignores the error of pushq.
push(c, v) == pushq([c EXCEPT !.rsp = @ - 1], v)
pop(c) == IF Mapped(c, c.rsp) THEN [c EXCEPT !.rsp = @ + 1] ELSE [c EXCEPT !.aborted = TRUE]

\* The constructors of Stack and VCPU: one part of the stack, the kernel's page,
\* and rsp at the base, below which nothing is mapped.
NewStack ==
    LET c == expand([base |-> StackBase, rsp |-> 0, memory |-> Memory, err |-> FALSE,
                     aborted |-> FALSE,
                     word |-> [a \in Page(KernelTop - PageWords) |-> OldWord]])
    IN [c EXCEPT !.rsp = c.base]

StackInit == cpu = NewStack /\ fault = 0 /\ userRsp = 0

\* The monitor goes on in the given phase unless an assertion failed.
GoesOn(c, next) == cpu' = c /\ phase' = IF c.aborted THEN "aborted" ELSE next

---------------------------------------------------------------------------
(* The guest's side of an interrupt.                                           *)

Vectors == {"debug_trap", "stack_segment_fault", "general_protection_fault", "page_fault", "other"}
HasErrorCode(v) == v \notin {"debug_trap", "other"}

\* The processor pushes five words and for some vectors a code, the stub of the
\* interrupt pushes the vector (and the number of the hypercall, already taken).
Frame(v) == <<<<"vector", v>>>> \o (IF HasErrorCode(v) THEN <<<<"code">>>> ELSE <<>>)
              \o <<<<"rip">>, <<"cs">>, <<"rflags">>, <<"rsp">>, <<"ss">>>>

Interrupt(v) ==
    LET f == Frame(v)
        low == KernelTop - Len(f)
    IN /\ cpu' = [cpu EXCEPT !.rsp = low,
                    !.word = [a \in DOMAIN @ |-> IF a >= low THEN f[a - low + 1] ELSE @[a]]]
       /\ userRsp' = cpu.rsp /\ phase' = "interrupt"

\* The guest touches an address, and again after every fault.
Touch(a) ==
    /\ phase = "run" /\ fault \in {0, a}
    /\ IF Mapped(cpu, a) THEN fault' = 0 /\ UNCHANGED <<phase, cpu, userRsp>>
       ELSE fault' = a /\ Interrupt("page_fault")

Trap(v) == phase = "run" /\ fault = 0 /\ Interrupt(v) /\ UNCHANGED fault

\* The guest maps a page for itself.
MapPage(a) ==
    /\ phase = "run" /\ fault = 0 /\ \A b \in Page(a) : ~Mapped(cpu, b)
    /\ cpu' = [cpu EXCEPT !.word = [b \in DOMAIN @ \cup Page(a) |->
                                      IF b \in Page(a) THEN <<"guest">> ELSE @[b]]]
    /\ UNCHANGED <<phase, fault, userRsp>>

\* The stub ends with iret, which takes whatever rsp points at for a frame.
Iret ==
    /\ phase = "iret"
    /\ phase' = IF Mapped(cpu, cpu.rsp) /\ cpu.word[cpu.rsp] = <<"rip">> THEN "run" ELSE "lost"
    /\ cpu' = [cpu EXCEPT !.rsp = userRsp]
    /\ UNCHANGED <<fault, userRsp>>

---------------------------------------------------------------------------
(* handle_interrupt.                                                           *)

\* What was popped for a code is the address to return to, and is pushed back.
handle_debug_trap(c, code) == GoesOn(push(c, code), "iret")

handle_page_fault_Bug(c) ==
    IF fault <= NullEnd THEN cpu' = c /\ phase' = "exited"
    ELSE IF fault < c.base /\ fault >= c.base - Grow THEN GoesOn(expand(c), "iret")
    ELSE cpu' = c /\ phase' = "iret"

\* handle_segfault ends the process; every other fault expands the stack, and
\* the error of that is ignored.
handle_page_fault(c) ==
    IF fault <= NullEnd THEN cpu' = c /\ phase' = "exited" ELSE GoesOn(expand(c), "iret")

\* VM::handle_interrupt: the vector, the code, the handler of the vector; the
\* run loop ends for every vector that has none.
handle_interrupt ==
    /\ phase = "interrupt"
    /\ LET v == cpu.word[cpu.rsp][2]
           c == pop(pop(cpu))
           code == cpu.word[cpu.rsp + 1]
       IN \/ v = "debug_trap" /\ handle_debug_trap(c, code)
          \/ v = "page_fault" /\ handle_page_fault(c)
          \/ v \notin {"debug_trap", "page_fault"} /\ cpu' = c /\ phase' = "stopped"
    /\ UNCHANGED <<fault, userRsp>>

\* The guest and the monitor take turns.
GuestRuns ==
    \/ \E a \in Touches : Touch(a)
    \/ \E v \in Vectors \ {"page_fault"} : Trap(v)
    \/ \E a \in Mappable : MapPage(a)

Served == handle_interrupt \/ Iret

\* The guest executes the faulting instruction again.
Retried == fault # 0 /\ Touch(fault)

---------------------------------------------------------------------------
(* Properties.                                                                 *)

Ended == {"aborted", "exited", "stopped"}

\* A page fault does not repeat forever and the guest returns from it to where it
\* was: the stack reaches the address in the end, or the monitor stops the guest,
\* at the latest when the fault, which may be anywhere, has used up the memory.
FaultEnds == fault # 0 ~> fault = 0 \/ phase \in Ended
================================================================================
