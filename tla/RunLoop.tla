-------------------------------- MODULE RunLoop --------------------------------
(***************************************************************************)
(* The thread that runs the virtual CPU, and the signals that interrupt    *)
(* it: VM::run (src/src/vm.cc), VCPU::run (src/src/kvm.cc),                *)
(* VM::handle_hypercall (src/src/syscall.cc) and src/src/signal.cc.        *)
(*                                                                         *)
(* There is one thread.  elkvm_signal_handler runs on it at any point, and *)
(* because its sa_mask is empty another signal may interrupt the handler   *)
(* itself.  num_pending_signals and pending_signals are plain variables of *)
(* a debug build, so each statement on them is modelled by its loads and   *)
(* stores.                                                                 *)
(*                                                                         *)
(* Of the registers only the progress of the guest matters: kregs is what  *)
(* KVM has and regs the copy that set_regs and get_regs exchange with it.  *)
(***************************************************************************)
EXTENDS Integers, Sequences, FiniteSets

CONSTANTS
    Signals,     \* signals the guest may register a handler for
    Capacity,    \* entries of pending_signals (32)
    MaxRaise,    \* bound: signals that arrive
    MaxSteps     \* bound: progress of the guest

ASSUME SignalAssumption ==
    /\ Signals \subseteq Nat \ {0}
    /\ Capacity \in Nat \ {0}
    /\ MaxRaise \in Nat
    /\ MaxSteps \in Nat

VARIABLES
    pc,           \* what the thread does next when no handler is active
    exit,         \* run_struct->exit_reason
    regs, kregs,  \* see above
    num,          \* num_pending_signals
    slots,        \* pending_signals
    tmp,          \* a register of signal_deliver
    active,       \* activations of elkvm_signal_handler, innermost last
    registered,   \* signals whose handler is elkvm_signal_handler
    overrun,      \* history: an index outside pending_signals was used
    raised,       \* history: how often each signal arrived
    delivered,    \* history: how often each number was passed to the guest
    arrived,      \* history: signals that arrived
    sent,         \* history: signals that were passed to the guest
    raced,        \* history: a signal arrived inside a critical window
    causes        \* history: why the guest may go back, how ioctls of VM::run
                  \* have failed and "addr" once the debugger named an address

history == <<raised, delivered, arrived, sent>>
sigvars == <<num, slots, tmp, active, registered, overrun, raced, history>>
vars == <<pc, exit, regs, kregs, causes, sigvars>>

Numbers == Signals \cup {0}

\* Where signal_deliver is between two accesses to the shared variables.
DeliverPcs == {"deliver", "load", "store", "index", "slot"}

Pcs == {"idle", "set_regs", "KVM_RUN", "eintr", "get_regs", "exit", "done"} \cup DeliverPcs

\* The thread executes its own code.
OnThread(at) == active = <<>> /\ pc = at
--------------------------------------------------------------------------------
(***************************************************************************)
(* elkvm_signal_handler.                                                   *)
(***************************************************************************)
Top == active[Len(active)]

\* Between these accesses the shared variables do not agree with what the
\* interrupted code has in its registers.
InWindow ==
    IF active = <<>> THEN pc \in {"store", "index", "slot"}
    ELSE Top.at \in {"put", "load", "store"}

\* A signal arrives: the kernel (external) blocks it while its own handler is
\* active.  In KVM_RUN it makes the ioctl return with EINTR.
Raise(s) ==
    /\ s \in registered
    /\ \A i \in DOMAIN active : active[i].sig # s
    /\ arrived < MaxRaise
    /\ pc # "done"
    /\ active' = Append(active, [sig |-> s, at |-> "index", n |-> 0])
    /\ raised' = [raised EXCEPT ![s] = @ + 1]
    /\ arrived' = arrived + 1
    /\ raced' = (raced \/ InWindow)
    /\ pc' = IF pc = "KVM_RUN" THEN "eintr" ELSE pc
    /\ UNCHANGED <<exit, regs, kregs, causes, num, slots, tmp, registered, overrun,
                   delivered, sent>>

Advance(at, n) ==
    active' = [active EXCEPT ![Len(active)] = [sig |-> @.sig, at |-> at, n |-> n]]

\* pending_signals[num_pending_signals] = signum
HandlerIndex ==
    /\ active # <<>> /\ Top.at = "index"
    /\ Advance("put", num)
    /\ UNCHANGED <<pc, exit, regs, kregs, causes, num, slots, tmp, registered,
                   overrun, raced, history>>

HandlerPut_Bug ==
    /\ active # <<>> /\ Top.at = "put"
    /\ IF Top.n < Capacity
       THEN Advance("load", Top.n) /\ slots' = [slots EXCEPT ![Top.n] = Top.sig]
       ELSE Advance("index", num) /\ UNCHANGED slots
    /\ UNCHANGED <<pc, exit, regs, kregs, causes, num, tmp, registered, overrun, raced, history>>

HandlerPut ==
    /\ active # <<>> /\ Top.at = "put"
    /\ Advance("load", Top.n)
    /\ IF Top.n < Capacity
       THEN slots' = [slots EXCEPT ![Top.n] = Top.sig] /\ UNCHANGED overrun
       ELSE overrun' = TRUE /\ UNCHANGED slots
    /\ UNCHANGED <<pc, exit, regs, kregs, causes, num, tmp, registered, raced, history>>

\* num_pending_signals++
HandlerLoad ==
    /\ active # <<>> /\ Top.at = "load"
    /\ Advance("store", num)
    /\ UNCHANGED <<pc, exit, regs, kregs, causes, num, slots, tmp, registered,
                   overrun, raced, history>>

HandlerStore_Bug ==
    /\ active # <<>> /\ Top.at = "store"
    /\ num' = Top.n + 2
    /\ active' = SubSeq(active, 1, Len(active) - 1)
    /\ UNCHANGED <<pc, exit, regs, kregs, causes, slots, tmp, registered,
                   overrun, raced, history>>

HandlerStore ==
    /\ active # <<>> /\ Top.at = "store"
    /\ num' = Top.n + 1
    /\ active' = SubSeq(active, 1, Len(active) - 1)
    /\ UNCHANGED <<pc, exit, regs, kregs, causes, slots, tmp, registered,
                   overrun, raced, history>>

Handler == HandlerIndex \/ HandlerPut \/ HandlerLoad \/ HandlerStore
--------------------------------------------------------------------------------
(***************************************************************************)
(* VM::run.                                                                *)
(***************************************************************************)
\* The monitor calls VM::run: once (the examples) or after every command of
\* the debugger (gdbstub.cc).
CallRun ==
    /\ OnThread("idle")
    /\ pc' = "set_regs"
    /\ UNCHANGED <<exit, regs, kregs, causes, sigvars>>

\* handle_continue for c with an address: it is written to the copy of the
\* registers, which set_regs then gives to KVM.
ContinueAt(addr) ==
    /\ OnThread("idle")
    /\ pc' = "set_regs" /\ regs' = addr
    /\ causes' = causes \cup {"addr"}
    /\ UNCHANGED <<exit, kregs, sigvars>>

set_regs ==
    /\ OnThread("set_regs")
    /\ kregs' = regs
    /\ pc' = "KVM_RUN"
    /\ UNCHANGED <<exit, regs, causes, sigvars>>

\* The guest computes.
GuestStep ==
    /\ OnThread("KVM_RUN")
    /\ kregs < MaxSteps
    /\ kregs' = kregs + 1
    /\ UNCHANGED <<pc, exit, regs, causes, sigvars>>

\* KVM_RUN returns because the guest made a hypercall or hit a breakpoint.
KvmExit(reason) ==
    /\ OnThread("KVM_RUN")
    /\ pc' = "get_regs"
    /\ exit' = reason
    /\ UNCHANGED <<regs, kregs, causes, sigvars>>

\* KVM_RUN failed with EINTR: VM::run returns before it calls get_regs.
ReturnEintr ==
    /\ OnThread("eintr")
    /\ pc' = "idle"
    /\ causes' = causes \cup {"EINTR"}
    /\ UNCHANGED <<exit, regs, kregs, sigvars>>

\* KVM_SET_REGS, KVM_RUN or KVM_GET_REGS failed with another error: VM::run
\* returns it.
IoctlFails ==
    /\ \E at \in {"set_regs", "KVM_RUN", "get_regs"} : OnThread(at)
    /\ pc' = "idle"
    /\ causes' = causes \cup {"error"}
    /\ UNCHANGED <<exit, regs, kregs, sigvars>>

get_regs_Bug ==
    /\ OnThread("get_regs")
    /\ pc' = "exit"
    /\ UNCHANGED <<exit, kregs, regs, causes, sigvars>>

get_regs ==
    /\ OnThread("get_regs")
    /\ regs' = kregs
    /\ pc' = "exit"
    /\ UNCHANGED <<exit, kregs, causes, sigvars>>

\* handle_hypercall: the call was handled and elkvm_emulate_vmcall moves the
\* guest past it.  The system call may have been sigaction (signal_register).
handle_hypercall(reg) ==
    /\ OnThread("exit") /\ exit = "hypercall"
    /\ regs < MaxSteps
    /\ regs' = regs + 1
    /\ registered' = registered \cup reg
    /\ pc' = "deliver"
    /\ UNCHANGED <<exit, kregs, causes, num, slots, tmp, active, overrun, raced, history>>

\* handle_hypercall returned ELKVM_HYPERCALL_EXIT: the program has ended.
ExitGroup ==
    /\ OnThread("exit") /\ exit = "hypercall"
    /\ pc' = "done"
    /\ UNCHANGED <<exit, regs, kregs, causes, sigvars>>

\* The hypercall causes, or handle_vm_exit returned false: VM::run returns 0.
StopLoop ==
    /\ OnThread("exit")
    /\ pc' = "idle"
    /\ UNCHANGED <<exit, regs, kregs, causes, sigvars>>
--------------------------------------------------------------------------------
(***************************************************************************)
(* signal_deliver, called at the end of handle_hypercall.                  *)
(***************************************************************************)
DeliverNothing ==
    /\ OnThread("deliver") /\ num <= 0
    /\ pc' = "set_regs"
    /\ UNCHANGED <<exit, regs, kregs, causes, sigvars>>

DeliverSome_Bug ==
    /\ OnThread("deliver")
    /\ pc' = "load"
    /\ UNCHANGED <<exit, regs, kregs, causes, sigvars>>

DeliverSome ==
    /\ OnThread("deliver") /\ num > 0
    /\ pc' = "load"
    /\ UNCHANGED <<exit, regs, kregs, causes, sigvars>>

\* num_pending_signals--
DeliverLoad ==
    /\ OnThread("load")
    /\ tmp' = num
    /\ pc' = "store"
    /\ UNCHANGED <<exit, regs, kregs, causes, num, slots, active, registered,
                   overrun, raced, history>>

DeliverStore_Bug ==
    /\ OnThread("store")
    /\ pc' = "index"
    /\ UNCHANGED <<exit, regs, kregs, causes, sigvars>>

DeliverStore ==
    /\ OnThread("store")
    /\ num' = tmp - 1
    /\ pc' = "index"
    /\ UNCHANGED <<exit, regs, kregs, causes, slots, tmp, active, registered,
                   overrun, raced, history>>

\* signum = pending_signals[num_pending_signals]
DeliverIndex ==
    /\ OnThread("index")
    /\ tmp' = num
    /\ pc' = "slot"
    /\ UNCHANGED <<exit, regs, kregs, causes, num, slots, active, registered,
                   overrun, raced, history>>

\* The rest: rax, the clean-up code and the guest's handler are pushed and
\* rdi becomes the signal number.  An index outside the array reads anything.
DeliverSlot ==
    /\ OnThread("slot")
    /\ \E sig \in Numbers :
           /\ tmp < Capacity => sig = slots[tmp]
           /\ delivered' = [delivered EXCEPT ![sig] = @ + 1]
    /\ sent' = sent + 1
    /\ overrun' = (overrun \/ tmp >= Capacity)
    /\ pc' = "set_regs"
    /\ UNCHANGED <<exit, regs, kregs, causes, num, slots, tmp, active, registered,
                   raised, arrived, raced>>

signal_deliver ==
    DeliverNothing \/ DeliverSome \/ DeliverLoad \/ DeliverStore \/ DeliverIndex \/ DeliverSlot
--------------------------------------------------------------------------------
Init ==
    /\ pc = "idle" /\ exit = "none"
    /\ regs = 0 /\ kregs = 0
    /\ num = 0 /\ tmp = 0
    /\ slots = [i \in 0..(Capacity - 1) |-> 0]
    /\ active = <<>>
    /\ registered = {}
    /\ raised = [s \in Numbers |-> 0]
    /\ delivered = [s \in Numbers |-> 0]
    /\ arrived = 0 /\ sent = 0
    /\ overrun = FALSE /\ raced = FALSE /\ causes = {}

\* Steps of the VMM's own code; each of them ends.
VMM ==
    \/ set_regs \/ ReturnEintr \/ get_regs
    \/ handle_hypercall({}) \/ (\E s \in Signals : handle_hypercall({s}))
    \/ ExitGroup \/ StopLoop \/ signal_deliver

Finished == pc = "done" /\ UNCHANGED vars

Next ==
    \/ \E s \in Signals : Raise(s)
    \/ Handler
    \/ VMM
    \/ CallRun \/ (\E addr \in 0..MaxSteps : ContinueAt(addr)) \/ IoctlFails
    \/ GuestStep
    \/ \E reason \in {"hypercall", "debug"} : KvmExit(reason)
    \/ Finished

\* The thread is scheduled, so its own code goes on; nothing is assumed of
\* the guest, the monitor or the senders of signals.
Spec == Init /\ [][Next]_vars /\ WF_vars(Handler) /\ WF_vars(VMM)
--------------------------------------------------------------------------------
(***************************************************************************)
(* Properties.                                                             *)
(***************************************************************************)
\* Type invariant.
TypeOK ==
    /\ pc \in Pcs /\ exit \in {"none", "hypercall", "debug"}
    /\ regs \in Nat /\ kregs \in Nat
    /\ num \in Nat /\ tmp \in Nat
    /\ slots \in [0..(Capacity - 1) -> Numbers]
    /\ active \in Seq([sig : Signals, at : {"index", "put", "load", "store"}, n : Nat])
    /\ registered \subseteq Signals
    /\ overrun \in BOOLEAN /\ raced \in BOOLEAN /\ causes \subseteq {"EINTR", "error", "addr"}
    /\ raised \in [Numbers -> Nat] /\ delivered \in [Numbers -> Nat]
    /\ arrived \in Nat /\ sent \in Nat

\* However handlers nest and wherever they interrupt signal_deliver, the
\* guest is never sent more signals than arrived: updates that are lost only
\* ever make the counter too small, and it never becomes negative.
NoExtraDelivery == num >= 0 /\ num + sent <= arrived

\* No handler is active and signal_deliver holds no signal.
Quiet == active = <<>> /\ pc \notin {"index", "slot"}

\* As long as no signal arrived inside a window, every signal that arrived
\* was either delivered once or waits once in pending_signals.
NoSignalLost ==
    (~raced /\ ~overrun /\ Quiet) =>
        \A s \in Numbers :
            raised[s] = delivered[s] + Cardinality({i \in 0..(num - 1) : slots[i] = s})

\* pending_signals is only overrun when more signals than it has entries
\* have arrived; the code has no check of its own.
OverrunNeedsBacklog == overrun => arrived > Capacity

\* set_regs puts the guest back only after an ioctl has failed or the debugger
\* asked for it: every other way out of KVM_RUN refreshes the copy of the
\* registers first.
NoRollback == [][kregs' < kregs => causes # {}]_vars

\* Once KVM_RUN has returned or was interrupted, VM::run comes to an end or
\* enters the guest again, whatever handlers run in between.
LoopProgresses ==
    pc \notin {"idle", "KVM_RUN", "done"} ~> pc \in {"idle", "KVM_RUN", "done"}

\* "If addr is omitted, resume at current address" (gdbstub.cc, command c):
\* unless KVM itself reports an error or the debugger gave an address, calling
\* VM::run again continues where the guest was.
ResumesAtCurrent == [][kregs' < kregs => causes \cap {"error", "addr"} # {}]_vars
===============================================================================
