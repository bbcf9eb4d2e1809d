----------------------------- MODULE RunLoopProofs -----------------------------
(***************************************************************************)
(* What holds of the pending signals for every number of signals, every    *)
(* capacity and every nesting of handlers; then types, registers, and that *)
(* no signal is lost.                                                      *)
(*                                                                         *)
(* NoExtraDelivery is not inductive: HandlerStore and DeliverStore write   *)
(* values that were computed from a counter read some time before.  Order  *)
(* says that these reads are never ahead of the counter, and that an inner *)
(* handler has read no less than the code it interrupted; Budget keeps one *)
(* signal in reserve for every handler that is still to count its own and  *)
(* for the one that signal_deliver has taken off and not yet passed on.    *)
(***************************************************************************)
EXTENDS RunLoop, SequenceTheorems, FiniteSetTheorems, TLAPS

Activation == [sig : Signals, at : {"index", "put", "load", "store"}, n : Nat]

\* Types of what the counters depend on.
CountersOK ==
    /\ pc \in Pcs
    /\ num \in Nat /\ tmp \in Nat
    /\ active \in Seq(Activation)
    /\ overrun \in BOOLEAN
    /\ arrived \in Nat /\ sent \in Nat

\* One signal that signal_deliver holds.
InHand == IF pc \in {"index", "slot"} THEN 1 ELSE 0

Budget == num + sent + Len(active) + InHand <= arrived

\* What has been read of the counter is not ahead of it.
Order ==
    /\ pc = "load" => num > 0
    /\ pc = "store" => /\ 0 < tmp /\ tmp <= num
                       /\ \A i \in 1..Len(active) : active[i].at = "store" => tmp <= active[i].n
    /\ \A i \in 1..Len(active) : active[i].at = "store" => active[i].n <= num
    /\ \A i, j \in 1..Len(active) :
           (i < j /\ active[i].at = "store" /\ active[j].at = "store")
               => active[i].n <= active[j].n

\* No index that is used is as large as the number of arrivals.
Indices ==
    /\ \A i \in 1..Len(active) : active[i].at = "put" => active[i].n < arrived
    /\ pc = "slot" => tmp < arrived
    /\ overrun => arrived > Capacity

IInv == CountersOK /\ Budget /\ Order /\ Indices
--------------------------------------------------------------------------------
\* Nothing is pending when the VMM starts.
LEMMA InitIInv == Init => IInv
<1> SUFFICES ASSUME Init PROVE IInv
  OBVIOUS
<1>1. active = <<>> /\ Len(active) = 0 /\ active \in Seq(Activation)
  BY DEF Init
<1>2. CountersOK
  BY <1>1 DEF Init, CountersOK, Pcs
<1>3. Budget
  BY <1>1 DEF Init, Budget, InHand
<1>4. Order
  BY <1>1 DEF Init, Order
<1>5. Indices
  BY <1>1 DEF Init, Indices
<1> QED
  BY <1>2, <1>3, <1>4, <1>5 DEF IInv

\* The activations are records, the innermost one among them.
LEMMA TopFacts ==
    ASSUME active \in Seq(Activation)
    PROVE  /\ \A i \in 1..Len(active) : active[i] \in Activation /\ active[i].n \in Nat
           /\ active # <<>> => /\ Len(active) \in 1..Len(active)
                               /\ Top = active[Len(active)]
                               /\ Top \in Activation /\ Top.n \in Nat
<1>1. \A i \in 1..Len(active) : active[i] \in Activation
  OBVIOUS
<1>2. active # <<>> => Len(active) \in 1..Len(active)
  OBVIOUS
<1> QED
  BY <1>1, <1>2 DEF Top, Activation

\* A handler that is not the innermost one is left as it is.
LEMMA AdvanceFacts ==
    ASSUME NEW at \in {"index", "put", "load", "store"}, NEW n \in Nat,
           active \in Seq(Activation), active # <<>>, Advance(at, n)
    PROVE  /\ active' \in Seq(Activation)
           /\ Len(active') = Len(active) /\ Len(active) > 0
           /\ active'[Len(active)].at = at /\ active'[Len(active)].n = n
           /\ active'[Len(active)].sig = Top.sig
           /\ \A i \in 1..(Len(active) - 1) : active'[i] = active[i]
<1>1. Len(active) \in 1..Len(active) /\ Len(active) > 0
  OBVIOUS
<1>2. Top \in Activation /\ Top = active[Len(active)]
  BY <1>1 DEF Top
<1>3. [sig |-> Top.sig, at |-> at, n |-> n] \in Activation
  BY <1>2 DEF Activation
<1>4. active' = [active EXCEPT ![Len(active)] = [sig |-> Top.sig, at |-> at, n |-> n]]
  BY <1>1 DEF Advance, Top
<1>5. active' \in Seq(Activation) /\ Len(active') = Len(active)
  BY <1>1, <1>3, <1>4
<1>6. active'[Len(active)] = [sig |-> Top.sig, at |-> at, n |-> n]
  BY <1>1, <1>4
<1>7. /\ active'[Len(active)].at = at /\ active'[Len(active)].n = n
      /\ active'[Len(active)].sig = Top.sig
  BY <1>2, <1>6 DEF Activation
<1>8. \A i \in 1..(Len(active) - 1) : active'[i] = active[i]
  BY <1>1, <1>4
<1> QED
  BY <1>1, <1>5, <1>7, <1>8

\* Returning from the innermost handler.
LEMMA FrontFacts ==
    ASSUME NEW s \in Seq(Activation), Len(s) > 0,
           NEW t, t = SubSeq(s, 1, Len(s) - 1)
    PROVE  /\ t \in Seq(Activation) /\ Len(t) = Len(s) - 1
           /\ \A i \in 1..(Len(s) - 1) : t[i] = s[i]
<1>1. \A i \in 1..(Len(s) - 1) : s[i] \in Activation
  OBVIOUS
<1>2. Len(s) - 1 \in Int /\ 1 \in Int /\ Len(s) \in Nat
  OBVIOUS
<1> DEFINE m == Len(s) - 1
<1>3. /\ t \in Seq(Activation)
      /\ Len(t) = IF 1 <= m THEN m - 1 + 1 ELSE 0
      /\ \A i \in 1..(m - 1 + 1) : t[i] = s[1 + i - 1]
  BY <1>1, <1>2, SubSeqProperties
<1>4. m \in Nat /\ m - 1 + 1 = m
  BY <1>2
<1>5. \A i \in 1..m : 1 + i - 1 = i
  OBVIOUS
<1> HIDE DEF m
<1>6. Len(t) = m /\ \A i \in 1..m : t[i] = s[i]
  BY <1>3, <1>4, <1>5
<1> QED
  BY <1>3, <1>6 DEF m

\* A signal that arrives, in a window or not, keeps the invariant.
LEMMA RaiseIInv == ASSUME IInv, NEW s \in Signals, Raise(s) PROVE IInv'
<1> DEFINE a == [sig |-> s, at |-> "index", n |-> 0]
<1>1. /\ active' \in Seq(Activation) /\ Len(active') = Len(active) + 1
      /\ active'[Len(active) + 1].at = "index"
      /\ \A i \in 1..Len(active) : active'[i] = active[i]
  BY DEF IInv, CountersOK, Raise, Activation
<1>2. CountersOK'
  BY <1>1 DEF IInv, CountersOK, Raise, Pcs
<1>3. Budget'
  BY <1>1 DEF IInv, CountersOK, Budget, InHand, Raise
<1>4. Order'
  BY <1>1 DEF IInv, CountersOK, Order, Raise
<1>5. Indices'
  <2>1. arrived' = arrived + 1 /\ arrived \in Nat /\ tmp' = tmp /\ overrun' = overrun
    BY DEF Raise, IInv, CountersOK
  <2>2. \A i \in 1..Len(active') : active'[i].at = "put" => active'[i].n < arrived'
    BY <1>1, <2>1, TopFacts DEF IInv, CountersOK, Indices
  <2>3. (pc' = "slot" => tmp' < arrived') /\ (overrun' => arrived' > Capacity)
    BY <2>1, SignalAssumption DEF Raise, IInv, CountersOK, Indices
  <2> QED
    BY <2>2, <2>3 DEF Indices
<1> QED
  BY <1>2, <1>3, <1>4, <1>5 DEF IInv

\* Each access of elkvm_signal_handler keeps the invariant.
LEMMA HandlerIInv == ASSUME IInv, Handler PROVE IInv'
<1> USE DEF IInv
<1>1. CASE HandlerIndex
  <2>1. active # <<>> /\ Advance("put", num) /\ num \in Nat
    BY <1>1 DEF HandlerIndex, CountersOK
  <2>2. /\ active' \in Seq(Activation)
        /\ Len(active') = Len(active) /\ Len(active) > 0
        /\ active'[Len(active)].at = "put" /\ active'[Len(active)].n = num
        /\ \A i \in 1..(Len(active) - 1) : active'[i] = active[i]
    BY <2>1, AdvanceFacts DEF CountersOK
  <2>3. CountersOK' /\ Budget'
    BY <1>1, <2>2 DEF HandlerIndex, CountersOK, Budget, InHand, history
  <2>4. Order'
    BY <1>1, <2>2 DEF HandlerIndex, CountersOK, Order
  <2>5. num < arrived
    BY <2>2 DEF CountersOK, Budget, InHand
  <2>6. Indices'
    BY <1>1, <2>2, <2>5 DEF HandlerIndex, CountersOK, Indices, history
  <2> QED
    BY <2>3, <2>4, <2>6
<1>2. CASE HandlerPut
  <2>0. Len(active) \in 1..Len(active) /\ Top \in Activation /\ Top.n \in Nat
    BY <1>2, TopFacts DEF HandlerPut, CountersOK
  <2>1. active # <<>> /\ Advance("load", Top.n)
    BY <1>2 DEF HandlerPut
  <2>2. /\ active' \in Seq(Activation)
        /\ Len(active') = Len(active) /\ Len(active) > 0
        /\ active'[Len(active)].at = "load"
        /\ \A i \in 1..(Len(active) - 1) : active'[i] = active[i]
    BY <2>0, <2>1, AdvanceFacts DEF CountersOK
  <2>3. CountersOK' /\ Budget'
    BY <1>2, <2>2 DEF HandlerPut, CountersOK, Budget, InHand, history
  <2>4. Order'
    BY <1>2, <2>2 DEF HandlerPut, CountersOK, Order
  <2>5. Top.n < arrived
    BY <1>2, <2>0 DEF HandlerPut, Indices, Top
  <2>6. Indices'
    BY <1>2, <2>0, <2>2, <2>5, SignalAssumption DEF HandlerPut, CountersOK, Indices, history
  <2> QED
    BY <2>3, <2>4, <2>6
<1>3. CASE HandlerLoad
  <2>1. active # <<>> /\ Advance("store", num) /\ num \in Nat
    BY <1>3 DEF HandlerLoad, CountersOK
  <2>2. /\ active' \in Seq(Activation)
        /\ Len(active') = Len(active) /\ Len(active) > 0
        /\ active'[Len(active)].at = "store" /\ active'[Len(active)].n = num
        /\ \A i \in 1..(Len(active) - 1) : active'[i] = active[i]
    BY <2>1, AdvanceFacts DEF CountersOK
  <2>3. CountersOK' /\ Budget'
    BY <1>3, <2>2 DEF HandlerLoad, CountersOK, Budget, InHand, history
  <2>4. Order'
    BY <1>3, <2>2 DEF HandlerLoad, CountersOK, Order
  <2>6. Indices'
    BY <1>3, <2>2 DEF HandlerLoad, CountersOK, Indices, history
  <2> QED
    BY <2>3, <2>4, <2>6
<1>4. CASE HandlerStore
  <2>0. /\ Len(active) \in 1..Len(active) /\ Top \in Activation /\ Top.n \in Nat
        /\ Top = active[Len(active)] /\ Top.at = "store" /\ num' = Top.n + 1
    BY <1>4, TopFacts DEF HandlerStore, CountersOK
  <2>1. /\ pc' = pc /\ tmp' = tmp /\ overrun' = overrun
        /\ arrived' = arrived /\ sent' = sent
    BY <1>4 DEF HandlerStore, history
  <2>2. /\ active' \in Seq(Activation)
        /\ Len(active') = Len(active) - 1 /\ Len(active) > 0
        /\ \A i \in 1..(Len(active) - 1) : active'[i] = active[i]
    <3>1. active \in Seq(Activation) /\ Len(active) > 0
      BY <2>0 DEF CountersOK
    <3>2. active' = SubSeq(active, 1, Len(active) - 1)
      BY <1>4 DEF HandlerStore
    <3> QED
      BY <3>1, <3>2, FrontFacts
  <2>3. Top.n <= num
    BY <2>0 DEF Order
  <2>4. CountersOK' /\ Budget'
    <3>1. CountersOK'
      BY <2>0, <2>1, <2>2 DEF CountersOK
    <3>2. InHand' = InHand /\ InHand \in Nat
      BY <2>1 DEF InHand
    <3>3. /\ num \in Nat /\ sent \in Nat /\ arrived \in Nat /\ Len(active) \in Nat
          /\ num + sent + Len(active) + InHand <= arrived
      BY DEF CountersOK, Budget
    <3>4. num' <= num + 1 /\ num' \in Nat
      BY <2>0, <2>3, <3>3
    <3>5. num' + sent' + Len(active') + InHand' <= arrived'
      BY <2>1, <2>2, <3>2, <3>3, <3>4
    <3> QED
      BY <3>1, <3>5 DEF Budget
  <2>5. \A i \in 1..(Len(active) - 1) : active[i].at = "store" => active[i].n <= Top.n
    BY <2>0 DEF Order, CountersOK
  <2>6. pc = "store" => tmp <= Top.n
    BY <2>0 DEF Order, CountersOK
  <2>8. Order'
    <3> DEFINE k == Len(active) - 1
    <3>0. k \in Nat /\ Len(active') = k
      BY <2>2 DEF CountersOK
    <3>1. \A i \in 1..k : active'[i] = active[i] /\ active[i].n \in Nat /\ i \in 1..Len(active)
      <4>1. \A i \in 1..k : i \in 1..Len(active)
        BY DEF CountersOK
      <4>2. \A i \in 1..Len(active) : active[i].n \in Nat
        BY TopFacts DEF CountersOK
      <4> QED
        BY <2>2, <4>1, <4>2
    <3> HIDE DEF k
    <3>2. \A i \in 1..k : active'[i].at = "store" => active'[i].n <= num'
      <4>1. ASSUME NEW i \in 1..k, active'[i].at = "store" PROVE active'[i].n <= num'
        <5>1. active[i].at = "store" /\ active[i].n \in Nat /\ active'[i].n = active[i].n
          BY <3>1, <4>1
        <5>2. active[i].n <= Top.n
          BY <2>5, <5>1 DEF k
        <5> QED
          BY <2>0, <5>1, <5>2
      <4> QED
        BY <4>1
    <3>3. pc' = "store" => 0 < tmp' /\ tmp' <= num'
      BY <2>0, <2>1, <2>6 DEF Order, CountersOK
    <3>4. pc' = "store" => \A i \in 1..k : active'[i].at = "store" => tmp' <= active'[i].n
      BY <2>1, <3>1 DEF Order
    <3>5. \A i, j \in 1..k :
              (i < j /\ active'[i].at = "store" /\ active'[j].at = "store")
                  => active'[i].n <= active'[j].n
      BY <3>1 DEF Order
    <3>6. num' > 0
      BY <2>0
    <3> QED
      BY <3>0, <3>2, <3>3, <3>4, <3>5, <3>6 DEF Order
  <2>9. Indices'
    BY <2>1, <2>2 DEF CountersOK, Indices
  <2> QED
    BY <2>4, <2>8, <2>9
<1> QED
  BY <1>1, <1>2, <1>3, <1>4 DEF Handler

\* Steps of the thread itself: no handler is active.
LEMMA ThreadIInv ==
    ASSUME IInv,
           \/ VMM \/ CallRun \/ IoctlFails \/ GuestStep \/ Finished
           \/ \E addr \in 0..MaxSteps : ContinueAt(addr)
           \/ \E reason \in {"hypercall", "debug"} : KvmExit(reason)
    PROVE  IInv'
<1> USE DEF IInv, CountersOK, Budget, Order, Indices, InHand, OnThread, sigvars, history, Pcs, DeliverPcs
<1>1. CASE DeliverLoad
  BY <1>1 DEF DeliverLoad
<1>2. CASE DeliverStore
  BY <1>2 DEF DeliverStore
<1>3. CASE DeliverIndex
  BY <1>3 DEF DeliverIndex
<1>4. CASE DeliverSlot
  BY <1>4, SignalAssumption DEF DeliverSlot
<1>5. CASE DeliverNothing \/ DeliverSome
  BY <1>5 DEF DeliverNothing, DeliverSome
<1>6. CASE set_regs \/ ReturnEintr \/ get_regs \/ ExitGroup \/ StopLoop
  BY <1>6 DEF set_regs, ReturnEintr, get_regs, ExitGroup, StopLoop
<1>7. ASSUME NEW reg, handle_hypercall(reg) PROVE IInv'
  BY <1>7 DEF handle_hypercall
<1>8. CASE CallRun \/ IoctlFails \/ GuestStep
  BY <1>8 DEF CallRun, IoctlFails, GuestStep
<1>9. ASSUME NEW reason, KvmExit(reason) PROVE IInv'
  BY <1>9 DEF KvmExit
<1>10. CASE Finished
  BY <1>10 DEF Finished, vars
<1>11. ASSUME NEW addr, ContinueAt(addr) PROVE IInv'
  BY <1>11 DEF ContinueAt
<1> QED
  BY <1>1, <1>2, <1>3, <1>4, <1>5, <1>6, <1>7, <1>8, <1>9, <1>10, <1>11 DEF VMM, signal_deliver

\* Every step of the thread and of its handlers keeps the invariant.
LEMMA NextIInv == IInv /\ [Next]_vars => IInv'
<1> SUFFICES ASSUME IInv, [Next]_vars PROVE IInv'
  OBVIOUS
<1>1. CASE UNCHANGED vars
  BY <1>1 DEF vars, sigvars, history, IInv, CountersOK, Budget, Order, Indices, InHand
<1>2. ASSUME NEW s \in Signals, Raise(s) PROVE IInv'
  BY <1>2, RaiseIInv
<1>3. CASE Handler
  BY <1>3, HandlerIInv
<1>4. CASE \/ VMM \/ CallRun \/ IoctlFails \/ GuestStep \/ Finished
           \/ \E addr \in 0..MaxSteps : ContinueAt(addr)
           \/ \E reason \in {"hypercall", "debug"} : KvmExit(reason)
  BY <1>4, ThreadIInv
<1> QED
  BY <1>1, <1>2, <1>3, <1>4 DEF Next

\* The strengthened invariant holds in every state of every run loop.
THEOREM Inductive == Spec => []IInv
BY InitIInv, NextIInv, PTL DEF Spec

\* Lost updates and nested handlers never make libelkvm send the guest more
\* signals than arrived.
THEOREM NoExtraDeliveryTheorem == Spec => []NoExtraDelivery
<1>1. IInv => NoExtraDelivery
  BY DEF IInv, CountersOK, Budget, InHand, NoExtraDelivery
<1> QED
  BY <1>1, Inductive, PTL

\* pending_signals is overrun only after more signals than it has entries.
THEOREM OverrunTheorem == Spec => []OverrunNeedsBacklog
<1>1. IInv => OverrunNeedsBacklog
  BY DEF IInv, Indices, OverrunNeedsBacklog
<1> QED
  BY <1>1, Inductive, PTL

--------------------------------------------------------------------------------
(***************************************************************************)
(* More about RunLoop for every set of signals, every capacity and every   *)
(* bound: its types, that the guest is put back only after an ioctl has    *)
(* causes, and that no signal is lost or doubled as long as none arrives   *)
(* in a window and the array is not overrun.                               *)
(*                                                                         *)
(* NoSignalLost speaks of the moments at which nothing is under way.  The  *)
(* argument is a ledger that also balances in between (Balanced): it books *)
(* a signal to its handler from its arrival until the handler has counted  *)
(* it, and to signal_deliver from the moment it is taken off the counter   *)
(* until it is passed on.                                                  *)
(***************************************************************************)
USE SignalAssumption
--------------------------------------------------------------------------------
(***************************************************************************)
(* Types, and the copy of the registers.                                   *)
(***************************************************************************)
\* Types of the rest of the state.
RestOK ==
    /\ exit \in {"none", "hypercall", "debug"}
    /\ regs \in Nat /\ kregs \in Nat
    /\ slots \in [0..(Capacity - 1) -> Numbers]
    /\ registered \subseteq Signals
    /\ raced \in BOOLEAN /\ causes \subseteq {"EINTR", "error", "addr"}
    /\ raised \in [Numbers -> Nat] /\ delivered \in [Numbers -> Nat]

\* Where the copy of the registers is not older than what KVM has.
Fresh == (causes = {} /\ pc \notin {"KVM_RUN", "eintr", "get_regs"}) => kregs <= regs

\* Nothing has been written when the VMM starts.
LEMMA InitRestOK == Init => RestOK
<1> SUFFICES ASSUME Init PROVE RestOK
  OBVIOUS
<1>1. slots \in [0..(Capacity - 1) -> Numbers]
  BY DEF Init, Numbers
<1>2. raised \in [Numbers -> Nat] /\ delivered \in [Numbers -> Nat]
  BY DEF Init
<1>3. /\ exit \in {"none", "hypercall", "debug"}
      /\ regs \in Nat /\ kregs \in Nat
      /\ registered \subseteq Signals /\ causes \subseteq {"EINTR", "error", "addr"}
  BY DEF Init
<1>4. raced \in BOOLEAN
  BY DEF Init
<1> QED
  BY <1>1, <1>2, <1>3, <1>4 DEF RestOK

\* Every step keeps the types of the state that IInv leaves out.
LEMMA StepRestOK == ASSUME IInv, RestOK, [Next]_vars PROVE RestOK'
<1> USE DEF RestOK, sigvars, history
<1>1. CASE UNCHANGED vars
  BY <1>1 DEF vars
<1>2. ASSUME NEW s \in Signals, Raise(s) PROVE RestOK'
  <2>1. raised' \in [Numbers -> Nat]
    <3>1. raised' = [raised EXCEPT ![s] = raised[s] + 1]
      BY <1>2 DEF Raise
    <3>2. s \in Numbers /\ raised \in [Numbers -> Nat]
      BY DEF Numbers
    <3>3. raised[s] + 1 \in Nat
      BY <3>2
    <3> HIDE DEF RestOK
    <3> QED
      BY <3>1, <3>2, <3>3
  <2>2. raced' \in BOOLEAN
    <3>1. raced' = (raced \/ InWindow)
      BY <1>2 DEF Raise
    <3> QED
      BY <3>1, Zenon
  <2>3. UNCHANGED <<exit, regs, kregs, causes, slots, registered, delivered>>
    BY <1>2 DEF Raise
  <2> QED
    BY <2>1, <2>2, <2>3
<1>3. CASE HandlerIndex \/ HandlerLoad \/ HandlerStore
  BY <1>3 DEF HandlerIndex, HandlerLoad, HandlerStore
<1>4. CASE HandlerPut
  <2>1. Top \in Activation /\ Top.n \in Nat
    BY <1>4, TopFacts DEF IInv, CountersOK, HandlerPut
  <2>2. Top.sig \in Numbers
    BY <2>1 DEF Activation, Numbers
  <2> QED
    BY <1>4, <2>1, <2>2 DEF HandlerPut
<1>5. CASE DeliverSlot
  BY <1>5 DEF DeliverSlot
<1>6. CASE DeliverNothing \/ DeliverSome \/ DeliverLoad \/ DeliverStore \/ DeliverIndex
  BY <1>6 DEF DeliverNothing, DeliverSome, DeliverLoad, DeliverStore, DeliverIndex
<1>7. CASE set_regs \/ ReturnEintr \/ get_regs \/ ExitGroup \/ StopLoop
  BY <1>7 DEF set_regs, ReturnEintr, get_regs, ExitGroup, StopLoop
<1>8. ASSUME NEW reg \in SUBSET Signals, handle_hypercall(reg) PROVE RestOK'
  BY <1>8 DEF handle_hypercall
<1>9. CASE CallRun
  BY <1>9 DEF CallRun
<1>13. CASE GuestStep
  <2>1. kregs' \in Nat
    BY <1>13 DEF GuestStep
  <2> QED
    BY <1>13, <2>1 DEF GuestStep
<1>12. CASE IoctlFails
  BY <1>12 DEF IoctlFails
<1>14. ASSUME NEW addr \in 0..MaxSteps, ContinueAt(addr) PROVE RestOK'
  BY <1>14 DEF ContinueAt
<1>10. ASSUME NEW reason \in {"hypercall", "debug"}, KvmExit(reason) PROVE RestOK'
  BY <1>10 DEF KvmExit
<1>11. CASE Finished
  BY <1>11 DEF Finished, vars
<1> QED
  BY <1>1, <1>2, <1>3, <1>4, <1>5, <1>6, <1>7, <1>8, <1>9, <1>10, <1>11, <1>12, <1>13,
     <1>14
  DEF Next, Handler, VMM, signal_deliver

\* Type correctness of the run loop.
THEOREM TypeCorrect == Spec => []TypeOK
<1>1. Init => RestOK
  BY InitRestOK
<1>2. RestOK /\ IInv /\ [Next]_vars => RestOK'
  BY StepRestOK
<1>3. IInv /\ RestOK => TypeOK
  BY DEF IInv, CountersOK, Activation, RestOK, TypeOK
<1> QED
  BY <1>1, <1>2, <1>3, Inductive, PTL DEF Spec

\* Only set_regs puts the guest back, and it finds a fresh copy unless an ioctl
\* has failed or the debugger has changed it.
LEMMA StepFresh ==
    ASSUME RestOK, Fresh, [Next]_vars
    PROVE  Fresh' /\ (kregs' < kregs => causes # {})
<1> DEFINE Goal == Fresh' /\ (kregs' < kregs => causes # {})
<1>0. regs \in Nat /\ kregs \in Nat /\ ~(kregs < kregs)
  BY DEF RestOK
<1>s. ASSUME regs' = regs, kregs' = kregs, causes' = causes,
             \/ pc \notin {"KVM_RUN", "eintr", "get_regs"}
             \/ pc' \in {"KVM_RUN", "eintr", "get_regs"}
      PROVE  Goal
  BY <1>0, <1>s DEF Fresh
<1>1. CASE UNCHANGED vars \/ Finished
  BY <1>1, <1>s DEF vars, Finished
<1>2. ASSUME NEW s \in Signals, Raise(s) PROVE Goal
  BY <1>2, <1>s DEF Raise
<1>3. CASE Handler
  BY <1>3, <1>s DEF Handler, HandlerIndex, HandlerPut, HandlerLoad, HandlerStore
<1>4. CASE signal_deliver
  BY <1>4, <1>s DEF signal_deliver, DeliverNothing, DeliverSome, DeliverLoad, DeliverStore,
                    DeliverIndex, DeliverSlot, OnThread
<1>5. CASE ExitGroup \/ StopLoop \/ CallRun
  BY <1>5, <1>s DEF ExitGroup, StopLoop, CallRun, OnThread
<1>6. ASSUME NEW reason, KvmExit(reason) PROVE Goal
  BY <1>6, <1>s DEF KvmExit
<1>7. CASE set_regs
  BY <1>7, <1>0 DEF set_regs, OnThread, Fresh
<1>8. CASE get_regs
  BY <1>8, <1>0 DEF get_regs, Fresh
<1>9. CASE ReturnEintr \/ IoctlFails
  <2>1. kregs' = kregs /\ causes' # {}
    BY <1>9 DEF ReturnEintr, IoctlFails
  <2> QED
    BY <2>1, <1>0 DEF Fresh
<1>10. CASE GuestStep
  BY <1>10, <1>0 DEF GuestStep, OnThread, Fresh
<1>11. ASSUME NEW reg, handle_hypercall(reg) PROVE Goal
  BY <1>11, <1>0 DEF handle_hypercall, OnThread, Fresh
<1>12. ASSUME NEW addr, ContinueAt(addr) PROVE Goal
  <2>1. kregs' = kregs /\ causes' # {}
    BY <1>12 DEF ContinueAt
  <2> QED
    BY <2>1, <1>0 DEF Fresh
<1> QED
  BY <1>1, <1>2, <1>3, <1>4, <1>5, <1>6, <1>7, <1>8, <1>9, <1>10, <1>11, <1>12 DEF Next, VMM

\* As long as no ioctl has causes, VM::run never puts the guest back to where it
\* was before, whatever signals and exits interrupt it.
THEOREM NoRollbackTheorem == Spec => NoRollback
<1>1. Init => RestOK /\ Fresh
  <2>1. Init => Fresh
    BY DEF Init, Fresh
  <2> QED
    BY <2>1, InitRestOK
<1>2. RestOK /\ IInv /\ [Next]_vars => RestOK'
  BY StepRestOK
<1>3. RestOK /\ Fresh /\ [Next]_vars => Fresh'
  BY StepFresh
<1>4. RestOK /\ Fresh /\ [Next]_vars => [kregs' < kregs => causes # {}]_vars
  BY StepFresh
<1> QED
  BY <1>1, <1>2, <1>3, <1>4, Inductive, PTL DEF Spec, NoRollback
--------------------------------------------------------------------------------
(***************************************************************************)
(* The ledger of the signals.                                              *)
(***************************************************************************)
\* Copies of signal s among the first n entries of the array sl.
Waiting(n, sl, s) == Cardinality({i \in 0..(n - 1) : sl[i] = s})

\* A handler for s is active.
Handling(s) == IF \E i \in 1..Len(active) : active[i].sig = s THEN 1 ELSE 0

\* signal_deliver has taken s off the array.
Taken(s) == IF pc \in {"index", "slot"} /\ slots[num] = s THEN 1 ELSE 0

\* Where signal_deliver and the handlers are, when nothing has gone wrong.
Undisturbed ==
    /\ active # <<>> => pc \notin {"store", "index", "slot"}
    /\ \A i \in 1..(Len(active) - 1) : active[i].at = "index"
    /\ \A i, j \in 1..Len(active) : active[i].sig = active[j].sig => i = j

\* What they have read is what is there.
Current ==
    /\ num <= Capacity
    /\ pc \in {"store", "slot"} => tmp = num
    /\ pc \in {"index", "slot"} => num < Capacity
    /\ active # <<>> =>
           /\ Top.at \in {"put", "store"} => Top.n = num
           /\ Top.at \in {"load", "store"} => num < Capacity /\ slots[num] = Top.sig

\* Every signal that arrived is passed on, in the array, in its handler or in
\* the hands of signal_deliver.
Balanced ==
    \A s \in Numbers :
        raised[s] = delivered[s] + Waiting(num, slots, s) + Handling(s) + Taken(s)

Ledger == (~raced /\ ~overrun) => Undisturbed /\ Current /\ Balanced

\* Counting one more entry.
LEMMA WaitingNext ==
    ASSUME NEW n \in Nat, NEW sl, NEW s
    PROVE  /\ Waiting(n, sl, s) \in Nat
           /\ Waiting(n + 1, sl, s) = Waiting(n, sl, s) + (IF sl[n] = s THEN 1 ELSE 0)
<1> DEFINE S == {i \in 0..(n - 1) : sl[i] = s}
<1> DEFINE T == {i \in 0..((n + 1) - 1) : sl[i] = s}
<1>1. IsFiniteSet(0..(n - 1))
  BY FS_Interval
<1>2. IsFiniteSet(S)
  BY <1>1, FS_Subset
<1>3. Cardinality(S) \in Nat
  BY <1>2, FS_CardinalityType
<1>4. n \notin S
  OBVIOUS
<1>5. CASE sl[n] = s
  <2>1. T = S \cup {n}
    BY <1>5
  <2>2. Cardinality(S \cup {n}) = Cardinality(S) + 1
    BY <1>2, <1>4, FS_AddElement
  <2> QED
    BY <1>3, <1>5, <2>1, <2>2 DEF Waiting
<1>6. CASE sl[n] # s
  <2>1. T = S
    BY <1>6
  <2> QED
    BY <1>3, <1>6, <2>1 DEF Waiting
<1> QED
  BY <1>5, <1>6

\* Only the entries that count are seen.
LEMMA WaitingSame ==
    ASSUME NEW n \in Nat, NEW sl, NEW tl, \A i \in 0..(n - 1) : sl[i] = tl[i]
    PROVE  \A s : Waiting(n, sl, s) = Waiting(n, tl, s)
<1> SUFFICES ASSUME NEW s PROVE Waiting(n, sl, s) = Waiting(n, tl, s)
  OBVIOUS
<1>1. {i \in 0..(n - 1) : sl[i] = s} = {i \in 0..(n - 1) : tl[i] = s}
  OBVIOUS
<1> QED
  BY <1>1 DEF Waiting

\* What the counts of the ledger are.
LEMMA CountTypes ==
    ASSUME IInv, RestOK
    PROVE  \A s \in Numbers : /\ raised[s] \in Nat /\ delivered[s] \in Nat
                              /\ Waiting(num, slots, s) \in Nat
                              /\ Handling(s) \in {0, 1} /\ Taken(s) \in {0, 1}
<1>1. \A s : Waiting(num, slots, s) \in Nat
  BY WaitingNext DEF IInv, CountersOK
<1> QED
  BY <1>1 DEF RestOK, Handling, Taken

\* Steps of the thread that touch nothing the ledger is about.
LEMMA FrameLedger ==
    ASSUME Ledger, UNCHANGED <<num, slots, active, raised, delivered, raced, overrun>>,
           pc \notin {"store", "index", "slot"}, pc' \notin {"store", "index", "slot"}
    PROVE  Ledger'
<1> SUFFICES ASSUME ~raced, ~overrun PROVE (Undisturbed /\ Current /\ Balanced)'
  BY DEF Ledger
<1>1. Undisturbed /\ Current /\ Balanced
  BY DEF Ledger
<1>2. Undisturbed'
  BY <1>1 DEF Undisturbed
<1>3. Current'
  BY <1>1 DEF Current, Top
<1>4. \A s : Handling(s)' = Handling(s) /\ Taken(s)' = Taken(s) /\ Waiting(num', slots', s) = Waiting(num, slots, s)
  BY DEF Handling, Taken
<1>5. Balanced'
  BY <1>1, <1>4 DEF Balanced
<1> QED
  BY <1>2, <1>3, <1>5

\* A signal that arrives outside the windows is booked to its handler.
LEMMA RaiseLedger ==
    ASSUME IInv, RestOK, Ledger, NEW s \in Signals, Raise(s)
    PROVE  Ledger'
<1> SUFFICES ASSUME ~raced', ~overrun' PROVE (Undisturbed /\ Current /\ Balanced)'
  BY DEF Ledger
<1>0. ~raced /\ ~overrun /\ ~InWindow
  BY DEF Raise
<1>1. Undisturbed /\ Current /\ Balanced
  BY <1>0 DEF Ledger
<1>2. active \in Seq(Activation) /\ num \in Nat /\ pc \in Pcs
  BY DEF IInv, CountersOK
<1> DEFINE a == [sig |-> s, at |-> "index", n |-> 0]
<1>3. /\ active' = Append(active, a) /\ a.sig = s /\ a.at = "index"
      /\ \A i \in 1..Len(active) : active[i].sig # s
      /\ pc' = IF pc = "KVM_RUN" THEN "eintr" ELSE pc
      /\ num' = num /\ slots' = slots /\ tmp' = tmp /\ delivered' = delivered
      /\ raised' = [raised EXCEPT ![s] = @ + 1]
  BY <1>2 DEF Raise
<1>4. /\ Len(active') = Len(active) + 1 /\ Len(active) \in Nat /\ active' # <<>>
      /\ active'[Len(active) + 1] = a
      /\ \A i \in 1..Len(active) : active'[i] = active[i]
  BY <1>2, <1>3
<1>5. Top' = a
  BY <1>4 DEF Top
<1> HIDE DEF a
<1>6. pc \notin {"store", "index", "slot"}
  BY <1>0, <1>1 DEF InWindow, Undisturbed
<1>7. \A i \in 1..Len(active) : active[i].at = "index"
  <2>1. CASE active = <<>>
    BY <2>1
  <2>2. CASE active # <<>>
    <3>1. Top \in Activation /\ Top = active[Len(active)] /\ Len(active) \in Nat
      BY <1>2, <2>2, TopFacts
    <3>2. Top.at = "index"
      BY <1>0, <2>2, <3>1 DEF InWindow, Activation
    <3>3. \A i \in 1..Len(active) : i = Len(active) \/ i \in 1..(Len(active) - 1)
      BY <3>1
    <3> QED
      BY <1>1, <3>1, <3>2, <3>3 DEF Undisturbed
  <2> QED
    BY <2>1, <2>2
<1>8. Undisturbed'
  <2>1. pc' \notin {"store", "index", "slot"}
    BY <1>3, <1>6
  <2>2. \A i \in 1..(Len(active') - 1) : active'[i].at = "index"
    BY <1>4, <1>7
  <2>3. \A i, j \in 1..Len(active') : active'[i].sig = active'[j].sig => i = j
    <3>1. \A i \in 1..Len(active') : i = Len(active) + 1 \/ i \in 1..Len(active)
      BY <1>4
    <3> QED
      BY <1>1, <1>3, <1>4, <3>1 DEF Undisturbed
  <2> QED
    BY <2>1, <2>2, <2>3 DEF Undisturbed
<1>9. Current'
  BY <1>1, <1>3, <1>5, <1>6 DEF Current
<1>10. Balanced'
  <2> SUFFICES ASSUME NEW x \in Numbers
               PROVE  raised'[x] = delivered'[x] + Waiting(num', slots', x) + Handling(x)' + Taken(x)'
    BY DEF Balanced
  <2>1. Taken(x)' = 0 /\ Taken(x) = 0
    BY <1>3, <1>6 DEF Taken
  <2>2. raised[x] = delivered[x] + Waiting(num, slots, x) + Handling(x) + Taken(x)
    BY <1>1 DEF Balanced
  <2>3. /\ raised[x] \in Nat /\ delivered[x] \in Nat
        /\ Waiting(num, slots, x) \in Nat /\ Handling(x) \in {0, 1}
    BY CountTypes
  <2>4. CASE x = s
    <3>1. Handling(x) = 0
      BY <1>3, <2>4 DEF Handling
    <3>2. Handling(x)' = 1
      BY <1>3, <1>4, <2>4 DEF Handling
    <3>3. raised'[x] = raised[x] + 1
      BY <1>3, <2>4 DEF RestOK
    <3> QED
      BY <1>3, <2>1, <2>2, <2>3, <3>1, <3>2, <3>3
  <2>5. CASE x # s
    <3>1. (\E i \in 1..Len(active') : active'[i].sig = x) <=> \E i \in 1..Len(active) : active[i].sig = x
      <4>1. \A i \in 1..Len(active') : i = Len(active) + 1 \/ i \in 1..Len(active)
        BY <1>4
      <4>2. \A i \in 1..Len(active) : i \in 1..Len(active')
        BY <1>4
      <4> QED
        BY <1>3, <1>4, <2>5, <4>1, <4>2
    <3>2. Handling(x)' = Handling(x)
      BY <3>1 DEF Handling
    <3>3. raised'[x] = raised[x]
      BY <1>3, <2>5 DEF RestOK
    <3> QED
      BY <1>3, <2>1, <2>2, <2>3, <3>2, <3>3
  <2> QED
    BY <2>4, <2>5
<1> QED
  BY <1>8, <1>9, <1>10

\* An access of a handler leaves the handlers and their signals as they are.
LEMMA AdvanceLedger ==
    ASSUME IInv, Undisturbed, active # <<>>, pc' = pc,
           NEW at \in {"index", "put", "load", "store"}, NEW n \in Nat, Advance(at, n)
    PROVE  /\ Undisturbed'
           /\ active' # <<>> /\ Top'.at = at /\ Top'.n = n /\ Top'.sig = Top.sig
           /\ \A x : Handling(x)' = Handling(x)
<1>1. active \in Seq(Activation)
  BY DEF IInv, CountersOK
<1>2. /\ active' \in Seq(Activation)
      /\ Len(active') = Len(active) /\ Len(active) > 0
      /\ active'[Len(active)].at = at /\ active'[Len(active)].n = n
      /\ active'[Len(active)].sig = Top.sig
      /\ \A i \in 1..(Len(active) - 1) : active'[i] = active[i]
  BY <1>1, AdvanceFacts
<1>3. Len(active) \in Nat /\ \A i \in 1..Len(active) : i = Len(active) \/ i \in 1..(Len(active) - 1)
  BY <1>1
<1>4. \A i \in 1..Len(active) : active'[i].sig = active[i].sig
  BY <1>2, <1>3 DEF Top
<1>5. active' # <<>> /\ Top' = active'[Len(active)]
  BY <1>2 DEF Top
<1>6. Undisturbed'
  BY <1>2, <1>4 DEF Undisturbed
<1>7. \A x : Handling(x)' = Handling(x)
  BY <1>2, <1>4 DEF Handling
<1> QED
  BY <1>2, <1>5, <1>6, <1>7

\* The balance does not change when nothing it counts does.
LEMMA SameBalance ==
    ASSUME Balanced, raised' = raised, delivered' = delivered,
           \A s \in Numbers : /\ Waiting(num', slots', s) = Waiting(num, slots, s)
                              /\ Handling(s)' = Handling(s) /\ Taken(s)' = Taken(s)
    PROVE  Balanced'
  BY DEF Balanced

\* elkvm_signal_handler moves its signal from the handler to the array.
LEMMA HandlerLedger ==
    ASSUME IInv, RestOK, Ledger, Handler
    PROVE  Ledger'
<1> SUFFICES ASSUME ~raced', ~overrun' PROVE (Undisturbed /\ Current /\ Balanced)'
  BY DEF Ledger
<1>0. ~raced /\ ~overrun
  BY DEF Handler, HandlerIndex, HandlerPut, HandlerLoad, HandlerStore
<1>1. Undisturbed /\ Current /\ Balanced
  BY <1>0 DEF Ledger
<1>2. active \in Seq(Activation) /\ num \in Nat /\ active # <<>> /\ pc' = pc /\ tmp' = tmp
  BY DEF IInv, CountersOK, Handler, HandlerIndex, HandlerPut, HandlerLoad, HandlerStore
<1>3. pc \notin {"store", "index", "slot"}
  BY <1>1, <1>2 DEF Undisturbed
<1>4. Top \in Activation /\ Top.n \in Nat /\ Top = active[Len(active)] /\ Len(active) \in 1..Len(active)
  BY <1>2, TopFacts
<1>5. \A s : Taken(s) = 0 /\ Taken(s)' = 0
  BY <1>2, <1>3 DEF Taken
<1>h. raised' = raised /\ delivered' = delivered
  BY DEF Handler, HandlerIndex, HandlerPut, HandlerLoad, HandlerStore, history
<1>6. CASE HandlerIndex
  <2>1. Advance("put", num) /\ num' = num /\ slots' = slots
    BY <1>6 DEF HandlerIndex
  <2>2. /\ Undisturbed' /\ active' # <<>> /\ Top'.at = "put" /\ Top'.n = num
        /\ \A x : Handling(x)' = Handling(x)
    BY <1>1, <1>2, <2>1, AdvanceLedger
  <2>3. Current'
    BY <1>1, <1>2, <1>3, <2>1, <2>2 DEF Current
  <2>4. Balanced'
    BY <1>1, <1>5, <1>h, <2>1, <2>2, SameBalance
  <2> QED
    BY <2>2, <2>3, <2>4
<1>7. CASE HandlerPut
  <2>1. Advance("load", Top.n) /\ num' = num /\ Top.at = "put"
    BY <1>7 DEF HandlerPut
  <2>2. /\ Undisturbed' /\ active' # <<>> /\ Top'.at = "load" /\ Top'.sig = Top.sig
        /\ \A x : Handling(x)' = Handling(x)
    BY <1>1, <1>2, <1>4, <2>1, AdvanceLedger
  <2>3. Top.n = num
    BY <1>1, <1>2, <2>1 DEF Current
  <2>4. num < Capacity /\ slots' = [slots EXCEPT ![num] = Top.sig]
    BY <1>7, <2>3 DEF HandlerPut
  <2>5. num \in 0..(Capacity - 1) /\ slots \in [0..(Capacity - 1) -> Numbers]
    BY <1>2, <2>4 DEF RestOK
  <2>6. slots'[num] = Top.sig /\ \A i \in 0..(num - 1) : slots'[i] = slots[i]
    BY <2>4, <2>5
  <2>7. Current'
    BY <1>1, <1>2, <1>3, <2>1, <2>2, <2>4, <2>6 DEF Current
  <2>8. \A s : Waiting(num', slots', s) = Waiting(num, slots, s)
    BY <1>2, <2>1, <2>6, WaitingSame
  <2>9. Balanced'
    BY <1>1, <1>5, <1>h, <2>2, <2>8, SameBalance
  <2> QED
    BY <2>2, <2>7, <2>9
<1>8. CASE HandlerLoad
  <2>1. Advance("store", num) /\ num' = num /\ slots' = slots /\ Top.at = "load"
    BY <1>8 DEF HandlerLoad
  <2>2. /\ Undisturbed' /\ active' # <<>> /\ Top'.at = "store" /\ Top'.n = num /\ Top'.sig = Top.sig
        /\ \A x : Handling(x)' = Handling(x)
    BY <1>1, <1>2, <2>1, AdvanceLedger
  <2>3. Current'
    BY <1>1, <1>2, <1>3, <2>1, <2>2 DEF Current
  <2>4. Balanced'
    BY <1>1, <1>5, <1>h, <2>1, <2>2, SameBalance
  <2> QED
    BY <2>2, <2>3, <2>4
<1>9. CASE HandlerStore
  <2>1. /\ num' = Top.n + 1 /\ slots' = slots /\ Top.at = "store"
        /\ active' = SubSeq(active, 1, Len(active) - 1)
    BY <1>9 DEF HandlerStore
  <2>2. Top.n = num /\ num < Capacity /\ slots[num] = Top.sig
    BY <1>1, <1>2, <2>1 DEF Current
  <2>3. /\ active' \in Seq(Activation) /\ Len(active') = Len(active) - 1
        /\ \A i \in 1..(Len(active) - 1) : active'[i] = active[i]
    <3>1. Len(active) > 0
      BY <1>2, <1>4
    <3> QED
      BY <1>2, <2>1, <3>1, FrontFacts
  <2>4. /\ Len(active) \in Nat /\ Len(active) > 0
        /\ \A i \in 1..Len(active') : i \in 1..Len(active) /\ i # Len(active) /\ active'[i] = active[i]
    BY <1>2, <1>4, <2>3
  <2>5. Undisturbed'
    <3>1. \A i \in 1..(Len(active') - 1) : i \in 1..(Len(active) - 1) /\ active'[i] = active[i]
      BY <2>3, <2>4
    <3> QED
      BY <1>1, <1>2, <1>3, <2>4, <3>1 DEF Undisturbed
  <2>6. active' # <<>> => Top'.at = "index"
    <3> SUFFICES ASSUME active' # <<>> PROVE Top'.at = "index"
      OBVIOUS
    <3>1. Len(active') \in 1..Len(active') /\ Len(active') \in 1..(Len(active) - 1)
      BY <2>3, <2>4
    <3>2. Top' = active[Len(active')]
      BY <2>3, <3>1 DEF Top
    <3> QED
      BY <1>1, <3>1, <3>2 DEF Undisturbed
  <2>7. Current'
    BY <1>1, <1>2, <1>3, <2>1, <2>2, <2>6 DEF Current
  <2>8. Balanced'
    <3> SUFFICES ASSUME NEW x \in Numbers
                 PROVE  raised'[x] = delivered'[x] + Waiting(num', slots', x) + Handling(x)' + Taken(x)'
      BY DEF Balanced
    <3>1. raised[x] = delivered[x] + Waiting(num, slots, x) + Handling(x) + Taken(x)
      BY <1>1 DEF Balanced
    <3>2. /\ raised[x] \in Nat /\ delivered[x] \in Nat
          /\ Waiting(num, slots, x) \in Nat /\ Handling(x) \in {0, 1}
      BY CountTypes
    <3>3. Waiting(num', slots', x) = Waiting(num, slots, x) + (IF Top.sig = x THEN 1 ELSE 0)
      <4>1. num' = num + 1
        BY <2>1, <2>2
      <4>2. Waiting(num + 1, slots, x) = Waiting(num, slots, x) + (IF slots[num] = x THEN 1 ELSE 0)
        BY <1>2, WaitingNext
      <4> QED
        BY <2>1, <2>2, <4>1, <4>2
    <3>4. CASE x = Top.sig
      <4>1. Handling(x) = 1
        BY <1>4, <3>4 DEF Handling
      <4>2. Handling(x)' = 0
        BY <1>1, <1>4, <2>4, <3>4 DEF Handling, Undisturbed
      <4> QED
        BY <1>5, <1>h, <3>1, <3>2, <3>3, <3>4, <4>1, <4>2
    <3>5. CASE x # Top.sig
      <4>1. \A i \in 1..Len(active) : active[i].sig = x => i \in 1..Len(active')
        BY <1>4, <2>3, <2>4, <3>5
      <4>2. (\E i \in 1..Len(active') : active'[i].sig = x) <=> \E i \in 1..Len(active) : active[i].sig = x
        BY <2>4, <4>1
      <4>3. Handling(x)' = Handling(x)
        BY <4>2 DEF Handling
      <4> QED
        BY <1>5, <1>h, <3>1, <3>2, <3>3, <3>5, <4>3
    <3> QED
      BY <3>4, <3>5
  <2> QED
    BY <2>5, <2>7, <2>8
<1> QED
  BY <1>6, <1>7, <1>8, <1>9 DEF Handler

\* signal_deliver moves a signal from the array to its own hands and from there
\* to the guest.
LEMMA DeliverLedger ==
    ASSUME IInv, RestOK, Ledger, signal_deliver
    PROVE  Ledger'
<1>1. CASE DeliverNothing \/ DeliverSome
  BY <1>1, FrameLedger DEF DeliverNothing, DeliverSome, OnThread, sigvars, history
<1> SUFFICES ASSUME DeliverLoad \/ DeliverStore \/ DeliverIndex \/ DeliverSlot,
                    ~raced', ~overrun'
             PROVE  (Undisturbed /\ Current /\ Balanced)'
  BY <1>1 DEF signal_deliver, Ledger
<1>0. ~raced /\ ~overrun
  <2>1. CASE DeliverLoad \/ DeliverStore \/ DeliverIndex
    BY <2>1 DEF DeliverLoad, DeliverStore, DeliverIndex
  <2>2. CASE DeliverSlot
    <3>1. raced' = raced /\ overrun' = (overrun \/ tmp >= Capacity)
      BY <2>2 DEF DeliverSlot
    <3> QED
      BY <3>1, Zenon
  <2> QED
    BY <2>1, <2>2
<1>2. Undisturbed /\ Current /\ Balanced
  BY <1>0 DEF Ledger
<1>3. num \in Nat /\ tmp \in Nat
  BY DEF IInv, CountersOK
<1>4. active = <<>> /\ active' = <<>> /\ raised' = raised /\ slots' = slots
  BY DEF DeliverLoad, DeliverStore, DeliverIndex, DeliverSlot, OnThread, history
<1>5. Undisturbed'
  BY <1>4 DEF Undisturbed
<1>6. \A s : Handling(s)' = Handling(s)
  BY <1>4 DEF Handling
<1>7. CASE DeliverLoad
  <2>1. pc = "load" /\ pc' = "store" /\ tmp' = num /\ num' = num /\ delivered' = delivered
    BY <1>7 DEF DeliverLoad, OnThread, history
  <2>2. Current'
    BY <1>2, <1>4, <2>1 DEF Current
  <2>3. \A s : Taken(s)' = Taken(s)
    BY <2>1 DEF Taken
  <2> QED
    BY <1>2, <1>4, <1>5, <1>6, <2>1, <2>2, <2>3, SameBalance
<1>8. CASE DeliverStore
  <2>1. pc = "store" /\ pc' = "index" /\ num' = tmp - 1 /\ delivered' = delivered
    BY <1>8 DEF DeliverStore, OnThread, history
  <2>2. tmp = num /\ num > 0 /\ num <= Capacity
    BY <1>2, <1>3, <2>1 DEF Current, IInv, Order
  <2>3. num' \in Nat /\ num' + 1 = num /\ num' < Capacity
    BY <1>3, <2>1, <2>2
  <2>4. Current'
    BY <1>2, <1>4, <2>1, <2>3 DEF Current
  <2>5. Balanced'
    <3> SUFFICES ASSUME NEW x \in Numbers
                 PROVE  raised'[x] = delivered'[x] + Waiting(num', slots', x) + Handling(x)' + Taken(x)'
      BY DEF Balanced
    <3>1. raised[x] = delivered[x] + Waiting(num, slots, x) + Handling(x) + Taken(x)
      BY <1>2 DEF Balanced
    <3>2. /\ raised[x] \in Nat /\ delivered[x] \in Nat
          /\ Waiting(num, slots, x) \in Nat /\ Handling(x) \in {0, 1}
      BY CountTypes
    <3>3. /\ Waiting(num', slots, x) \in Nat
          /\ Waiting(num' + 1, slots, x) = Waiting(num', slots, x) + (IF slots[num'] = x THEN 1 ELSE 0)
      BY <2>3, WaitingNext
    <3>4. Taken(x) = 0 /\ Taken(x)' = IF slots[num'] = x THEN 1 ELSE 0
      BY <1>4, <2>1 DEF Taken
    <3> QED
      BY <1>4, <1>6, <2>1, <2>3, <3>1, <3>2, <3>3, <3>4
  <2> QED
    BY <1>5, <2>4, <2>5
<1>9. CASE DeliverIndex
  <2>1. pc = "index" /\ pc' = "slot" /\ tmp' = num /\ num' = num /\ delivered' = delivered
    BY <1>9 DEF DeliverIndex, OnThread, history
  <2>2. Current'
    BY <1>2, <1>4, <2>1 DEF Current
  <2>3. \A s : Taken(s)' = Taken(s)
    BY <1>4, <2>1 DEF Taken
  <2> QED
    BY <1>2, <1>4, <1>5, <1>6, <2>1, <2>2, <2>3, SameBalance
<1>10. CASE DeliverSlot
  <2>1. pc = "slot" /\ pc' = "set_regs" /\ num' = num
    BY <1>10 DEF DeliverSlot, OnThread
  <2>2. tmp = num /\ num < Capacity
    BY <1>2, <2>1 DEF Current
  <2>3. delivered' = [delivered EXCEPT ![slots[num]] = @ + 1] /\ slots[num] \in Numbers
    <3>1. PICK sig \in Numbers : /\ tmp < Capacity => sig = slots[tmp]
                                 /\ delivered' = [delivered EXCEPT ![sig] = @ + 1]
      BY <1>10 DEF DeliverSlot
    <3>2. sig = slots[num]
      BY <2>2, <3>1
    <3> QED
      BY <3>1, <3>2
  <2>4. Current'
    BY <1>2, <1>4, <2>1 DEF Current
  <2>5. Balanced'
    <3> SUFFICES ASSUME NEW x \in Numbers
                 PROVE  raised'[x] = delivered'[x] + Waiting(num', slots', x) + Handling(x)' + Taken(x)'
      BY DEF Balanced
    <3>1. raised[x] = delivered[x] + Waiting(num, slots, x) + Handling(x) + Taken(x)
      BY <1>2 DEF Balanced
    <3>2. /\ raised[x] \in Nat /\ delivered[x] \in Nat
          /\ Waiting(num, slots, x) \in Nat /\ Handling(x) \in {0, 1}
      BY CountTypes
    <3>3. Taken(x)' = 0 /\ Taken(x) = IF slots[num] = x THEN 1 ELSE 0
      BY <2>1 DEF Taken
    <3>4. delivered'[x] = delivered[x] + (IF slots[num] = x THEN 1 ELSE 0)
      <4>1. delivered \in [Numbers -> Nat]
        BY DEF RestOK
      <4>2. CASE slots[num] = x
        BY <2>3, <4>1, <4>2
      <4>3. CASE slots[num] # x
        BY <2>3, <3>2, <4>1, <4>3
      <4> QED
        BY <4>2, <4>3
    <3> QED
      BY <1>4, <1>6, <2>1, <3>1, <3>2, <3>3, <3>4
  <2> QED
    BY <1>5, <2>4, <2>5
<1> QED
  BY <1>7, <1>8, <1>9, <1>10

\* Every step keeps the ledger.
LEMMA StepLedger ==
    ASSUME IInv, RestOK, Ledger, [Next]_vars
    PROVE  Ledger'
<1>1. CASE UNCHANGED vars \/ Finished
  <2>1. UNCHANGED vars
    BY <1>1 DEF Finished
  <2>2. UNCHANGED <<pc, num, slots, tmp, active, raised, delivered, raced, overrun>>
    BY <2>1 DEF vars, sigvars, history
  <2>3. Undisturbed => Undisturbed'
    BY <2>2 DEF Undisturbed
  <2>4. Current => Current'
    BY <2>2 DEF Current, Top
  <2>5. Balanced => Balanced'
    BY <2>2 DEF Balanced, Handling, Taken
  <2> QED
    BY <2>2, <2>3, <2>4, <2>5 DEF Ledger
<1>2. ASSUME NEW s \in Signals, Raise(s) PROVE Ledger'
  BY <1>2, RaiseLedger
<1>3. CASE Handler
  BY <1>3, HandlerLedger
<1>4. CASE signal_deliver
  BY <1>4, DeliverLedger
<1>5. CASE \/ set_regs \/ ReturnEintr \/ get_regs \/ ExitGroup \/ StopLoop
           \/ CallRun \/ IoctlFails \/ GuestStep
           \/ \E addr \in 0..MaxSteps : ContinueAt(addr)
  <2>1. /\ UNCHANGED <<num, slots, active, raised, delivered, raced, overrun>>
        /\ pc \notin {"store", "index", "slot"} /\ pc' \notin {"store", "index", "slot"}
    BY <1>5 DEF set_regs, ReturnEintr, get_regs, ExitGroup, StopLoop, CallRun, ContinueAt,
                IoctlFails, GuestStep, OnThread, sigvars, history
  <2> QED
    BY <2>1, FrameLedger
<1>6. ASSUME NEW reg, handle_hypercall(reg) PROVE Ledger'
  <2>1. /\ UNCHANGED <<num, slots, active, raised, delivered, raced, overrun>>
        /\ pc \notin {"store", "index", "slot"} /\ pc' \notin {"store", "index", "slot"}
    BY <1>6 DEF handle_hypercall, OnThread, history
  <2> QED
    BY <2>1, FrameLedger
<1>7. ASSUME NEW reason, KvmExit(reason) PROVE Ledger'
  <2>1. /\ UNCHANGED <<num, slots, active, raised, delivered, raced, overrun>>
        /\ pc \notin {"store", "index", "slot"} /\ pc' \notin {"store", "index", "slot"}
    BY <1>7 DEF KvmExit, OnThread, sigvars, history
  <2> QED
    BY <2>1, FrameLedger
<1> QED
  BY <1>1, <1>2, <1>3, <1>4, <1>5, <1>6, <1>7 DEF Next, VMM

\* The ledger is empty when the VMM starts.
LEMMA InitLedger == Init => Ledger
<1> SUFFICES ASSUME Init PROVE Undisturbed /\ Current /\ Balanced
  BY DEF Ledger
<1>1. active = <<>> /\ Len(active) = 0 /\ num = 0 /\ pc = "idle"
  BY DEF Init
<1>2. Undisturbed /\ Current
  BY <1>1 DEF Undisturbed, Current
<1>3. \A s : Waiting(num, slots, s) = 0
  <2> SUFFICES ASSUME NEW s PROVE Waiting(num, slots, s) = 0
    OBVIOUS
  <2>1. {i \in 0..(num - 1) : slots[i] = s} = {}
    BY <1>1
  <2> QED
    BY <2>1, FS_EmptySet DEF Waiting
<1>4. \A s : Handling(s) = 0 /\ Taken(s) = 0
  BY <1>1 DEF Handling, Taken
<1>5. Balanced
  BY <1>3, <1>4 DEF Balanced, Init
<1> QED
  BY <1>2, <1>5

\* As long as no signal arrives in a window of the handler or of signal_deliver
\* and the array is not overrun, every signal that arrived is delivered once or
\* waits once, however many signals, nested handlers and hypercalls there are.
THEOREM NoSignalLostTheorem == Spec => []NoSignalLost
<1>1. Init => RestOK /\ Ledger
  BY InitRestOK, InitLedger
<1>2. RestOK /\ IInv /\ [Next]_vars => RestOK'
  BY StepRestOK
<1>3. RestOK /\ IInv /\ Ledger /\ [Next]_vars => Ledger'
  BY StepLedger
<1>4. RestOK /\ IInv /\ Ledger => NoSignalLost
  <2> SUFFICES ASSUME RestOK, IInv, Ledger, ~raced, ~overrun, Quiet, NEW s \in Numbers
               PROVE  raised[s] = delivered[s] + Waiting(num, slots, s)
    BY DEF NoSignalLost, Waiting
  <2>1. raised[s] = delivered[s] + Waiting(num, slots, s) + Handling(s) + Taken(s)
    BY DEF Ledger, Balanced
  <2>2. Handling(s) = 0 /\ Taken(s) = 0
    BY DEF Quiet, Handling, Taken
  <2>3. raised[s] \in Nat /\ delivered[s] \in Nat /\ Waiting(num, slots, s) \in Nat
    BY CountTypes
  <2> QED
    BY <2>1, <2>2, <2>3
<1> QED
  BY <1>1, <1>2, <1>3, <1>4, Inductive, PTL DEF Spec
===============================================================================
