------------------------------ MODULE MemoryPool ------------------------------
(***************************************************************************)
(* What an allocator of guest memory promises, with no free lists, size    *)
(* classes or objects: there is a pool of host bytes that only grows, and  *)
(* a set of extents of the pool that are held by users.  An extent is      *)
(* handed out only where nobody holds a byte, a holder may give one back   *)
(* or keep only some pieces of it, and nothing else ever changes.          *)
(* RegionManager is shown to implement this module.                        *)
(***************************************************************************)
EXTENDS Integers

VARIABLES
    pool,   \* the bytes of host memory the guest can be given
    held    \* the extents [base, size] in use

vars == <<pool, held>>

Extent == [base : Nat, size : Nat]

\* The bytes of an extent.
Bytes(e) == e.base..(e.base + e.size - 1)

Disjoint(e, f) == e.base + e.size <= f.base \/ f.base + f.size <= e.base

Init == pool = {} /\ held = {}

\* The pool may grow by any bytes; the new extent takes bytes nobody holds.
Acquire(e) ==
    /\ pool \subseteq pool'
    /\ e.size > 0
    /\ \A b \in Bytes(e) : b \in pool'
    /\ \A f \in held : Disjoint(e, f)
    /\ held' = held \cup {e}

Release(e) ==
    /\ held' = held \ {e}
    /\ UNCHANGED pool

\* e is replaced by disjoint pieces of itself.
Shrink(e, pieces) ==
    /\ \A p \in pieces : /\ p.size > 0
                         /\ e.base <= p.base
                         /\ p.base + p.size <= e.base + e.size
    /\ \A p, q \in pieces : p = q \/ Disjoint(p, q)
    /\ held' = (held \ {e}) \cup pieces
    /\ UNCHANGED pool

\* Stated with the extents of the next state as the bounded choices, so that
\* a checker can enumerate them.
Next ==
    \/ \E e \in held' : Acquire(e)
    \/ \E e \in held : Release(e)
    \/ \E e \in held : Shrink(e, held' \ held)

Spec == Init /\ [][Next]_vars
===============================================================================
