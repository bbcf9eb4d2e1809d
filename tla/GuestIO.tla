--------------------------------- MODULE GuestIO ---------------------------------
(* The system calls of Syscalls together with read, write, readv and writev,    *)
(* whose buffer may lie in several regions.  The regions follow each other in   *)
(* the guest's memory; where they lie in the host's is the layout.  A call of a *)
(* handler is a step, and it may transfer less than it was asked to or fail.    *)
EXTENDS Syscalls

CONSTANTS
    GuestBase,  \* guest address of the first region
    Size,       \* bytes of a region
    Regions,    \* number of regions
    Layouts,    \* host addresses of the regions, functions on 1 .. Regions
    BufferSizes \* sizes of the buffers

ASSUME GuestIOConstants ==
    /\ GuestBase \in Nat \ {0} /\ Size \in Nat \ {0} /\ Regions \in Nat \ {0}
    /\ Layouts \subseteq [1 .. Regions -> Nat \ {0}]
    /\ \A l \in Layouts : \A i, j \in 1 .. Regions :
          i # j => l[i] + Size <= l[j] \/ l[j] + Size <= l[i]
    /\ BufferSizes \subseteq Nat

VARIABLES
    op,         \* history: the transfer in progress or just ended, or "none"
    busy,       \* whether it is in progress
    layout,
    buf_p,      \* the guest's buffer and its size
    count,
    mark,       \* where the loop is: mark_p of read, current_buf of write
    total,      \* bytes transferred by the parts that are done
    turn,       \* alternates with every call of a handler
    moved       \* history: the host addresses of the bytes transferred, in order

buffer == <<layout, buf_p, count>>
iovars == <<op, busy, layout, buf_p, count, mark, total, turn, moved>>
allvars == <<vars, iovars>>

NULL == 0
GuestEnd == GuestBase + Regions * Size
Transfers == {"read", "write", "readv", "writev"}

\* The pager's translation of an address of the guest.
get_host_p(g) ==
    IF GuestBase <= g /\ g < GuestEnd
    THEN layout[((g - GuestBase) \div Size) + 1] + ((g - GuestBase) % Size)
    ELSE NULL

\* Region::contains_address, for an address of the host.
contains_address(r, h) == layout[r] <= h /\ h < layout[r] + Size

\* RegionManager::find_region: the region of an address of the host, 0 for none.
find_region(h) == IF \E r \in 1 .. Regions : contains_address(r, h)
                  THEN CHOOSE r \in 1 .. Regions : contains_address(r, h) ELSE 0

same_region(h1, h2) == contains_address(find_region(h1), h2)

\* Region::space_after_address and what read computes with last_valid_address,
\* the address after the last one.
SpaceAfter(h) == layout[find_region(h)] + Size - h

HostRange(h, n) == [i \in 1 .. n |-> h + i - 1]

\* The buffer as the guest sees it.
GuestBytes(n) == [i \in 1 .. n |-> get_host_p(buf_p + i - 1)]

---------------------------------------------------------------------------
(* A transfer begins, and ends.                                                *)

\* The guest calls with a buffer that is mapped; a buffer of no bytes may start
\* anywhere in mapped memory.
Begin(o, l, p, n) ==
    /\ call = NoCall /\ o \in Handlers /\ p + n <= GuestEnd
    /\ op' = o /\ busy' = TRUE /\ layout' = l /\ buf_p' = p /\ count' = n
    /\ mark' = IF o = "write" THEN l[((p - GuestBase) \div Size) + 1] + ((p - GuestBase) % Size)
               ELSE p
    /\ total' = 0 /\ turn' = 0 /\ moved' = <<>>
    /\ Reached(o, <<>>, <<>>, NoAnswer)
    /\ UNCHANGED <<status, errno, rax, procvars, sigvars>>

\* No transfer: the values of a call that is over and forgotten.
NoTransfer(o, b, l, p, n, k, t, i, d) ==
    /\ o = "none" /\ b = FALSE /\ l = (CHOOSE x \in Layouts : TRUE) /\ p = GuestBase
    /\ n = 0 /\ k = 0 /\ t = 0 /\ i = 0 /\ d = <<>>

Forget == NoTransfer(op', busy', layout', buf_p', count', mark', total', turn', moved')

\* Without a handler the call is refused; a null pointer fails an assertion (the
\* buffer's, the vector's or that of an element of the vector), as does one
\* without a page in write, while read and the vectors use the null region, or
\* the null vector, it translates to.
Refused(o, p) ==
    /\ \/ o \notin Handlers /\ Return(-ENOSYS)
       \/ o \in Handlers /\ (p = "null" \/ o = "write") /\ Stop("aborted")
       \/ o \in Handlers /\ p = "bad" /\ o # "write" /\ Stop("crashed")
    /\ call = NoCall /\ NoHostCall(o, <<p>>) /\ UNCHANGED iovars
    /\ UNCHANGED <<procvars, sigvars>>

\* What a step of a transfer leaves alone.
Elsewhere == UNCHANGED <<op, buffer, call, limits, hostLimits, sigvars>>

\* The transfer ends with v for the guest, after the host's call left errno e.
Finish(v) == Return(v) /\ busy' = FALSE
GoOn == UNCHANGED <<busy, rax, status>>
Fails(V(_)) == \E e \in HostErrnos :
                 errno' = e /\ Finish(V(e)) /\ UNCHANGED <<moved, mark, total>>

Halt(how) ==
    /\ Stop(how) /\ busy' = FALSE
    /\ UNCHANGED <<errno, mark, total, turn, moved>> /\ Elsewhere

\* One call of the handler for bytes at h: it moves k of them.
Moves(h, k) == moved' = moved \o HostRange(h, k) /\ UNCHANGED errno

---------------------------------------------------------------------------
(* read                                                                        *)

bend == get_host_p(buf_p + count - 1)

InOneRegion == same_region(get_host_p(buf_p), bend)

\* The buffer lies in one region: one call, its result is the guest's.
ReadWhole ==
    /\ op = "read" /\ InOneRegion
    /\ \/ \E k \in 0 .. count : /\ Moves(get_host_p(buf_p), k) /\ Finish(k)
                                /\ UNCHANGED <<mark, total>>
       \/ Fails(LAMBDA e : -1)
    /\ turn' = 1 - turn /\ Elsewhere

\* The end must be an address at all, and a part but the first begins a region.
PartChecked == /\ bend # NULL
               /\ mark = buf_p \/ get_host_p(mark) = layout[find_region(get_host_p(mark))]

ReadAborts == op = "read" /\ ~InOneRegion /\ ~PartChecked /\ Halt("aborted")

PartSize(h) == IF SpaceAfter(h) > count - total THEN count - total ELSE SpaceAfter(h)

ReadPart_Bug ==
    /\ op = "read" /\ ~InOneRegion /\ PartChecked
    /\ LET begin == get_host_p(mark)
           n == PartSize(begin)
       IN \E k \in 0 .. n :
            /\ Moves(begin, k) /\ mark' = mark + n /\ total' = total + n
            /\ IF same_region(begin, bend) THEN Finish(total + n) ELSE GoOn
    /\ turn' = 1 - turn /\ Elsewhere

ReadPart_Bug2 ==
    /\ op = "read" /\ ~InOneRegion /\ bend # NULL
    /\ LET begin == get_host_p(mark) IN
       \E k \in 0 .. PartSize(begin) :
            /\ Moves(begin, k) /\ mark' = mark + k /\ total' = total + k
            /\ IF total + k = count THEN Finish(total + k) ELSE GoOn
    /\ turn' = 1 - turn /\ Elsewhere

\* The body of read's loop.  A part that fails returns errno, a short one ends
\* the call, the last one must leave nothing.
ReadPart ==
    /\ op = "read" /\ ~InOneRegion /\ PartChecked
    /\ LET begin == get_host_p(mark) IN
       \/ Fails(LAMBDA e : e)
       \/ \E k \in 0 .. PartSize(begin) :
            /\ Moves(begin, k)
            /\ IF k < PartSize(begin)
               THEN Finish(total + k) /\ UNCHANGED <<mark, total>>
               ELSE /\ mark' = mark + k /\ total' = total + k
                    /\ IF ~same_region(begin, bend) THEN GoOn
                       ELSE IF total + k = count THEN Finish(total + k)
                       ELSE Stop("aborted") /\ busy' = FALSE
    /\ turn' = 1 - turn /\ Elsewhere

elkvm_do_read == ReadWhole \/ ReadAborts \/ ReadPart

---------------------------------------------------------------------------
(* write                                                                       *)

\* write goes on with addresses of the host: current_buf + remaining_count stays
\* what it was, so the loop ends in the region of the host's address buf + count - 1.
WriteLast == get_host_p(buf_p) + count - 1

WriteNowhere == op = "write" /\ find_region(mark) = 0 /\ Halt("crashed")

WritePart_Bug(bytes, last) ==
    \/ Fails(LAMBDA e : -e)
    \/ \E k \in 0 .. bytes :
         /\ Moves(mark, k) /\ mark' = mark + k /\ total' = total + k
         /\ IF last THEN Finish(k) ELSE GoOn

\* A part that fails returns its error, whatever was written before; one that
\* writes nothing is tried again.
WritePart(bytes, last) ==
    \/ Fails(LAMBDA e : -e)
    \/ \E k \in 0 .. bytes :
         /\ Moves(mark, k) /\ mark' = mark + k /\ total' = total + k
         /\ IF last THEN Finish(total + k) ELSE GoOn

elkvm_do_write ==
    \/ WriteNowhere
    \/ /\ op = "write" /\ find_region(mark) # 0
       /\ IF contains_address(find_region(mark), WriteLast)
          THEN WritePart(count - total, TRUE)
          ELSE WritePart(SpaceAfter(mark), FALSE)
       /\ turn' = 1 - turn /\ Elsewhere

---------------------------------------------------------------------------
(* readv and writev                                                            *)

\* The base of each element is translated and the vector handed on; the handler's
\* result is the guest's.  The vector has one element here, whose base is mapped;
\* a base that is null fails an assertion as a null vector does, see Refused.
elkvm_get_host_iov == HostRange(get_host_p(buf_p), count)

elkvm_do_iov ==
    /\ op \in {"readv", "writev"}
    /\ \/ \E k \in 0 .. count : /\ moved' = SubSeq(elkvm_get_host_iov, 1, k) /\ Finish(k)
                                /\ UNCHANGED <<errno, mark, total>>
       \/ Fails(LAMBDA e : -1)
    /\ turn' = 1 - turn /\ Elsewhere

---------------------------------------------------------------------------
(* The system.                                                                 *)

Transfer == busy /\ (elkvm_do_read \/ elkvm_do_write \/ elkvm_do_iov)

\* One virtual CPU: the next call comes when the last one has returned.
Call ==
    /\ status = "running" /\ ~busy
    /\ \/ \E n \in GuestCalls : handle_syscall(n) /\ UNCHANGED iovars
       \/ \E o \in Transfers, p \in {"null", "bad"} : Refused(o, p)
       \/ GuestContinues /\ Forget
       \/ \E o \in Transfers, l \in Layouts, p \in GuestBase .. GuestEnd - 1,
             n \in BufferSizes : Begin(o, l, p, n)

IOInit == Init /\ NoTransfer(op, busy, layout, buf_p, count, mark, total, turn, moved)

IONext == Call \/ Transfer \/ (status # "running" /\ UNCHANGED allvars)

\* The monitor runs a transfer to its end: every step of it is a call of the
\* host that returns.
IOSpec == IOInit /\ [][IONext]_allvars /\ WF_allvars(Transfer)

---------------------------------------------------------------------------
(* Properties.                                                                 *)

\* Whether the regions follow each other in the host's memory too.
InHostOrder == \A i \in 1 .. Regions - 1 : layout[i + 1] = layout[i] + Size

\* At every moment the bytes moved so far are the first bytes of the guest's
\* buffer, in order, none skipped, repeated or taken from other memory, across
\* however many regions and partial transfers: for read in every layout, for the
\* others when the host's memory has the order of the guest's.
TransfersBuffer ==
    count > 0 /\ (op = "read" \/ InHostOrder) =>
        Len(moved) <= count /\ moved = GuestBytes(Len(moved))

\* A transfer that reports a number of bytes has moved that many; the error a
\* part of a read fails with is positive, too.
ReportsWhatMoved ==
    op # "none" /\ ~busy /\ status = "running" /\ rax >= 0 =>
        Len(moved) = rax \/ (op = "read" /\ ~InOneRegion /\ rax = errno)

\* A call the library implements, made with memory the guest has mapped, never
\* takes the monitor down: the functions that call their handler without a check
\* are all given one, and assertions are about pointers (in the three named here
\* about a number as well).  The transfers that do are the ones of no bytes and
\* the writes that leave the host's order.
WellFormedCallsReturn ==
    status \in {"aborted", "crashed"} =>
        \/ call.name \in {"hole", "invalid", "getrusage", "getrlimit", "sigaction"}
        \/ call.name \in default_handlers \ Handlers
        \/ \E i \in DOMAIN call.guest : call.guest[i] \in {"null", "bad"}
        \/ op # "none" /\ (count = 0 \/ (op = "write" /\ ~InHostOrder))

\* The host takes bytes of a write that it is offered again and again.
HostTakesBytes == SF_allvars(busy /\ elkvm_do_write /\ moved' # moved)

\* A transfer returns, however often it is given only part of what it asked for
\* and however often a part is nothing: provided that the host does not answer 0
\* to every one of the calls that write repeats, which checks for no end of them.
CallReturns == HostTakesBytes => (busy /\ count > 0 ~> ~busy)
================================================================================
