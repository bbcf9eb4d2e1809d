--------------------------------- MODULE GdbStub ---------------------------------
(* gdb_session: the loop that takes commands of a debugger, executes them and   *)
(* answers.  Characters that matter to the loop are kept: "$" and "#" around a  *)
(* packet, its checksum, "+" and "-", and the debugger's interrupt.  A command  *)
(* is its letter and, as history, its number; the text after the letter, where  *)
(* a plus (qSupported) could be taken for an acknowledgement when a repeat is   *)
(* read as one, is left out.  The connection is TCP: nothing                    *)
(* is lost or reordered, but a checksum may be wrong and the debugger, which is *)
(* modelled from the protocol, repeats what is not answered in time.            *)
EXTENDS Integers, Sequences

CONSTANTS
    Letters,        \* the commands the debugger uses
    MaxCommands,    \* bound: commands of a session
    MaxRetries,     \* bound: how often the debugger loses patience
    MaxBad          \* bound: packets with a wrong checksum

ASSUME GdbConstants ==
    /\ Letters \subseteq {"c", "s", "M", "m", "g", "?", "H", "q", "D", "k", "other"}
    /\ MaxCommands \in Nat /\ MaxRetries \in Nat /\ MaxBad \in Nat

VARIABLES
    toStub,     \* characters on their way to the stub
    toGdb,      \* acknowledgements and replies on their way to the debugger
    stub,       \* where gdb_session is
    buffer,     \* the command being read or executed
    control,    \* debug.control of the virtual CPU
    gdb,        \* where the debugger is
    n,          \* number of the current command
    letter,     \* and its letter
    executed,   \* history: the commands executed, in order
    answers,    \* history: for each command answered, the command of the reply
    retries,    \* history: times the debugger lost patience
    bad         \* history: wrong checksums

vars == <<toStub, toGdb, stub, buffer, control, gdb, n, letter, executed, answers, retries, bad>>
stubvars == <<stub, buffer, control, executed>>
gdbvars == <<gdb, n, letter, answers, retries, bad>>

Sum(c) == <<"sum", c>>
Plus == <<"+">>
Minus == <<"-">>
Dollar == <<"$">>
Hash == <<"#">>
Reply(c) == <<"reply", c>>

---------------------------------------------------------------------------
(* The stub.                                                                   *)

\* get_debug_char blocks until there is a character, and takes the first.
Available == {toStub[i] : i \in 1 .. Len(toStub)}
get_debug_char(ch) == ch = toStub[1] /\ toStub' = Tail(toStub)

\* get_command: everything before a packet is skipped.
SkipToPacket ==
    /\ stub = "hunt"
    /\ \E ch \in Available :
          get_debug_char(ch) /\ stub' = IF ch = Dollar THEN "read" ELSE "hunt"
    /\ buffer' = <<>>
    /\ UNCHANGED <<toGdb, control, executed, gdbvars>>

read_cmd_into_buffer ==
    /\ stub = "read"
    /\ \E ch \in Available :
          /\ get_debug_char(ch)
          /\ IF ch = Hash THEN stub' = "sum" /\ UNCHANGED buffer
             ELSE buffer' = Append(buffer, ch) /\ UNCHANGED stub
    /\ UNCHANGED <<toGdb, control, executed, gdbvars>>

validate_checksum_Bug ==
    /\ stub = "sum"
    /\ \E ch \in Available :
          /\ get_debug_char(ch)
          /\ IF ch = Sum(buffer[1]) THEN toGdb' = Append(toGdb, Plus) /\ stub' = "execute"
             ELSE stub' = "hunt" /\ UNCHANGED toGdb
    /\ UNCHANGED <<buffer, control, executed, gdbvars>>

\* get_command: a packet with the right checksum is acknowledged and executed.
\* Debuggers do not number their packets any more, so the echo of a number
\* (gdbstub.cc:321) is left out.
validate_checksum ==
    /\ stub = "sum"
    /\ \E ch \in Available :
          /\ get_debug_char(ch)
          /\ IF ch = Sum(buffer[1]) THEN toGdb' = Append(toGdb, Plus) /\ stub' = "execute"
             ELSE toGdb' = Append(toGdb, Minus) /\ stub' = "hunt"
    /\ UNCHANGED <<buffer, control, executed, gdbvars>>

\* The switch of debug_loop.  c and s run the guest, s with the debug control for
\* single steps, M turns the software breakpoints on; k, and M to an address that is
\* not mapped, fail an assertion.
debug_loop ==
    /\ stub = "execute"
    /\ executed' = Append(executed, buffer[1])
    /\ LET cmd == buffer[1][1] IN
       \/ cmd = "c" /\ stub' = "running" /\ UNCHANGED control
       \/ cmd = "s" /\ stub' = "running" /\ control' = control \cup {"enable", "singlestep"}
       \/ cmd = "M" /\ stub' = "reply" /\ control' = control \cup {"enable", "sw_bp"}
       \/ cmd \in {"M", "k"} /\ stub' = "aborted" /\ UNCHANGED control
       \/ cmd \notin {"c", "s", "M", "k"} /\ stub' = "reply" /\ UNCHANGED control
    /\ UNCHANGED <<toStub, toGdb, buffer, gdbvars>>

\* VM::run returns to handle_continue or handle_singlestep.
RunReturns ==
    /\ stub = "running" /\ stub' = "reply"
    /\ control' = IF buffer[1][1] = "s" THEN control \ {"singlestep"} ELSE control
    /\ UNCHANGED <<toStub, toGdb, buffer, executed, gdbvars>>

\* put_reply, the body of its loop up to the acknowledgement.
SendReply ==
    /\ stub = "reply" /\ stub' = "ack"
    /\ toGdb' = Append(toGdb, Reply(buffer[1]))
    /\ UNCHANGED <<toStub, buffer, control, executed, gdbvars>>

AwaitAck_Bug ==
    /\ stub = "ack"
    /\ stub' = IF buffer[1][1] = "D" THEN "detached" ELSE "hunt"
    /\ UNCHANGED <<toStub, toGdb, buffer, control, executed, gdbvars>>

\* Any character but a plus sends the reply again; D ends debug_loop.
AwaitAck ==
    /\ stub = "ack"
    /\ \E ch \in Available :
          /\ get_debug_char(ch)
          /\ stub' = IF ch # Plus THEN "reply"
                     ELSE IF buffer[1][1] = "D" THEN "detached" ELSE "hunt"
    /\ UNCHANGED <<toGdb, buffer, control, executed, gdbvars>>

Stub == SkipToPacket \/ read_cmd_into_buffer \/ validate_checksum \/ debug_loop
        \/ SendReply \/ AwaitAck

---------------------------------------------------------------------------
(* The debugger, external: it sends a packet, again until it is acknowledged,   *)
(* and waits for the reply, which it acknowledges.                              *)

Packet(c, sum) == <<Dollar, c, Hash, sum>>
Current == <<letter, n>>

Sent(s) == toStub' = toStub \o s

Command(l) ==
    /\ gdb = "idle" /\ n < MaxCommands
    /\ n' = n + 1 /\ letter' = l /\ gdb' = "sent"
    /\ \/ Sent(Packet(<<l, n + 1>>, Sum(<<l, n + 1>>))) /\ UNCHANGED bad
       \/ bad < MaxBad /\ bad' = bad + 1 /\ Sent(Packet(<<l, n + 1>>, Sum(<<"wrong", 0>>)))
    /\ UNCHANGED <<toGdb, answers, retries, stubvars>>

\* A reply that comes instead of an acknowledgement is an old one.
GetAck ==
    /\ gdb = "sent" /\ toGdb # <<>> /\ toGdb' = Tail(toGdb)
    /\ \/ Head(toGdb) = Plus /\ gdb' = "waiting" /\ UNCHANGED toStub
       \/ Head(toGdb) = Minus /\ Sent(Packet(Current, Sum(Current))) /\ UNCHANGED gdb
       \/ Head(toGdb)[1] = "reply" /\ Sent(<<Plus>>) /\ UNCHANGED gdb
    /\ UNCHANGED <<n, letter, answers, retries, bad, stubvars>>

GetReply ==
    /\ gdb = "waiting" /\ toGdb # <<>> /\ toGdb' = Tail(toGdb)
    /\ Head(toGdb)[1] = "reply"
    /\ Sent(<<Plus>>) /\ gdb' = "idle" /\ answers' = Append(answers, Head(toGdb)[2])
    /\ UNCHANGED <<n, letter, retries, bad, stubvars>>

\* It repeats a packet, asks for the reply again, or interrupts the guest.
LosePatience ==
    /\ retries < MaxRetries /\ retries' = retries + 1
    /\ \/ gdb = "sent" /\ Sent(Packet(Current, Sum(Current)))
       \/ gdb = "waiting" /\ letter # "c" /\ Sent(<<Minus>>)
       \/ gdb = "waiting" /\ letter = "c" /\ Sent(<<<<"interrupt">>>>)
    /\ UNCHANGED <<toGdb, gdb, n, letter, answers, bad, stubvars>>

Debugger == GetAck \/ GetReply

---------------------------------------------------------------------------
(* The system.                                                                 *)

Init ==
    /\ toStub = <<>> /\ toGdb = <<>> /\ stub = "hunt" /\ buffer = <<>> /\ control = {}
    /\ gdb = "idle" /\ n = 0 /\ letter = "?" /\ executed = <<>> /\ answers = <<>>
    /\ retries = 0 /\ bad = 0

Next == Stub \/ RunReturns \/ Debugger \/ (\E l \in Letters : Command(l)) \/ LosePatience

\* Both sides go on as long as they can; nobody has to give a command, and the
\* guest need not come to a breakpoint.
Spec == Init /\ [][Next]_vars /\ WF_vars(Stub) /\ WF_vars(Debugger)

---------------------------------------------------------------------------
(* Properties.                                                                 *)

\* While the debugger lost patience at most once, wherever that was, and whatever
\* checksums were wrong: every command was executed once, in order, and the reply
\* taken for the answer to a command is the answer to this command.
AnswersMatch ==
    retries <= 1 =>
        /\ \A i \in DOMAIN executed : executed[i][2] = i
        /\ \A i \in DOMAIN answers : answers[i][2] = i /\ i \in DOMAIN executed

\* A command is answered, unless the guest runs, or the debugger killed it or let
\* it go: neither side is left waiting for the other.
Answered ==
    gdb # "idle" ~> gdb = "idle" \/ stub \in {"running", "aborted", "detached"}
================================================================================
