----------------------------- MODULE GdbStubProofs -----------------------------
(***************************************************************************)
(* Proof that the stub executes every command once and that the debugger   *)
(* takes the right reply for its answer, while it lost patience at most    *)
(* once.  The invariant is about the contents of the two channels: before  *)
(* the debugger lost patience there is one message under way, after that   *)
(* there are more, but only in an order that does no harm.                 *)
(***************************************************************************)
EXTENDS GdbStub, SequenceTheorems, TLAPS

k == Len(executed)

Commands == Letters \X Nat
NowCommands == {c \in Commands : c[2] = n}
OldCommands == {c \in Commands : c[2] # n}
LaterCommands == {c \in Commands : c[2] > n}

Interrupt == <<"interrupt">>
Sums == {Sum(c) : c \in Commands \cup {<<"wrong", 0>>}}
Chars == {Plus, Minus, Dollar, Hash, Interrupt} \cup Commands \cup Sums

Replies == {Reply(c) : c \in Commands}
OldReplies == {Reply(c) : c \in OldCommands}
LaterReplies == {Reply(c) : c \in {d \in Commands : d[2] > k}}
Items == {Plus, Minus} \cup Replies

---------------------------------------------------------------------------------
(***************************************************************************)
(* What is and what is not in a channel.                                   *)
(***************************************************************************)
None(s, A) == \A i \in 1..Len(s) : s[i] \notin A

NoneAfter(s, A, B) == \A i, j \in 1..Len(s) : (i < j /\ s[i] \in A) => s[j] \notin B

\* Everything in A is followed at once by something in B.
Followed(s, A, B) ==
    \A i \in 1..Len(s) : s[i] \in A => i + 1 <= Len(s) /\ s[i + 1] \in B

---------------------------------------------------------------------------------
(***************************************************************************)
(* The invariant.                                                          *)
(***************************************************************************)
\* The stub looks for a packet or reads one; it has executed a command and has yet
\* to see its reply acknowledged; it has stopped.
Open == stub \in {"hunt", "read", "sum"}
Closing == stub \in {"running", "reply", "ack"}
Dead == stub \in {"aborted", "detached"}

\* Whether the debugger's command has still to be accepted by the stub.
Asked == gdb = "sent" /\ n = k + 1 /\ stub # "execute"
Accepted == n = k + (IF stub = "execute" THEN 1 ELSE 0)

Types ==
    /\ toStub \in Seq(Chars) /\ toGdb \in Seq(Items)
    /\ stub = "execute" \/ Open \/ Closing \/ Dead
    /\ gdb \in {"idle", "sent", "waiting"} /\ n \in Nat
    /\ executed \in Seq(Commands) /\ answers \in Seq(Commands)
    /\ gdb # "idle" => letter \in Letters

\* Packets are complete, up to what the stub has read of the first one.
Format ==
    /\ Followed(toStub, {Dollar}, Commands) /\ Followed(toStub, Commands, {Hash})
    /\ Followed(toStub, {Hash}, Sums)
    /\ None(toStub, LaterCommands)
    /\ stub = "read" => /\ toStub # <<>>
                        /\ \/ buffer = <<>> /\ toStub[1] \in NowCommands
                           \/ buffer \in [1..1 -> NowCommands] /\ toStub[1] = Hash
    /\ stub = "sum" => toStub # <<>> /\ toStub[1] \in Sums /\ buffer \in [1..1 -> NowCommands]
    /\ stub = "execute" => buffer \in [1..1 -> NowCommands]
    /\ Closing => buffer \in [1..1 -> Commands] /\ buffer[1][2] = k

\* Commands are accepted, executed and answered in turn.
Turns ==
    /\ Asked \/ Accepted
    /\ gdb = "waiting" => Accepted
    /\ gdb = "idle" => n = k /\ stub # "execute"
    /\ stub \in {"read", "sum"} => Asked
    /\ Len(answers) = IF gdb = "idle" THEN n ELSE n - 1
    /\ \A i \in 1..k : executed[i][2] = i
    /\ \A i \in 1..Len(answers) : answers[i][2] = i

\* What the debugger is going to take for an acknowledgement and for a reply.
Backward ==
    /\ None(toGdb, LaterReplies)
    /\ Asked => None(toGdb, {Plus})
    /\ gdb = "sent" => NoneAfter(toGdb, {Plus}, OldReplies \cup {Plus, Minus})
    /\ gdb = "waiting" => None(toGdb, OldReplies \cup {Plus, Minus})
    /\ gdb = "idle" => None(toGdb, {Plus, Minus})

\* While the debugger is patient there is one message at a time.
LockStep ==
    IF Asked
    THEN \/ toGdb = <<Minus>> /\ stub = "hunt" /\ toStub = <<>>
         \/ \E c \in NowCommands, sum \in Sums :
               /\ toGdb = <<>>
               /\ \/ stub = "ack" /\ toStub = <<Plus, Dollar, c, Hash, sum>>
                  \/ stub = "hunt" /\ toStub = <<Dollar, c, Hash, sum>>
                  \/ stub = "read" /\ buffer = <<>> /\ toStub = <<c, Hash, sum>>
                  \/ stub = "read" /\ buffer # <<>> /\ toStub = <<Hash, sum>>
                  \/ stub = "sum" /\ toStub = <<sum>>
    ELSE \/ gdb = "sent" /\ toStub = <<>> /\ stub \in {"execute", "running", "reply"} /\ toGdb = <<Plus>>
         \/ gdb = "sent" /\ toStub = <<>> /\ stub = "ack" /\ \E r \in Replies : toGdb = <<Plus, r>>
         \/ gdb = "waiting" /\ toStub = <<>> /\ stub \in {"execute", "running", "reply"} /\ toGdb = <<>>
         \/ gdb = "waiting" /\ toStub = <<>> /\ stub = "ack" /\ \E r \in Replies : toGdb = <<r>>
         \/ gdb = "idle" /\ toStub = <<Plus>> /\ stub = "ack" /\ toGdb = <<>>
         \/ gdb = "idle" /\ toStub = <<>> /\ stub = "hunt" /\ toGdb = <<>>

\* A command that was accepted is not read again: what repeats it is taken for a
\* bad acknowledgement of the reply.
NotAgain ==
    /\ NoneAfter(toStub, {Plus}, Commands)
    /\ stub = "hunt" => None(toStub, Commands) /\ None(toGdb, {Minus})
    /\ None(toGdb, {Minus}) \/ None(toStub, {Plus})
    /\ NoneAfter(toGdb, Replies, {Minus})

\* A command is under way once: in a packet, in the buffer or asked for again.
InBuffer == stub = "sum" \/ (stub = "read" /\ buffer # <<>>)
Once ==
    /\ NoneAfter(toStub, NowCommands, NowCommands)
    /\ InBuffer => None(toStub, NowCommands)
    /\ None(toGdb, {Minus}) \/ (None(toStub, NowCommands) /\ ~InBuffer)
    /\ NoneAfter(toGdb, {Minus}, {Minus})

\* There is no acknowledgement but the one of the last reply.
NoStray ==
    /\ None(toGdb, Replies)
    /\ Open => None(toStub, {Plus})
    /\ Closing => /\ stub = "ack" /\ toStub # <<>> /\ toStub[1] = Plus
                  /\ NoneAfter(toStub, {Plus}, {Plus})

\* What the stub reads next is the command it has not accepted yet.
ReadNext ==
    /\ Open => None(toStub, OldCommands)
    /\ Closing => NoneAfter(toStub, {Plus}, OldCommands) /\ None(toGdb, {Minus})
    /\ Once \/ NoStray

Forward ==
    ~Dead => IF retries = 0 THEN LockStep ELSE IF Asked THEN ReadNext ELSE NotAgain

Orderly == Types /\ Format /\ Turns /\ Backward /\ Forward

GInv == retries \in Nat /\ (retries <= 1 => Orderly)
---------------------------------------------------------------------------------
(***************************************************************************)
(* Channels.                                                               *)
(***************************************************************************)
\* Taking the first character of a channel.
LEMMA TailOf ==
    ASSUME NEW S, NEW s \in Seq(S), s # <<>>
    PROVE  /\ Tail(s) \in Seq(S) /\ Len(s) \in Nat \ {0} /\ Len(Tail(s)) = Len(s) - 1
           /\ s[1] \in S /\ Head(s) = s[1]
           /\ \A i \in 1..Len(Tail(s)) : Tail(s)[i] = s[i + 1]
<1>1. Len(s) \in Nat /\ Len(s) # 0
  BY EmptySeq
<1> QED
  BY <1>1

\* What is nowhere in a channel is not in what is left of it, and the order of
\* what is left is the same.
LEMMA TakeFirst ==
    ASSUME NEW S, NEW s \in Seq(S), s # <<>>
    PROVE  /\ \A A : None(s, A) => None(Tail(s), A) /\ s[1] \notin A
           /\ \A A, B : NoneAfter(s, A, B) => /\ NoneAfter(Tail(s), A, B)
                                              /\ s[1] \in A => None(Tail(s), B)
           /\ \A A, B : Followed(s, A, B) => /\ Followed(Tail(s), A, B)
                                             /\ s[1] \in A => Tail(s) # <<>> /\ Tail(s)[1] \in B
<1>0. /\ Tail(s) \in Seq(S) /\ Len(s) \in Nat \ {0} /\ Len(Tail(s)) = Len(s) - 1
      /\ \A i \in 1..Len(Tail(s)) : Tail(s)[i] = s[i + 1]
  BY TailOf
<1>1. ASSUME NEW A, None(s, A) PROVE None(Tail(s), A) /\ s[1] \notin A
  BY <1>0, <1>1 DEF None
<1>2. ASSUME NEW A, NEW B, NoneAfter(s, A, B)
      PROVE  NoneAfter(Tail(s), A, B) /\ (s[1] \in A => None(Tail(s), B))
  BY <1>0, <1>2 DEF None, NoneAfter
<1>3. ASSUME NEW A, NEW B, Followed(s, A, B)
      PROVE  /\ Followed(Tail(s), A, B)
             /\ s[1] \in A => Tail(s) # <<>> /\ Tail(s)[1] \in B
  <2>1. Followed(Tail(s), A, B)
    BY <1>0, <1>3 DEF Followed
  <2>2. ASSUME s[1] \in A PROVE Tail(s) # <<>> /\ Tail(s)[1] \in B
    <3>1. 2 <= Len(s) /\ s[2] \in B
      BY <1>0, <1>3, <2>2 DEF Followed
    <3>2. 1 \in 1..Len(Tail(s))
      BY <3>1, <1>0
    <3>3. Tail(s)[1] = s[2]
      BY <3>2, <1>0
    <3>4. Len(<<>>) = 0 /\ Len(Tail(s)) # 0
      BY <3>2, <1>0
    <3>5. Tail(s) # <<>>
      BY <3>4
    <3> QED
      BY <3>1, <3>3, <3>5
  <2> QED
    BY <2>1, <2>2
<1> QED
  BY <1>1, <1>2, <1>3

\* Putting characters into a channel.
LEMMA PutLast ==
    ASSUME NEW S, NEW s \in Seq(S), NEW t \in Seq(S)
    PROVE  /\ s \o t \in Seq(S)
           /\ \A A : None(s \o t, A) <=> None(s, A) /\ None(t, A)
           /\ \A A, B : NoneAfter(s \o t, A, B)
                          <=> /\ NoneAfter(s, A, B) /\ NoneAfter(t, A, B)
                              /\ None(s, A) \/ None(t, B)
           /\ \A A, B : Followed(s, A, B) /\ Followed(t, A, B) => Followed(s \o t, A, B)
           /\ s # <<>> => s \o t # <<>> /\ (s \o t)[1] = s[1]
<1> DEFINE u == s \o t
<1>0. /\ u \in Seq(S) /\ Len(s) \in Nat /\ Len(t) \in Nat /\ Len(u) = Len(s) + Len(t)
      /\ \A i \in 1..Len(s) : u[i] = s[i]
      /\ \A i \in 1..Len(t) : u[Len(s) + i] = t[i]
      /\ \A i \in 1..Len(u) : i \notin 1..Len(s) => i - Len(s) \in 1..Len(t) /\ u[i] = t[i - Len(s)]
  OBVIOUS
<1> HIDE DEF u
<1>1. ASSUME NEW A PROVE None(u, A) <=> None(s, A) /\ None(t, A)
  <2>1. None(u, A) => None(s, A)
    BY <1>0 DEF None
  <2>2. ASSUME None(u, A), NEW i \in 1..Len(t) PROVE t[i] \notin A
    <3>1. Len(s) + i \in 1..Len(u)
      BY <1>0
    <3> QED
      BY <3>1, <1>0, <2>2 DEF None
  <2>3. ASSUME None(s, A), None(t, A), NEW i \in 1..Len(u) PROVE u[i] \notin A
    BY <1>0, <2>3 DEF None
  <2> QED
    BY <2>1, <2>2, <2>3 DEF None
<1>2. ASSUME NEW A, NEW B
      PROVE  NoneAfter(u, A, B) <=> /\ NoneAfter(s, A, B) /\ NoneAfter(t, A, B)
                                    /\ None(s, A) \/ None(t, B)
  <2>1. NoneAfter(u, A, B) => NoneAfter(s, A, B)
    BY <1>0 DEF NoneAfter
  <2>2. ASSUME NoneAfter(u, A, B), NEW i \in 1..Len(t), NEW j \in 1..Len(t), i < j, t[i] \in A
        PROVE  t[j] \notin B
    <3>1. Len(s) + i \in 1..Len(u) /\ Len(s) + j \in 1..Len(u) /\ Len(s) + i < Len(s) + j
      BY <1>0, <2>2
    <3> QED
      BY <3>1, <1>0, <2>2 DEF NoneAfter
  <2>3. ASSUME NoneAfter(u, A, B), NEW i \in 1..Len(s), NEW j \in 1..Len(t), s[i] \in A
        PROVE  t[j] \notin B
    <3>1. i \in 1..Len(u) /\ Len(s) + j \in 1..Len(u) /\ i < Len(s) + j
      BY <1>0
    <3> QED
      BY <3>1, <1>0, <2>3 DEF NoneAfter
  <2>4. ASSUME NoneAfter(s, A, B), NoneAfter(t, A, B), None(s, A) \/ None(t, B),
               NEW i \in 1..Len(u), NEW j \in 1..Len(u), i < j, u[i] \in A
        PROVE  u[j] \notin B
    <3>1. CASE j \in 1..Len(s)
      <4>1. i \in 1..Len(s) /\ s[i] \in A /\ u[j] = s[j]
        BY <3>1, <1>0, <2>4
      <4> QED
        BY <3>1, <4>1, <2>4 DEF NoneAfter
    <3>2. CASE i \in 1..Len(s) /\ j \notin 1..Len(s)
      BY <3>2, <1>0, <2>4 DEF None
    <3>3. CASE i \notin 1..Len(s)
      <4>1. i - Len(s) \in 1..Len(t) /\ j - Len(s) \in 1..Len(t) /\ i - Len(s) < j - Len(s)
        BY <3>3, <1>0, <2>4
      <4>2. u[i] = t[i - Len(s)] /\ u[j] = t[j - Len(s)]
        BY <3>3, <1>0, <2>4
      <4> QED
        BY <4>1, <4>2, <2>4 DEF NoneAfter
    <3> QED
      BY <3>1, <3>2, <3>3, <1>0, <2>4
  <2>5. NoneAfter(u, A, B) => NoneAfter(t, A, B)
    BY <2>2 DEF NoneAfter
  <2>6. NoneAfter(u, A, B) => None(s, A) \/ None(t, B)
    BY <2>3 DEF None
  <2>7. NoneAfter(s, A, B) /\ NoneAfter(t, A, B) /\ (None(s, A) \/ None(t, B)) => NoneAfter(u, A, B)
    BY <2>4 DEF NoneAfter
  <2> QED
    BY <2>1, <2>5, <2>6, <2>7
<1>3. ASSUME NEW A, NEW B, Followed(s, A, B), Followed(t, A, B), NEW i \in 1..Len(u), u[i] \in A
      PROVE  i + 1 <= Len(u) /\ u[i + 1] \in B
  <2>1. CASE i \in 1..Len(s)
    <3>0. s[i] \in A
      BY <2>1, <1>0, <1>3
    <3>1. i + 1 \in 1..Len(s) /\ s[i + 1] \in B
      BY <2>1, <3>0, <1>0, <1>3 DEF Followed
    <3> QED
      BY <3>1, <1>0
  <2>2. CASE i \notin 1..Len(s)
    <3> DEFINE j == i - Len(s)
    <3>1. j \in 1..Len(t) /\ t[j] \in A
      BY <2>2, <1>0, <1>3
    <3>2. j + 1 \in 1..Len(t) /\ t[j + 1] \in B
      BY <3>1, <1>0, <1>3 DEF Followed
    <3>3. Len(s) + (j + 1) = i + 1
      BY <1>0
    <3> QED
      BY <3>2, <3>3, <1>0
  <2> QED
    BY <2>1, <2>2
<1>4. s # <<>> => u # <<>> /\ u[1] = s[1]
  <2>1. s # <<>> => Len(s) # 0
    BY EmptySeq
  <2> QED
    BY <2>1, <1>0
<1> QED
  BY <1>0, <1>1, <1>2, <1>3, <1>4 DEF Followed, u

\* A channel that lacks some characters lacks some of these.
LEMMA Fewer ==
    ASSUME NEW s, NEW A, NEW B, NEW C, NEW D
    PROVE  /\ None(s, A) /\ C \subseteq A => None(s, C)
           /\ NoneAfter(s, A, B) /\ C \subseteq A /\ D \subseteq B => NoneAfter(s, C, D)
BY DEF None, NoneAfter

---------------------------------------------------------------------------------
(***************************************************************************)
(* Characters and packets.                                                 *)
(***************************************************************************)
\* The kinds of characters are told apart.
LEMMA Kinds ==
    /\ Plus # Minus /\ Plus # Dollar /\ Plus # Hash /\ Plus # Interrupt
    /\ Minus # Dollar /\ Minus # Hash /\ Dollar # Hash /\ Dollar # Interrupt /\ Hash # Interrupt
    /\ \A c \in Commands : c \notin {Plus, Minus, Dollar, Hash, Interrupt} /\ c \notin Sums
    /\ \A x \in Sums : x \notin {Plus, Minus, Dollar, Hash, Interrupt}
    /\ \A r \in Replies : r # Plus /\ r # Minus /\ r[1] = "reply" /\ r[2] \in Commands
    /\ Plus[1] # "reply" /\ Minus[1] # "reply"
<1>1. /\ Plus # Minus /\ Plus # Dollar /\ Plus # Hash /\ Plus # Interrupt
      /\ Minus # Dollar /\ Minus # Hash /\ Dollar # Hash /\ Dollar # Interrupt /\ Hash # Interrupt
      /\ Plus[1] # "reply" /\ Minus[1] # "reply"
  BY DEF Plus, Minus, Dollar, Hash, Interrupt
<1>2. ASSUME NEW c \in Commands
      PROVE  c \notin {Plus, Minus, Dollar, Hash, Interrupt} /\ c \notin Sums
  <2>1. c = <<c[1], c[2]>> /\ c[1] \in Letters
    BY DEF Commands
  <2>2. c[1] \notin {"+", "-", "$", "#", "interrupt", "sum"}
    BY <2>1, GdbConstants
  <2> QED
    BY <2>1, <2>2 DEF Plus, Minus, Dollar, Hash, Interrupt, Sums, Sum
<1>3. ASSUME NEW x \in Sums PROVE x \notin {Plus, Minus, Dollar, Hash, Interrupt}
  <2>1. x[1] = "sum"
    BY DEF Sums, Sum
  <2> QED
    BY <2>1 DEF Plus, Minus, Dollar, Hash, Interrupt
<1>4. ASSUME NEW r \in Replies PROVE r # Plus /\ r # Minus /\ r[1] = "reply" /\ r[2] \in Commands
  <2>1. r[1] = "reply" /\ r[2] \in Commands
    BY DEF Replies, Reply
  <2> QED
    BY <2>1 DEF Plus, Minus
<1> QED
  BY <1>1, <1>2, <1>3, <1>4

\* A channel of one character.
LEMMA OneChar ==
    ASSUME NEW S, NEW x \in S
    PROVE  /\ <<x>> \in Seq(S)
           /\ \A A : None(<<x>>, A) <=> x \notin A
           /\ \A A, B : NoneAfter(<<x>>, A, B)
           /\ \A A, B : x \notin A => Followed(<<x>>, A, B)
           /\ \A s \in Seq(S) : Append(s, x) = s \o <<x>>
<1>1. <<x>> \in Seq(S) /\ Len(<<x>>) = 1 /\ <<x>>[1] = x
  OBVIOUS
<1>2. \A A : None(<<x>>, A) <=> x \notin A
  BY <1>1 DEF None
<1>3. \A A, B : NoneAfter(<<x>>, A, B)
  BY <1>1 DEF NoneAfter
<1>4. \A A, B : x \notin A => Followed(<<x>>, A, B)
  BY <1>1 DEF Followed
<1>5. \A s \in Seq(S) : Append(s, x) = s \o <<x>>
  OBVIOUS
<1> QED
  BY <1>1, <1>2, <1>3, <1>4, <1>5

\* A packet is complete and has one command.
LEMMA PacketOf ==
    ASSUME NEW c \in Commands, NEW sum \in Sums
    PROVE  /\ Packet(c, sum) \in Seq(Chars)
           /\ \A A : A \subseteq Commands => (None(Packet(c, sum), A) <=> c \notin A)
           /\ \A A, B : A \subseteq Commands /\ B \subseteq Commands => NoneAfter(Packet(c, sum), A, B)
           /\ None(Packet(c, sum), {Plus})
           /\ \A B : NoneAfter(Packet(c, sum), {Plus}, B)
           /\ Followed(Packet(c, sum), {Dollar}, Commands)
           /\ Followed(Packet(c, sum), Commands, {Hash})
           /\ Followed(Packet(c, sum), {Hash}, Sums)
<1> DEFINE t == Packet(c, sum)
<1>1. /\ t \in Seq(Chars) /\ Len(t) = 4
      /\ t[1] = Dollar /\ t[2] = c /\ t[3] = Hash /\ t[4] = sum
  BY DEF Packet, Chars
<1>2. /\ Dollar \notin Commands /\ Hash \notin Commands /\ sum \notin Commands
      /\ Dollar # Hash /\ c # Hash /\ sum # Hash /\ c # Dollar /\ sum # Dollar
      /\ Dollar # Plus /\ Hash # Plus /\ sum # Plus /\ c # Plus
  BY Kinds
<1>3. 1..Len(t) = {1, 2, 3, 4}
  BY <1>1
<1> HIDE DEF t
<1>4. ASSUME NEW A, A \subseteq Commands PROVE None(t, A) <=> c \notin A
  BY <1>1, <1>2, <1>3, <1>4 DEF None
<1>5. ASSUME NEW A, NEW B, A \subseteq Commands, B \subseteq Commands PROVE NoneAfter(t, A, B)
  BY <1>1, <1>2, <1>3, <1>5 DEF NoneAfter
<1>6. None(t, {Plus}) /\ \A B : NoneAfter(t, {Plus}, B)
  BY <1>1, <1>2, <1>3 DEF None, NoneAfter
<1>7. Followed(t, {Dollar}, Commands)
  BY <1>1, <1>2, <1>3 DEF Followed
<1>8. Followed(t, Commands, {Hash})
  BY <1>1, <1>2, <1>3 DEF Followed
<1>9. Followed(t, {Hash}, Sums)
  BY <1>1, <1>2, <1>3 DEF Followed
<1> QED
  BY <1>1, <1>4, <1>5, <1>6, <1>7, <1>8, <1>9 DEF t

\* Putting one character into a channel.
LEMMA PutOne ==
    ASSUME NEW S, NEW s \in Seq(S), NEW x \in S
    PROVE  /\ Append(s, x) = s \o <<x>> /\ Append(s, x) \in Seq(S)
           /\ \A A : None(Append(s, x), A) <=> None(s, A) /\ x \notin A
           /\ \A A, B : NoneAfter(Append(s, x), A, B)
                          <=> NoneAfter(s, A, B) /\ (None(s, A) \/ x \notin B)
           /\ \A A, B : Followed(s, A, B) /\ x \notin A => Followed(Append(s, x), A, B)
           /\ Append(s, x) # <<>> /\ (s # <<>> => Append(s, x)[1] = s[1])
<1>1. /\ <<x>> \in Seq(S) /\ Append(s, x) = s \o <<x>>
      /\ \A A : None(<<x>>, A) <=> x \notin A
      /\ \A A, B : NoneAfter(<<x>>, A, B)
      /\ \A A, B : x \notin A => Followed(<<x>>, A, B)
  BY OneChar, Zenon
<1>2. /\ s \o <<x>> \in Seq(S)
      /\ \A A : None(s \o <<x>>, A) <=> None(s, A) /\ None(<<x>>, A)
      /\ \A A, B : NoneAfter(s \o <<x>>, A, B)
                     <=> /\ NoneAfter(s, A, B) /\ NoneAfter(<<x>>, A, B)
                         /\ None(s, A) \/ None(<<x>>, B)
      /\ \A A, B : Followed(s, A, B) /\ Followed(<<x>>, A, B) => Followed(s \o <<x>>, A, B)
      /\ s # <<>> => (s \o <<x>>)[1] = s[1]
  BY <1>1, PutLast, Zenon
<1>3. Append(s, x) # <<>>
  BY AppendProperties, Zenon
<1> QED
  BY <1>1, <1>2, <1>3, Zenon

\* Sending a packet.
LEMMA PutPacket ==
    ASSUME NEW s \in Seq(Chars), NEW c \in Commands, NEW sum \in Sums
    PROVE  /\ s \o Packet(c, sum) \in Seq(Chars)
           /\ \A A : A \subseteq Commands => (None(s \o Packet(c, sum), A) <=> None(s, A) /\ c \notin A)
           /\ None(s \o Packet(c, sum), {Plus}) <=> None(s, {Plus})
           /\ \A A, B : A \subseteq Commands /\ B \subseteq Commands =>
                 (NoneAfter(s \o Packet(c, sum), A, B)
                    <=> NoneAfter(s, A, B) /\ (None(s, A) \/ c \notin B))
           /\ \A B : B \subseteq Commands =>
                 (NoneAfter(s \o Packet(c, sum), {Plus}, B)
                    <=> NoneAfter(s, {Plus}, B) /\ (None(s, {Plus}) \/ c \notin B))
           /\ NoneAfter(s, {Plus}, {Plus}) => NoneAfter(s \o Packet(c, sum), {Plus}, {Plus})
           /\ Followed(s, {Dollar}, Commands) => Followed(s \o Packet(c, sum), {Dollar}, Commands)
           /\ Followed(s, Commands, {Hash}) => Followed(s \o Packet(c, sum), Commands, {Hash})
           /\ Followed(s, {Hash}, Sums) => Followed(s \o Packet(c, sum), {Hash}, Sums)
           /\ s # <<>> => s \o Packet(c, sum) # <<>> /\ (s \o Packet(c, sum))[1] = s[1]
<1> DEFINE t == Packet(c, sum)
<1>1. /\ t \in Seq(Chars)
      /\ \A A : A \subseteq Commands => (None(t, A) <=> c \notin A)
      /\ \A A, B : A \subseteq Commands /\ B \subseteq Commands => NoneAfter(t, A, B)
      /\ None(t, {Plus})
      /\ \A B : NoneAfter(t, {Plus}, B)
      /\ Followed(t, {Dollar}, Commands)
      /\ Followed(t, Commands, {Hash})
      /\ Followed(t, {Hash}, Sums)
  BY PacketOf, Zenon
<1> HIDE DEF t
<1>2. /\ s \o t \in Seq(Chars)
      /\ \A A : None(s \o t, A) <=> None(s, A) /\ None(t, A)
      /\ \A A, B : NoneAfter(s \o t, A, B)
                     <=> /\ NoneAfter(s, A, B) /\ NoneAfter(t, A, B)
                         /\ None(s, A) \/ None(t, B)
      /\ \A A, B : Followed(s, A, B) /\ Followed(t, A, B) => Followed(s \o t, A, B)
      /\ s # <<>> => s \o t # <<>> /\ (s \o t)[1] = s[1]
  BY <1>1, PutLast, Zenon
<1>3. \A A : A \subseteq Commands => (None(s \o t, A) <=> None(s, A) /\ c \notin A)
  BY <1>1, <1>2
<1>4. None(s \o t, {Plus}) <=> None(s, {Plus})
  BY <1>1, <1>2
<1>5. \A A, B : A \subseteq Commands /\ B \subseteq Commands =>
          (NoneAfter(s \o t, A, B) <=> NoneAfter(s, A, B) /\ (None(s, A) \/ c \notin B))
  BY <1>1, <1>2
<1>6. \A B : B \subseteq Commands =>
          (NoneAfter(s \o t, {Plus}, B) <=> NoneAfter(s, {Plus}, B) /\ (None(s, {Plus}) \/ c \notin B))
  BY <1>1, <1>2
<1>7. NoneAfter(s, {Plus}, {Plus}) => NoneAfter(s \o t, {Plus}, {Plus})
  BY <1>1, <1>2
<1>8. /\ Followed(s, {Dollar}, Commands) => Followed(s \o t, {Dollar}, Commands)
      /\ Followed(s, Commands, {Hash}) => Followed(s \o t, Commands, {Hash})
      /\ Followed(s, {Hash}, Sums) => Followed(s \o t, {Hash}, Sums)
  BY <1>1, <1>2
<1> QED
  BY <1>2, <1>3, <1>4, <1>5, <1>6, <1>7, <1>8 DEF t

\* Nothing is in an empty channel.
LEMMA Empty ==
    /\ \A A : None(<<>>, A)
    /\ \A A, B : NoneAfter(<<>>, A, B) /\ Followed(<<>>, A, B)
BY DEF None, NoneAfter, Followed

\* Channels with a few characters, without the first.
LEMMA ShortTails ==
    ASSUME NEW a, NEW b, NEW c, NEW d, NEW e
    PROVE  /\ Tail(<<a>>) = <<>> /\ Tail(<<a, b>>) = <<b>> /\ Tail(<<a, b, c>>) = <<b, c>>
           /\ Tail(<<a, b, c, d>>) = <<b, c, d>> /\ Tail(<<a, b, c, d, e>>) = <<b, c, d, e>>
OBVIOUS

\* Channels with a few characters, and one or a packet more.
LEMMA ShortAppends ==
    ASSUME NEW a, NEW b, NEW c, NEW sum
    PROVE  /\ Append(<<>>, a) = <<a>> /\ Append(<<a>>, b) = <<a, b>>
           /\ <<>> \o <<a>> = <<a>>
           /\ <<>> \o Packet(c, sum) = <<Dollar, c, Hash, sum>>
           /\ <<a>> \o Packet(c, sum) = <<a, Dollar, c, Hash, sum>>
<1>1. Append(<<>>, a) = <<a>>
  OBVIOUS
<1>2. Append(<<a>>, b) = <<a, b>>
  <2> DEFINE S == {a, b}
             u == Append(<<a>>, b)
             v == <<a, b>>
  <2>1. u \in Seq(S) /\ v \in Seq(S) /\ Len(u) = 2 /\ Len(v) = 2
    OBVIOUS
  <2>2. u[1] = a /\ u[2] = b /\ v[1] = a /\ v[2] = b
    OBVIOUS
  <2>3. \A i \in 1..2 : u[i] = v[i]
    <3>1. \A i \in 1..2 : i = 1 \/ i = 2
      OBVIOUS
    <3> QED
      BY <3>1, <2>2
  <2> HIDE DEF u, v, S
  <2>4. u = v
    BY <2>1, <2>3, SeqEqual
  <2> QED
    BY <2>4 DEF u, v
<1>3. <<>> \o <<a>> = <<a>>
  OBVIOUS
<1>4. <<>> \o Packet(c, sum) = <<Dollar, c, Hash, sum>>
  BY DEF Packet
<1>5. <<a>> \o Packet(c, sum) = <<a, Dollar, c, Hash, sum>>
  <2> DEFINE S == {a, Dollar, c, Hash, sum}
             u == <<a>> \o <<Dollar, c, Hash, sum>>
             v == <<a, Dollar, c, Hash, sum>>
  <2>1. u \in Seq(S) /\ v \in Seq(S) /\ Len(u) = 5 /\ Len(v) = 5
    OBVIOUS
  <2>2. /\ u[1] = a /\ u[2] = Dollar /\ u[3] = c /\ u[4] = Hash /\ u[5] = sum
        /\ v[1] = a /\ v[2] = Dollar /\ v[3] = c /\ v[4] = Hash /\ v[5] = sum
    OBVIOUS
  <2>3. \A i \in 1..5 : u[i] = v[i]
    <3>1. \A i \in 1..5 : i = 1 \/ i = 2 \/ i = 3 \/ i = 4 \/ i = 5
      OBVIOUS
    <3> QED
      BY <3>1, <2>2
  <2> HIDE DEF u, v, S
  <2>4. u = v
    BY <2>1, <2>3, SeqEqual
  <2> QED
    BY <2>4 DEF u, v, Packet
<1> QED
  BY <1>1, <1>2, <1>3, <1>4, <1>5

---------------------------------------------------------------------------------
(***************************************************************************)
(* The stub reads.                                                         *)
(***************************************************************************)
\* get_debug_char takes the first character there is.
LEMMA GotChar ==
    ASSUME NEW S, toStub \in Seq(S), NEW ch \in Available, get_debug_char(ch)
    PROVE  toStub # <<>> /\ ch = toStub[1] /\ toStub' = Tail(toStub)
BY DEF Available, get_debug_char

\* As long as no command is given or executed the commands of now stay the same.
LEMMA SameNumbers ==
    ASSUME n' = n
    PROVE  /\ NowCommands' = NowCommands /\ OldCommands' = OldCommands
           /\ LaterCommands' = LaterCommands /\ OldReplies' = OldReplies
           /\ executed' = executed => LaterReplies' = LaterReplies
           /\ NowCommands \subseteq Commands /\ OldCommands \subseteq Commands
           /\ NowCommands \cup OldCommands = Commands
           /\ OldReplies \subseteq Replies
BY DEF NowCommands, OldCommands, LaterCommands, OldReplies, LaterReplies, k, Replies

\* The packet the stub finds is the one of the command that is asked for.
LEMMA FoundPacket ==
    ASSUME Orderly, stub = "hunt", toStub # <<>>, toStub[1] = Dollar
    PROVE  Asked /\ Tail(toStub) # <<>> /\ Tail(toStub)[1] \in NowCommands
<1> USE DEF Orderly
<1>1. toStub \in Seq(Chars)
  BY DEF Types
<1>2. Tail(toStub) # <<>> /\ Tail(toStub)[1] \in Commands
  BY <1>1, TakeFirst, Zenon DEF Format
<1>3. Tail(toStub) \in Seq(Chars)
  BY <1>1, TailOf
<1>4. CASE retries = 0
  <2>1. LockStep
    BY <1>4 DEF Forward, Dead
  <2>2. Asked /\ \E c \in NowCommands, sum \in Sums : toStub = <<Dollar, c, Hash, sum>>
    BY <2>1 DEF LockStep
  <2>3. ASSUME NEW c \in NowCommands, NEW sum \in Sums, toStub = <<Dollar, c, Hash, sum>>
        PROVE  Tail(toStub)[1] = c
    BY <2>3
  <2> QED
    BY <2>2, <2>3, <1>2
<1>5. CASE retries # 0
  <2>1. IF Asked THEN ReadNext ELSE NotAgain
    BY <1>5 DEF Forward, Dead
  <2>2. ASSUME NEW A, None(toStub, A) PROVE Tail(toStub)[1] \notin A
    BY <1>1, <1>2, <1>3, <2>2, TakeFirst, Zenon
  <2>3. CASE Asked
    BY <2>1, <2>2, <2>3, <1>2 DEF ReadNext, Open, NowCommands, OldCommands
  <2>4. CASE ~Asked
    BY <2>1, <2>2, <2>4, <1>2 DEF NotAgain
  <2> QED
    BY <2>3, <2>4
<1> QED
  BY <1>4, <1>5

\* The stub skips a character, or finds a packet.
LEMMA SkipKeeps ==
    ASSUME Orderly, SkipToPacket, retries <= 1
    PROVE  Orderly'
<1>0. Types /\ Format /\ Turns /\ Backward /\ Forward
  BY DEF Orderly
<1>1. /\ stub = "hunt" /\ buffer' = <<>> /\ toGdb' = toGdb /\ executed' = executed
      /\ gdb' = gdb /\ n' = n /\ letter' = letter /\ answers' = answers /\ retries' = retries
      /\ toStub # <<>> /\ toStub' = Tail(toStub)
      /\ stub' = IF toStub[1] = Dollar THEN "read" ELSE "hunt"
  BY <1>0, GotChar DEF SkipToPacket, gdbvars, Types
<1>2. toStub \in Seq(Chars) /\ Tail(toStub) \in Seq(Chars)
  BY <1>0, <1>1, TailOf, Zenon DEF Types
<1>3. /\ NowCommands' = NowCommands /\ OldCommands' = OldCommands
      /\ LaterCommands' = LaterCommands /\ OldReplies' = OldReplies /\ LaterReplies' = LaterReplies
  BY <1>1, SameNumbers
<1>4. k' = k /\ Asked' = Asked /\ Accepted' = Accepted
  BY <1>1 DEF Asked, Accepted, k
<1>5. stub' = "read" => Asked /\ Tail(toStub) # <<>> /\ Tail(toStub)[1] \in NowCommands
  BY <1>1, FoundPacket
<1>6. Types'
  BY <1>0, <1>1, <1>2 DEF Types, Open
<1>7. Format'
  <2>1. /\ Followed(Tail(toStub), {Dollar}, Commands) /\ Followed(Tail(toStub), Commands, {Hash})
        /\ Followed(Tail(toStub), {Hash}, Sums) /\ None(Tail(toStub), LaterCommands)
    BY <1>0, <1>1, <1>2, TakeFirst, Zenon DEF Format
  <2> QED
    BY <2>1, <1>1, <1>3, <1>5 DEF Format, Closing
<1>8. Turns'
  BY <1>0, <1>1, <1>4, <1>5 DEF Turns, k
<1>9. Backward'
  BY <1>0, <1>1, <1>3, <1>4 DEF Backward
<1>10. Forward'
  <2>1. CASE retries = 0
    <3>1. /\ LockStep
      BY <1>0, <1>1, <2>1 DEF Forward, Dead
    <3>2. /\ Asked
          /\ \E c \in NowCommands, sum \in Sums : toGdb = <<>> /\ toStub = <<Dollar, c, Hash, sum>>
      BY <1>1, <3>1 DEF LockStep
    <3>3. \E c \in NowCommands, sum \in Sums : toGdb = <<>> /\ stub' = "read" /\ toStub' = <<c, Hash, sum>>
      BY <1>1, <3>2
    <3>4. LockStep'
      BY <3>2, <3>3, <1>1, <1>3, <1>4 DEF LockStep
    <3> QED
      BY <1>1, <2>1, <3>4 DEF Forward
  <2>2. CASE retries # 0
    <3>1. IF Asked THEN ReadNext ELSE NotAgain
      BY <1>0, <1>1, <2>2 DEF Forward, Dead
    <3>2. CASE Asked
      <4>1. None(Tail(toStub), OldCommands)
        BY <1>1, <1>2, <3>1, <3>2, TakeFirst, Zenon DEF ReadNext, Open
      <4>2. Once => Once'
        <5>1. SUFFICES ASSUME Once PROVE Once'
          OBVIOUS
        <5>2. NoneAfter(Tail(toStub), NowCommands, NowCommands)
          BY <1>1, <1>2, <5>1, TakeFirst, Zenon DEF Once
        <5>3. None(toStub, NowCommands) => None(Tail(toStub), NowCommands)
          BY <1>1, <1>2, TakeFirst, Zenon
        <5> QED
          BY <5>1, <5>2, <5>3, <1>1, <1>3 DEF Once, InBuffer
      <4>3. NoStray => NoStray'
        <5>1. None(toStub, {Plus}) => None(Tail(toStub), {Plus})
          BY <1>1, <1>2, TakeFirst, Zenon
        <5> QED
          BY <5>1, <1>1 DEF NoStray, Open, Closing
      <4>4. ReadNext'
        BY <4>1, <4>2, <4>3, <3>1, <3>2, <1>1, <1>3 DEF ReadNext, Open, Closing
      <4> QED
        BY <4>4, <3>2, <2>2, <1>1, <1>4 DEF Forward
    <3>3. CASE ~Asked
      <4>1. NoneAfter(Tail(toStub), {Plus}, Commands) /\ None(Tail(toStub), Commands)
        BY <1>1, <1>2, <3>1, <3>3, TakeFirst, Zenon DEF NotAgain
      <4>2. NotAgain'
        BY <4>1, <3>1, <3>3, <1>1 DEF NotAgain
      <4> QED
        BY <4>2, <3>3, <2>2, <1>1, <1>4 DEF Forward
    <3> QED
      BY <3>2, <3>3
  <2> QED
    BY <2>1, <2>2
<1> QED
  BY <1>6, <1>7, <1>8, <1>9, <1>10 DEF Orderly

\* What is left of the packets in the channel is complete.
LEMMA PacketsLeft ==
    ASSUME Types, Format, toStub # <<>>, toStub' = Tail(toStub), n' = n
    PROVE  /\ toStub \in Seq(Chars) /\ toStub' \in Seq(Chars)
           /\ Followed(toStub, {Dollar}, Commands)' /\ Followed(toStub, Commands, {Hash})'
           /\ Followed(toStub, {Hash}, Sums)' /\ None(toStub, LaterCommands)'
<1>1. toStub \in Seq(Chars) /\ Tail(toStub) \in Seq(Chars)
  BY TailOf, Zenon DEF Types
<1>2. /\ Followed(Tail(toStub), {Dollar}, Commands) /\ Followed(Tail(toStub), Commands, {Hash})
      /\ Followed(Tail(toStub), {Hash}, Sums) /\ None(Tail(toStub), LaterCommands)
  BY <1>1, TakeFirst, Zenon DEF Format
<1> QED
  BY <1>1, <1>2, SameNumbers

\* The stub reads the command or the character that ends it.
LEMMA ReadKeeps ==
    ASSUME Orderly, read_cmd_into_buffer, retries <= 1
    PROVE  Orderly'
<1>0. Types /\ Format /\ Turns /\ Backward /\ Forward
  BY DEF Orderly
<1>1. /\ stub = "read" /\ toGdb' = toGdb /\ executed' = executed
      /\ gdb' = gdb /\ n' = n /\ letter' = letter /\ answers' = answers /\ retries' = retries
      /\ toStub # <<>> /\ toStub' = Tail(toStub)
      /\ IF toStub[1] = Hash THEN stub' = "sum" /\ buffer' = buffer
         ELSE buffer' = Append(buffer, toStub[1]) /\ stub' = "read"
  BY <1>0, GotChar DEF read_cmd_into_buffer, gdbvars, Types
<1>2. /\ toStub \in Seq(Chars) /\ toStub' \in Seq(Chars)
      /\ Followed(toStub, {Dollar}, Commands)' /\ Followed(toStub, Commands, {Hash})'
      /\ Followed(toStub, {Hash}, Sums)' /\ None(toStub, LaterCommands)'
  BY <1>0, <1>1, PacketsLeft
<1>3. /\ NowCommands' = NowCommands /\ OldCommands' = OldCommands
      /\ OldReplies' = OldReplies /\ LaterReplies' = LaterReplies /\ NowCommands \subseteq Commands
  BY <1>1, SameNumbers
<1>4. k' = k /\ Asked' = Asked /\ Accepted' = Accepted /\ Asked
  BY <1>0, <1>1 DEF Asked, Accepted, k, Turns
<1>5. \/ /\ buffer = <<>> /\ toStub[1] \in NowCommands /\ stub' = "read"
         /\ buffer' = <<toStub[1]>> /\ toStub' # <<>> /\ toStub'[1] = Hash
      \/ /\ buffer \in [1..1 -> NowCommands] /\ toStub[1] = Hash /\ stub' = "sum"
         /\ buffer' = buffer /\ toStub' # <<>> /\ toStub'[1] \in Sums
  <2>1. CASE buffer = <<>> /\ toStub[1] \in NowCommands
    <3>1. toStub[1] # Hash /\ toStub[1] \in Commands
      BY <2>1, <1>3, Kinds
    <3>2. Tail(toStub) # <<>> /\ Tail(toStub)[1] \in {Hash}
      BY <3>1, <1>0, <1>1, <1>2, TakeFirst, Zenon DEF Format
    <3> QED
      BY <3>1, <3>2, <2>1, <1>1
  <2>2. CASE buffer \in [1..1 -> NowCommands] /\ toStub[1] = Hash
    <3>2. Tail(toStub) # <<>> /\ Tail(toStub)[1] \in Sums
      BY <2>2, <1>0, <1>1, <1>2, TakeFirst, Zenon DEF Format
    <3> QED
      BY <3>2, <2>2, <1>1
  <2> QED
    BY <2>1, <2>2, <1>0, <1>1 DEF Format
<1>6. Types'
  BY <1>0, <1>1, <1>2 DEF Types, Open
<1>7. Format'
  <2>1. \A x \in NowCommands : <<x>> \in [1..1 -> NowCommands]
    OBVIOUS
  <2> QED
    BY <2>1, <1>1, <1>2, <1>3, <1>5 DEF Format, Closing
<1>8. Turns'
  BY <1>0, <1>1, <1>4 DEF Turns, k
<1>9. Backward'
  BY <1>0, <1>1, <1>3, <1>4 DEF Backward
<1>10. Forward'
  <2>1. CASE retries = 0
    <3>1. LockStep
      BY <1>0, <1>1, <2>1 DEF Forward, Dead
    <3>2. PICK c \in NowCommands, sum \in Sums :
              /\ toGdb = <<>>
              /\ \/ buffer = <<>> /\ toStub = <<c, Hash, sum>>
                 \/ buffer # <<>> /\ toStub = <<Hash, sum>>
      BY <1>1, <1>4, <3>1 DEF LockStep
    <3>3. CASE buffer = <<>>
      <4>0. toStub = <<c, Hash, sum>>
        BY <3>2, <3>3
      <4>1. toStub[1] # Hash /\ toStub' = <<Hash, sum>>
        <5>1. toStub[1] = c /\ c # Hash
          BY <4>0, <1>3, Kinds
        <5> QED
          BY <4>0, <5>1, <1>1, ShortTails
      <4>2. stub' = "read" /\ buffer' # <<>>
        BY <4>1, <1>5
      <4> QED
        BY <4>1, <4>2, <3>2, <1>1, <1>3, <1>4, <2>1 DEF LockStep, Forward
    <3>4. CASE buffer # <<>>
      <4>1. stub' = "sum" /\ toStub' = <<sum>>
        <5>1. toStub = <<Hash, sum>> /\ toStub[1] = Hash
          BY <3>2, <3>4
        <5> QED
          BY <5>1, <1>1, ShortTails
      <4> QED
        BY <4>1, <3>2, <1>1, <1>3, <1>4, <2>1 DEF LockStep, Forward
    <3> QED
      BY <3>3, <3>4
  <2>2. CASE retries # 0
    <3>1. ReadNext
      BY <1>0, <1>1, <1>4, <2>2 DEF Forward, Dead
    <3>2. None(toStub', OldCommands)
      BY <1>1, <1>2, <3>1, TakeFirst, Zenon DEF ReadNext, Open
    <3>3. Once => Once'
      <4>1. SUFFICES ASSUME Once PROVE Once'
        OBVIOUS
      <4>2. NoneAfter(toStub', NowCommands, NowCommands)
        BY <1>1, <1>2, <4>1, TakeFirst, Zenon DEF Once
      <4>3. None(toStub, NowCommands) => None(toStub', NowCommands) /\ toStub[1] \notin NowCommands
        BY <1>1, <1>2, TakeFirst, Zenon
      <4>4. toStub[1] \in NowCommands => None(toStub', NowCommands)
        BY <1>1, <1>2, <4>1, TakeFirst, Zenon DEF Once
      <4>5. buffer # <<>> => InBuffer
        BY <1>1 DEF InBuffer
      <4>6. None(toStub', NowCommands)
        BY <4>1, <4>3, <4>4, <4>5, <1>5 DEF Once
      <4>7. None(toGdb, {Minus})
        BY <4>1, <4>3, <4>5, <1>5 DEF Once
      <4> QED
        BY <4>1, <4>2, <4>6, <4>7, <1>1, <1>3 DEF Once
    <3>4. NoStray => NoStray'
      <4>1. None(toStub, {Plus}) => None(toStub', {Plus})
        BY <1>1, <1>2, TakeFirst, Zenon
      <4> QED
        BY <4>1, <1>1 DEF NoStray, Open, Closing
    <3>5. ReadNext'
      BY <3>1, <3>2, <3>3, <3>4, <1>1, <1>3 DEF ReadNext, Open, Closing
    <3> QED
      BY <3>5, <2>2, <1>1, <1>4 DEF Forward
  <2> QED
    BY <2>1, <2>2
<1> QED
  BY <1>6, <1>7, <1>8, <1>9, <1>10 DEF Orderly

\* The stub accepts the packet, or asks for it again.
LEMMA ValidateKeeps ==
    ASSUME Orderly, validate_checksum, retries <= 1
    PROVE  Orderly'
<1>0. Types /\ Format /\ Turns /\ Backward /\ Forward
  BY DEF Orderly
<1>1. /\ stub = "sum" /\ buffer' = buffer /\ executed' = executed
      /\ gdb' = gdb /\ n' = n /\ letter' = letter /\ answers' = answers /\ retries' = retries
      /\ toStub # <<>> /\ toStub' = Tail(toStub)
      /\ \/ toGdb' = Append(toGdb, Plus) /\ stub' = "execute"
         \/ toGdb' = Append(toGdb, Minus) /\ stub' = "hunt"
  BY <1>0, GotChar DEF validate_checksum, gdbvars, Types
<1>2. /\ toStub \in Seq(Chars) /\ toStub' \in Seq(Chars)
      /\ Followed(toStub, {Dollar}, Commands)' /\ Followed(toStub, Commands, {Hash})'
      /\ Followed(toStub, {Hash}, Sums)' /\ None(toStub, LaterCommands)'
  BY <1>0, <1>1, PacketsLeft
<1>3. /\ NowCommands' = NowCommands /\ OldCommands' = OldCommands
      /\ OldReplies' = OldReplies /\ LaterReplies' = LaterReplies
      /\ OldReplies \subseteq Replies /\ LaterReplies \subseteq Replies
      /\ NowCommands \cup OldCommands = Commands
  BY <1>1, SameNumbers DEF LaterReplies, Replies
<1>4. /\ k' = k /\ Asked /\ gdb = "sent" /\ n = k + 1
      /\ stub' = "hunt" => Asked'
      /\ stub' = "execute" => ~Asked' /\ Accepted'
  BY <1>0, <1>1 DEF Asked, Accepted, k, Turns
<1>5. toGdb \in Seq(Items) /\ Plus \in Items /\ Minus \in Items
  BY <1>0 DEF Types, Items
<1>6. Types'
  <2>1. Append(toGdb, Plus) \in Seq(Items) /\ Append(toGdb, Minus) \in Seq(Items)
    BY <1>5
  <2> QED
    BY <2>1, <1>0, <1>1, <1>2 DEF Types, Open
<1>7. Format'
  BY <1>0, <1>1, <1>2, <1>3 DEF Format, Closing
<1>8. Turns'
  BY <1>0, <1>1, <1>4 DEF Turns, k
<1>9. Backward'
  <2>1. /\ None(toGdb, {Plus}) /\ None(toGdb, LaterReplies)
        /\ NoneAfter(toGdb, {Plus}, OldReplies \cup {Plus, Minus})
    BY <1>0, <1>4 DEF Backward
  <2>2. Plus \notin LaterReplies /\ Minus \notin LaterReplies /\ Minus \notin {Plus}
    BY <1>3, Kinds
  <2>3. ASSUME NEW x \in {Plus, Minus}, toGdb' = Append(toGdb, x)
        PROVE  /\ None(toGdb', LaterReplies)
               /\ NoneAfter(toGdb', {Plus}, OldReplies \cup {Plus, Minus})
               /\ x = Minus => None(toGdb', {Plus})
    <3>1. x \in Items /\ x \notin LaterReplies
      BY <1>5, <2>2
    <3>2. /\ \A A : None(Append(toGdb, x), A) <=> None(toGdb, A) /\ x \notin A
          /\ \A A, B : NoneAfter(Append(toGdb, x), A, B)
                         <=> NoneAfter(toGdb, A, B) /\ (None(toGdb, A) \/ x \notin B)
      BY <1>5, <3>1, PutOne, Zenon
    <3> QED
      BY <2>1, <2>2, <2>3, <3>1, <3>2
  <2> QED
    BY <2>3, <1>1, <1>3, <1>4 DEF Backward
<1>10. Forward'
  <2>1. CASE retries = 0
    <3>1. LockStep
      BY <1>0, <1>1, <2>1 DEF Forward, Dead
    <3>2. PICK sum \in Sums : toGdb = <<>> /\ toStub = <<sum>>
      BY <1>1, <1>4, <3>1 DEF LockStep
    <3>3. toStub' = <<>> /\ Append(toGdb, Plus) = <<Plus>> /\ Append(toGdb, Minus) = <<Minus>>
      BY <1>1, <3>2, ShortTails
    <3>4. LockStep'
      BY <3>3, <1>1, <1>4 DEF LockStep
    <3> QED
      BY <1>1, <2>1, <3>4 DEF Forward
  <2>2. CASE retries # 0
    <3>1. ReadNext
      BY <1>0, <1>1, <1>4, <2>2 DEF Forward, Dead
    <3>2. None(toStub', OldCommands)
      BY <1>1, <1>2, <3>1, TakeFirst, Zenon DEF ReadNext, Open
    <3>3. \A A : None(toStub, A) => None(toStub', A)
      BY <1>1, <1>2, TakeFirst, Zenon
    <3>4. \A A, B : NoneAfter(toStub, A, B) => NoneAfter(toStub', A, B)
      BY <1>1, <1>2, TakeFirst, Zenon
    <3>5. ASSUME NEW x \in {Plus, Minus}
          PROVE  /\ \A A : None(Append(toGdb, x), A) <=> None(toGdb, A) /\ x \notin A
                 /\ \A A, B : NoneAfter(Append(toGdb, x), A, B)
                                <=> NoneAfter(toGdb, A, B) /\ (None(toGdb, A) \/ x \notin B)
      <4>1. x \in Items
        BY <1>5
      <4> QED
        BY <4>1, <1>5, PutOne, Zenon
    <3>6. Once => None(toGdb, {Minus}) /\ None(toStub', NowCommands)
      BY <3>3, <1>1 DEF Once, InBuffer
    <3>7. NoStray => None(toGdb, Replies) /\ None(toStub', {Plus})
      BY <3>3, <1>1 DEF NoStray, Open
    <3>8. CASE stub' = "hunt"
      <4>0. toGdb' = Append(toGdb, Minus)
        BY <3>8, <1>1
      <4>1. Once => Once'
        <5>1. SUFFICES ASSUME Once PROVE Once'
          OBVIOUS
        <5>2. NoneAfter(toGdb', {Minus}, {Minus})
          <6>1. NoneAfter(toGdb, {Minus}, {Minus})
            BY <5>1 DEF Once
          <6> QED
            BY <6>1, <3>5, <3>6, <4>0, <5>1
        <5>3. NoneAfter(toStub', NowCommands, NowCommands)
          BY <3>4, <5>1 DEF Once
        <5> QED
          BY <5>1, <5>2, <5>3, <3>6, <3>8, <1>3 DEF Once, InBuffer
      <4>2. NoStray => NoStray'
        <5>1. Minus \notin Replies
          BY Kinds
        <5> QED
          BY <5>1, <3>5, <3>7, <3>8, <4>0 DEF NoStray, Closing
      <4>3. ReadNext'
        BY <4>1, <4>2, <3>1, <3>2, <3>8, <1>3 DEF ReadNext, Closing
      <4> QED
        BY <4>3, <3>8, <2>2, <1>1, <1>4 DEF Forward
    <3>9. CASE stub' = "execute"
      <4>0. toGdb' = Append(toGdb, Plus)
        BY <3>9, <1>1
      <4>1. CASE Once
        <5>1. None(toStub', Commands)
          BY <3>2, <3>6, <4>1, <1>3 DEF None
        <5>2. NoneAfter(toStub', {Plus}, Commands)
          BY <5>1 DEF None, NoneAfter
        <5>3. None(toGdb', {Minus})
          BY <3>5, <3>6, <4>0, <4>1, Kinds
        <5>4. NoneAfter(toGdb', Replies, {Minus})
          BY <5>3 DEF None, NoneAfter
        <5>5. NotAgain'
          BY <5>2, <5>3, <5>4, <3>9 DEF NotAgain
        <5> QED
          BY <5>5, <3>9, <2>2, <1>1, <1>4 DEF Forward
      <4>2. CASE NoStray
        <5>1. NoneAfter(toStub', {Plus}, Commands)
          BY <3>7, <4>2 DEF None, NoneAfter
        <5>2. None(toGdb', Replies)
          BY <3>5, <3>7, <4>0, <4>2, Kinds
        <5>3. NoneAfter(toGdb', Replies, {Minus})
          BY <5>2 DEF None, NoneAfter
        <5>4. NotAgain'
          BY <5>1, <5>3, <3>7, <4>2, <3>9 DEF NotAgain
        <5> QED
          BY <5>4, <3>9, <2>2, <1>1, <1>4 DEF Forward
      <4> QED
        BY <4>1, <4>2, <3>1 DEF ReadNext
    <3> QED
      BY <3>8, <3>9, <1>1
  <2> QED
    BY <2>1, <2>2
<1> QED
  BY <1>6, <1>7, <1>8, <1>9, <1>10 DEF Orderly

---------------------------------------------------------------------------------
(***************************************************************************)
(* The stub executes and answers.                                          *)
(***************************************************************************)
\* The stub executes the command in its buffer, which is the next one.
LEMMA ExecuteKeeps ==
    ASSUME Orderly, debug_loop, retries <= 1
    PROVE  Orderly'
<1>0. Types /\ Format /\ Turns /\ Backward /\ Forward
  BY DEF Orderly
<1>1. /\ stub = "execute" /\ stub' \in {"running", "reply", "aborted"}
      /\ buffer' = buffer /\ executed' = Append(executed, buffer[1])
      /\ toStub' = toStub /\ toGdb' = toGdb
      /\ gdb' = gdb /\ n' = n /\ letter' = letter /\ answers' = answers /\ retries' = retries
  BY DEF debug_loop, gdbvars
<1>2. /\ executed \in Seq(Commands) /\ buffer \in [1..1 -> NowCommands]
      /\ buffer[1] \in Commands /\ buffer[1][2] = n /\ n \in Nat
  BY <1>0, <1>1 DEF Types, Format, NowCommands
<1>3. /\ k \in Nat /\ k' = k + 1 /\ executed' \in Seq(Commands) /\ executed'[k + 1] = buffer[1]
      /\ \A i \in 1..k : executed'[i] = executed[i]
  BY <1>1, <1>2 DEF k
<1>4. ~Asked /\ Accepted /\ n = k + 1 /\ ~Asked' /\ Accepted'
  BY <1>0, <1>1, <1>3 DEF Asked, Accepted, Turns
<1>5. /\ NowCommands' = NowCommands /\ OldCommands' = OldCommands
      /\ LaterCommands' = LaterCommands /\ OldReplies' = OldReplies
  BY <1>1, SameNumbers
<1>6. LaterReplies' \subseteq LaterReplies
  BY <1>3 DEF LaterReplies, Commands
<1>7. Types'
  BY <1>0, <1>1, <1>3 DEF Types, Closing, Dead
<1>8. Format'
  <2>1. buffer \in [1..1 -> Commands]
    BY <1>2 DEF NowCommands
  <2> QED
    BY <2>1, <1>0, <1>1, <1>2, <1>3, <1>4, <1>5 DEF Format, Closing
<1>9. Turns'
  <2>1. \A i \in 1..k' : executed'[i][2] = i
    <3>1. ASSUME NEW i \in 1..k' PROVE executed'[i][2] = i
      <4>1. CASE i = k + 1
        BY <4>1, <1>2, <1>3, <1>4
      <4>2. CASE i # k + 1
        <5>1. i \in 1..k
          BY <4>2, <1>3
        <5> QED
          BY <5>1, <1>0, <1>3 DEF Turns
      <4> QED
        BY <4>1, <4>2
    <3> QED
      BY <3>1
  <2>2. gdb # "idle"
    BY <1>0, <1>1 DEF Turns
  <2> QED
    BY <2>1, <2>2, <1>0, <1>1, <1>4 DEF Turns
<1>10. Backward'
  <2>1. None(toGdb, LaterReplies')
    BY <1>0, <1>6, Fewer, Zenon DEF Backward
  <2> QED
    BY <2>1, <1>0, <1>1, <1>4, <1>5 DEF Backward
<1>11. Forward'
  <2>1. CASE retries = 0
    <3>1. LockStep
      BY <1>0, <1>1, <2>1 DEF Forward, Dead
    <3>2. stub' # "aborted" => LockStep'
      BY <3>1, <1>1, <1>4 DEF LockStep
    <3> QED
      BY <1>1, <2>1, <3>2 DEF Forward, Dead
  <2>2. CASE retries # 0
    <3>1. NotAgain
      BY <1>0, <1>1, <1>4, <2>2 DEF Forward, Dead
    <3>2. NotAgain'
      BY <3>1, <1>1 DEF NotAgain
    <3> QED
      BY <3>2, <2>2, <1>1, <1>4 DEF Forward
  <2> QED
    BY <2>1, <2>2
<1> QED
  BY <1>7, <1>8, <1>9, <1>10, <1>11 DEF Orderly

\* The guest stops, and its monitor returns to the stub.
LEMMA ReturnKeeps ==
    ASSUME Orderly, RunReturns, retries <= 1
    PROVE  Orderly'
<1>0. Types /\ Format /\ Turns /\ Backward /\ Forward
  BY DEF Orderly
<1>1. /\ stub = "running" /\ stub' = "reply" /\ buffer' = buffer /\ executed' = executed
      /\ toStub' = toStub /\ toGdb' = toGdb
      /\ gdb' = gdb /\ n' = n /\ letter' = letter /\ answers' = answers /\ retries' = retries
  BY DEF RunReturns, gdbvars
<1>2. k' = k /\ Asked' = Asked /\ Accepted' = Accepted
  BY <1>1 DEF Asked, Accepted, k
<1>3. /\ NowCommands' = NowCommands /\ OldCommands' = OldCommands
      /\ LaterCommands' = LaterCommands /\ OldReplies' = OldReplies /\ LaterReplies' = LaterReplies
  BY <1>1, SameNumbers
<1>4. Types' /\ Format'
  BY <1>0, <1>1, <1>2, <1>3 DEF Types, Format, Closing
<1>5. Turns' /\ Backward'
  BY <1>0, <1>1, <1>2, <1>3 DEF Turns, Backward, k
<1>6. Forward'
  <2>1. CASE retries = 0
    <3>1. LockStep
      BY <1>0, <1>1, <2>1 DEF Forward, Dead
    <3>2. LockStep'
      BY <3>1, <1>1, <1>2 DEF LockStep
    <3> QED
      BY <1>1, <2>1, <3>2 DEF Forward
  <2>2. CASE retries # 0
    <3>1. IF Asked THEN ReadNext ELSE NotAgain
      BY <1>0, <1>1, <2>2 DEF Forward, Dead
    <3>2. ReadNext => ReadNext'
      BY <1>1, <1>3 DEF ReadNext, Open, Closing, Once, InBuffer, NoStray
    <3>3. NotAgain => NotAgain'
      BY <1>1 DEF NotAgain
    <3> QED
      BY <3>1, <3>2, <3>3, <2>2, <1>1, <1>2 DEF Forward
  <2> QED
    BY <2>1, <2>2
<1> QED
  BY <1>4, <1>5, <1>6 DEF Orderly

\* The stub sends the reply to the command it executed.
LEMMA ReplyKeeps ==
    ASSUME Orderly, SendReply, retries <= 1
    PROVE  Orderly'
<1>0. Types /\ Format /\ Turns /\ Backward /\ Forward
  BY DEF Orderly
<1> DEFINE r == Reply(buffer[1])
<1>1. /\ stub = "reply" /\ stub' = "ack" /\ buffer' = buffer /\ executed' = executed
      /\ toStub' = toStub /\ toGdb' = Append(toGdb, r)
      /\ gdb' = gdb /\ n' = n /\ letter' = letter /\ answers' = answers /\ retries' = retries
  BY DEF SendReply, gdbvars
<1>2. k' = k /\ Asked' = Asked /\ Accepted' = Accepted /\ (Accepted => n = k)
  BY <1>1 DEF Asked, Accepted, k
<1>3. /\ NowCommands' = NowCommands /\ OldCommands' = OldCommands
      /\ LaterCommands' = LaterCommands /\ OldReplies' = OldReplies /\ LaterReplies' = LaterReplies
  BY <1>1, SameNumbers
<1>4. buffer[1] \in Commands /\ buffer[1][2] = k /\ k \in Nat
  BY <1>0, <1>1 DEF Format, Closing, k, Types
<1>5. /\ r \in Replies /\ r \in Items /\ r \notin {Plus, Minus}
      /\ r \notin LaterReplies /\ (n = k => r \notin OldReplies)
  <2>1. r \in Replies /\ r \in Items
    BY <1>4 DEF Replies, Items
  <2>2. r \notin {Plus, Minus}
    BY <2>1, Kinds
  <2>3. \A c \in Commands : Reply(c) = r => c = buffer[1]
    BY DEF Reply
  <2>4. r \notin LaterReplies
    BY <2>3, <1>4 DEF LaterReplies
  <2>5. n = k => r \notin OldReplies
    BY <2>3, <1>4 DEF OldReplies, OldCommands
  <2> QED
    BY <2>1, <2>2, <2>4, <2>5
<1> HIDE DEF r
<1>6. /\ toGdb' \in Seq(Items)
      /\ \A A : None(toGdb', A) <=> None(toGdb, A) /\ r \notin A
      /\ \A A, B : NoneAfter(toGdb', A, B) <=> NoneAfter(toGdb, A, B) /\ (None(toGdb, A) \/ r \notin B)
  <2>1. toGdb \in Seq(Items)
    BY <1>0 DEF Types
  <2> QED
    BY <2>1, <1>1, <1>5, PutOne, Zenon
<1>7. Types' /\ Format'
  BY <1>0, <1>1, <1>2, <1>3, <1>6 DEF Types, Format, Closing
<1>8. Turns'
  BY <1>0, <1>1, <1>2 DEF Turns, k
<1>9. Backward'
  <2>1. None(toGdb', LaterReplies)
    BY <1>0, <1>5, <1>6 DEF Backward
  <2>2. Asked => None(toGdb', {Plus})
    BY <1>0, <1>5, <1>6 DEF Backward
  <2>3. ~Asked => n = k
    BY <1>0, <1>2 DEF Turns
  <2>4. gdb = "sent" => NoneAfter(toGdb', {Plus}, OldReplies \cup {Plus, Minus})
    <3>1. None(toGdb, {Plus}) \/ r \notin OldReplies \cup {Plus, Minus}
      BY <1>0, <1>5, <2>3 DEF Backward
    <3> QED
      BY <3>1, <1>0, <1>6 DEF Backward
  <2>5. gdb = "waiting" => None(toGdb', OldReplies \cup {Plus, Minus})
    <3>1. gdb = "waiting" => r \notin OldReplies \cup {Plus, Minus}
      BY <1>0, <1>2, <1>5 DEF Turns
    <3> QED
      BY <3>1, <1>0, <1>6 DEF Backward
  <2>6. gdb = "idle" => None(toGdb', {Plus, Minus})
    BY <1>0, <1>5, <1>6 DEF Backward
  <2> QED
    BY <2>1, <2>2, <2>4, <2>5, <2>6, <1>1, <1>2, <1>3 DEF Backward
<1>10. Forward'
  <2>1. CASE retries = 0
    <3>1. LockStep
      BY <1>0, <1>1, <2>1 DEF Forward, Dead
    <3>2. /\ ~Asked /\ toStub = <<>>
          /\ (gdb = "sent" /\ toGdb = <<Plus>>) \/ (gdb = "waiting" /\ toGdb = <<>>)
      BY <3>1, <1>1 DEF LockStep
    <3>3. Append(<<Plus>>, r) = <<Plus, r>> /\ Append(<<>>, r) = <<r>>
      BY ShortAppends
    <3>4. LockStep'
      BY <3>2, <3>3, <1>1, <1>2, <1>5 DEF LockStep
    <3> QED
      BY <1>1, <2>1, <3>4 DEF Forward
  <2>2. CASE retries # 0
    <3>1. IF Asked THEN ReadNext ELSE NotAgain
      BY <1>0, <1>1, <2>2 DEF Forward, Dead
    <3>2. None(toGdb, {Minus}) <=> None(toGdb', {Minus})
      BY <1>5, <1>6
    <3>3. \A A : NoneAfter(toGdb, A, {Minus}) <=> NoneAfter(toGdb', A, {Minus})
      BY <1>5, <1>6
    <3>4. ReadNext => ReadNext'
      <4>1. SUFFICES ASSUME ReadNext PROVE ReadNext'
        OBVIOUS
      <4>2. Once
        BY <4>1, <1>1 DEF ReadNext, NoStray, Closing
      <4>3. Once'
        BY <4>2, <3>2, <3>3, <1>1, <1>3 DEF Once, InBuffer
      <4> QED
        BY <4>1, <4>3, <3>2, <1>1, <1>3 DEF ReadNext, Open, Closing
    <3>5. NotAgain => NotAgain'
      BY <3>2, <3>3, <1>1 DEF NotAgain
    <3> QED
      BY <3>1, <3>4, <3>5, <2>2, <1>1, <1>2 DEF Forward
  <2> QED
    BY <2>1, <2>2
<1> QED
  BY <1>7, <1>8, <1>9, <1>10 DEF Orderly

\* The stub takes an acknowledgement, or anything else for a reason to send the
\* reply again.
LEMMA AckKeeps ==
    ASSUME Orderly, AwaitAck, retries <= 1
    PROVE  Orderly'
<1>0. Types /\ Format /\ Turns /\ Backward /\ Forward
  BY DEF Orderly
<1>1. /\ stub = "ack" /\ buffer' = buffer /\ executed' = executed /\ toGdb' = toGdb
      /\ gdb' = gdb /\ n' = n /\ letter' = letter /\ answers' = answers /\ retries' = retries
      /\ toStub # <<>> /\ toStub' = Tail(toStub)
      /\ IF toStub[1] # Plus THEN stub' = "reply" ELSE stub' \in {"detached", "hunt"}
  BY <1>0, GotChar DEF AwaitAck, gdbvars, Types
<1>2. /\ toStub \in Seq(Chars) /\ toStub' \in Seq(Chars)
      /\ Followed(toStub, {Dollar}, Commands)' /\ Followed(toStub, Commands, {Hash})'
      /\ Followed(toStub, {Hash}, Sums)' /\ None(toStub, LaterCommands)'
  BY <1>0, <1>1, PacketsLeft
<1>3. /\ NowCommands' = NowCommands /\ OldCommands' = OldCommands
      /\ OldReplies' = OldReplies /\ LaterReplies' = LaterReplies
  BY <1>1, SameNumbers
<1>4. k' = k /\ Asked' = Asked /\ Accepted' = Accepted
  BY <1>1 DEF Asked, Accepted, k
<1>5. Types' /\ Format'
  BY <1>0, <1>1, <1>2, <1>3, <1>4 DEF Types, Format, Closing, Open, Dead
<1>6. Turns' /\ Backward'
  BY <1>0, <1>1, <1>3, <1>4 DEF Turns, Backward, k
<1>7. ~Dead' => Forward'
  <2>0. HAVE ~Dead'
  <2>1. stub' = IF toStub[1] # Plus THEN "reply" ELSE "hunt"
    BY <2>0, <1>1 DEF Dead
  <2>2. CASE retries = 0
    <3>1. LockStep
      BY <1>0, <1>1, <2>2 DEF Forward, Dead
    <3>2. CASE Asked
      <4>1. PICK c \in NowCommands, sum \in Sums : toGdb = <<>> /\ toStub = <<Plus, Dollar, c, Hash, sum>>
        BY <1>1, <3>1, <3>2 DEF LockStep
      <4>2. toStub[1] = Plus /\ toStub' = <<Dollar, c, Hash, sum>>
        BY <4>1, <1>1, ShortTails
      <4> QED
        BY <4>1, <4>2, <2>1, <2>2, <3>2, <1>1, <1>3, <1>4 DEF LockStep, Forward
    <3>3. CASE ~Asked
      <4>1. gdb = "idle" /\ toStub = <<Plus>> /\ toGdb = <<>>
        BY <1>1, <3>1, <3>3 DEF LockStep
      <4>2. toStub[1] = Plus /\ toStub' = <<>>
        BY <4>1, <1>1, ShortTails
      <4> QED
        BY <4>1, <4>2, <2>1, <2>2, <3>3, <1>1, <1>4 DEF LockStep, Forward
    <3> QED
      BY <3>2, <3>3
  <2>3. CASE retries # 0
    <3>1. IF Asked THEN ReadNext ELSE NotAgain
      BY <1>0, <1>1, <2>3 DEF Forward, Dead
    <3>2. /\ \A A : None(toStub, A) => None(toStub', A) /\ toStub[1] \notin A
          /\ \A A, B : NoneAfter(toStub, A, B) => /\ NoneAfter(toStub', A, B)
                                                  /\ toStub[1] \in A => None(toStub', B)
      BY <1>1, <1>2, TakeFirst, Zenon
    <3>3. CASE Asked
      <4>1. NoneAfter(toStub, {Plus}, OldCommands) /\ None(toGdb, {Minus})
        BY <1>1, <3>1, <3>3 DEF ReadNext, Closing
      <4>2. NoneAfter(toStub', {Plus}, OldCommands)
        BY <4>1, <3>2
      <4>3. stub' = "hunt" => None(toStub', OldCommands)
        BY <4>1, <3>2, <2>1
      <4>4. Once => Once'
        BY <4>1, <3>2, <2>1, <1>1, <1>3 DEF Once, InBuffer
      <4>5. NoStray => NoStray'
        BY <3>2, <2>1, <1>1 DEF NoStray, Open, Closing
      <4>6. ReadNext'
        BY <4>1, <4>2, <4>3, <4>4, <4>5, <3>1, <3>3, <2>1, <1>1, <1>3 DEF ReadNext, Open, Closing
      <4> QED
        BY <4>6, <3>3, <2>3, <1>1, <1>4 DEF Forward
    <3>4. CASE ~Asked
      <4>1. stub' = "hunt" => None(toStub', Commands) /\ None(toGdb, {Minus})
        <5>1. toStub[1] = Plus => None(toStub', Commands)
          BY <3>1, <3>2, <3>4 DEF NotAgain
        <5>2. toStub[1] = Plus => ~None(toStub, {Plus})
          BY <3>2
        <5> QED
          BY <5>1, <5>2, <3>1, <3>4, <2>1 DEF NotAgain
      <4>2. NoneAfter(toStub', {Plus}, Commands) /\ (None(toStub, {Plus}) => None(toStub', {Plus}))
        BY <3>1, <3>2, <3>4 DEF NotAgain
      <4>3. NotAgain'
        BY <4>1, <4>2, <3>1, <3>4, <1>1 DEF NotAgain
      <4> QED
        BY <4>3, <3>4, <2>3, <1>1, <1>4 DEF Forward
    <3> QED
      BY <3>3, <3>4
  <2> QED
    BY <2>2, <2>3
<1> QED
  BY <1>5, <1>6, <1>7 DEF Orderly, Forward

---------------------------------------------------------------------------------
(***************************************************************************)
(* The debugger.                                                           *)
(***************************************************************************)
\* What the debugger sends is a command of its present number.
LEMMA CurrentPacket ==
    ASSUME Types, gdb # "idle"
    PROVE  Current \in NowCommands /\ Current \in Commands /\ Sum(Current) \in Sums
BY DEF Types, Current, NowCommands, Commands, Sums

\* A packet does not spoil the format of what is in the channel.
LEMMA FormatKept ==
    ASSUME Types, Format, NEW c \in NowCommands, NEW sum \in Sums, n' = n, buffer' = buffer,
           executed' = executed, stub' = stub, toStub' = toStub \o Packet(c, sum)
    PROVE  toStub' \in Seq(Chars) /\ Format'
<1>1. toStub \in Seq(Chars) /\ c \in Commands /\ c \notin LaterCommands /\ LaterCommands \subseteq Commands
  BY DEF Types, NowCommands, LaterCommands
<1>2. toStub' \in Seq(Chars)
  BY <1>1, PutPacket, Zenon
<1>3. /\ Followed(toStub', {Dollar}, Commands) /\ Followed(toStub', Commands, {Hash})
      /\ Followed(toStub', {Hash}, Sums) /\ None(toStub', LaterCommands)
      /\ toStub # <<>> => toStub' # <<>> /\ toStub'[1] = toStub[1]
  BY <1>1, PutPacket, Zenon DEF Format
<1>4. NowCommands' = NowCommands /\ LaterCommands' = LaterCommands /\ k' = k
  BY SameNumbers DEF k
<1> QED
  BY <1>2, <1>3, <1>4 DEF Format, Closing

\* Nor does a single character the debugger sends.
LEMMA FormatKeptOne ==
    ASSUME Types, Format, NEW x \in {Plus, Minus, Interrupt}, n' = n, buffer' = buffer,
           executed' = executed, stub' = stub, toStub' = toStub \o <<x>>
    PROVE  toStub' \in Seq(Chars) /\ Format'
<1>1. /\ toStub \in Seq(Chars) /\ x \in Chars
      /\ x \notin Commands /\ x \notin {Dollar} /\ x \notin {Hash} /\ x \notin LaterCommands
  BY Kinds DEF Types, Chars, LaterCommands
<1>2. toStub' = Append(toStub, x)
  BY <1>1, PutOne
<1>3. /\ Append(toStub, x) \in Seq(Chars)
      /\ \A A : None(toStub, A) /\ x \notin A => None(Append(toStub, x), A)
      /\ \A A, B : Followed(toStub, A, B) /\ x \notin A => Followed(Append(toStub, x), A, B)
      /\ toStub # <<>> => Append(toStub, x) # <<>> /\ Append(toStub, x)[1] = toStub[1]
  BY <1>1, PutOne, Zenon
<1>4. /\ Followed(toStub', {Dollar}, Commands) /\ Followed(toStub', Commands, {Hash})
      /\ Followed(toStub', {Hash}, Sums) /\ None(toStub', LaterCommands)
      /\ toStub # <<>> => toStub' # <<>> /\ toStub'[1] = toStub[1]
  BY <1>1, <1>2, <1>3 DEF Format
<1>5. NowCommands' = NowCommands /\ LaterCommands' = LaterCommands /\ k' = k
  BY SameNumbers DEF k
<1> QED
  BY <1>2, <1>3, <1>4, <1>5 DEF Format, Closing

\* The debugger gives the next command.
LEMMA CommandKeeps ==
    ASSUME Orderly, NEW l \in Letters, Command(l), retries <= 1
    PROVE  Orderly'
<1>0. Types /\ Format /\ Turns /\ Backward /\ Forward
  BY DEF Orderly
<1> DEFINE c == <<l, n + 1>>
<1>1. PICK sum \in Sums : toStub' = toStub \o Packet(c, sum)
  <2>1. c \in Commands
    BY <1>0 DEF Types, Commands
  <2>2. Sum(c) \in Sums /\ Sum(<<"wrong", 0>>) \in Sums
    BY <2>1 DEF Sums
  <2> QED
    BY <2>2 DEF Command, Sent
<1>2. /\ gdb = "idle" /\ gdb' = "sent" /\ n' = n + 1 /\ letter' = l /\ toGdb' = toGdb
      /\ answers' = answers /\ retries' = retries
      /\ stub' = stub /\ buffer' = buffer /\ executed' = executed
  BY DEF Command, stubvars
<1>3. /\ n \in Nat /\ n = k /\ k' = k /\ stub # "execute" /\ stub \notin {"read", "sum"}
      /\ ~Asked /\ Asked' /\ toStub \in Seq(Chars)
  BY <1>0, <1>2 DEF Types, Turns, Asked, k
<1>4. /\ c \in NowCommands' /\ c \in Commands /\ c \notin OldCommands' /\ c \notin LaterCommands'
      /\ NowCommands' \subseteq LaterCommands /\ LaterCommands' \subseteq LaterCommands
      /\ OldCommands' \subseteq Commands /\ LaterCommands' \subseteq Commands
      /\ NowCommands' \subseteq Commands /\ LaterReplies' = LaterReplies
  BY <1>2, <1>3 DEF NowCommands, OldCommands, LaterCommands, LaterReplies, Commands
<1> HIDE DEF c
<1>5. /\ None(toStub, LaterCommands') /\ None(toStub, NowCommands')
  BY <1>0, <1>4, Fewer, Zenon DEF Format
<1>6. toStub' \in Seq(Chars)
  BY <1>1, <1>3, <1>4, PutPacket, Zenon
<1>7. Types'
  BY <1>0, <1>2, <1>3, <1>6 DEF Types, Open, Closing, Dead
<1>8. Format'
  <2>1. /\ Followed(toStub', {Dollar}, Commands) /\ Followed(toStub', Commands, {Hash})
        /\ Followed(toStub', {Hash}, Sums)
    BY <1>0, <1>1, <1>3, <1>4, PutPacket, Zenon DEF Format
  <2>2. None(toStub', LaterCommands')
    BY <1>1, <1>3, <1>4, <1>5, PutPacket, Zenon
  <2> QED
    BY <2>1, <2>2, <1>0, <1>2, <1>3 DEF Format, Closing
<1>9. Turns'
  BY <1>0, <1>2, <1>3 DEF Turns, k
<1>10. None(toGdb, {Plus}) /\ None(toGdb, {Minus})
  BY <1>0, <1>2 DEF Backward, None
<1>11. Backward'
  <2>1. \A B : NoneAfter(toGdb, {Plus}, B)
    BY <1>10 DEF None, NoneAfter
  <2> QED
    BY <2>1, <1>0, <1>2, <1>4, <1>10 DEF Backward
<1>12. ~Dead => Forward'
  <2>0. HAVE ~Dead
  <2>1. CASE retries = 0
    <3>1. LockStep
      BY <1>0, <1>2, <2>0, <2>1 DEF Forward
    <3>2. /\ toGdb = <<>>
          /\ (stub = "ack" /\ toStub = <<Plus>>) \/ (stub = "hunt" /\ toStub = <<>>)
      BY <3>1, <1>2, <1>3 DEF LockStep
    <3>3. \/ stub = "ack" /\ toStub' = <<Plus, Dollar, c, Hash, sum>>
          \/ stub = "hunt" /\ toStub' = <<Dollar, c, Hash, sum>>
      BY <3>2, <1>1, ShortAppends
    <3>4. LockStep'
      BY <3>2, <3>3, <1>2, <1>3, <1>4 DEF LockStep
    <3> QED
      BY <3>4, <2>1, <1>2 DEF Forward
  <2>2. CASE retries # 0
    <3>1. NotAgain
      BY <1>0, <1>2, <1>3, <2>0, <2>2 DEF Forward
    <3>2. Open' => None(toStub', OldCommands')
      <4>1. SUFFICES ASSUME stub = "hunt" PROVE None(toStub', OldCommands')
        BY <1>2, <1>3 DEF Open
      <4>2. None(toStub, Commands)
        BY <3>1, <4>1 DEF NotAgain
      <4>3. None(toStub, OldCommands')
        BY <4>2, <1>4, Fewer, Zenon
      <4> QED
        BY <4>3, <1>1, <1>3, <1>4, PutPacket, Zenon
    <3>3. NoneAfter(toStub', {Plus}, OldCommands')
      <4>1. NoneAfter(toStub, {Plus}, OldCommands')
        BY <3>1, <1>4 DEF NotAgain, NoneAfter
      <4> QED
        BY <4>1, <1>1, <1>3, <1>4, PutPacket, Zenon
    <3>4. Once'
      <4>1. NoneAfter(toStub, NowCommands', NowCommands')
        BY <1>5 DEF None, NoneAfter
      <4>2. NoneAfter(toStub', NowCommands', NowCommands')
        BY <4>1, <1>1, <1>3, <1>4, <1>5, PutPacket, Zenon
      <4>3. NoneAfter(toGdb, {Minus}, {Minus})
        BY <1>10 DEF None, NoneAfter
      <4> QED
        BY <4>2, <4>3, <1>2, <1>3, <1>10 DEF Once, InBuffer
    <3>5. ReadNext'
      BY <3>2, <3>3, <3>4, <1>2, <1>10 DEF ReadNext
    <3> QED
      BY <3>5, <2>2, <1>2, <1>3 DEF Forward
  <2> QED
    BY <2>1, <2>2
<1> QED
  BY <1>2, <1>7, <1>8, <1>9, <1>11, <1>12 DEF Orderly, Forward, Dead

\* The debugger takes an acknowledgement, sends the packet again when it was not
\* understood, and acknowledges an old reply.
LEMMA GetAckKeeps ==
    ASSUME Orderly, GetAck, retries <= 1
    PROVE  Orderly'
<1>0. Types /\ Format /\ Turns /\ Backward /\ Forward
  BY DEF Orderly
<1>1. /\ gdb = "sent" /\ toGdb # <<>> /\ toGdb' = Tail(toGdb)
      /\ n' = n /\ letter' = letter /\ answers' = answers /\ retries' = retries
      /\ stub' = stub /\ buffer' = buffer /\ executed' = executed
  BY DEF GetAck, stubvars
<1>2. /\ toGdb \in Seq(Items) /\ toGdb' \in Seq(Items) /\ toStub \in Seq(Chars)
      /\ Head(toGdb) = toGdb[1] /\ toGdb[1] \in Items
  <2>1. toGdb \in Seq(Items) /\ toStub \in Seq(Chars)
    BY <1>0 DEF Types
  <2>2. Tail(toGdb) \in Seq(Items) /\ Head(toGdb) = toGdb[1] /\ toGdb[1] \in Items
    BY <2>1, <1>1, TailOf, Zenon
  <2> QED
    BY <2>1, <2>2, <1>1
<1>3. /\ NowCommands' = NowCommands /\ OldCommands' = OldCommands
      /\ LaterCommands' = LaterCommands /\ OldReplies' = OldReplies /\ LaterReplies' = LaterReplies
      /\ NowCommands \subseteq Commands /\ OldCommands \subseteq Commands
  BY <1>1, SameNumbers
<1>4. k' = k /\ Accepted' = Accepted
  BY <1>1 DEF Accepted, k
<1>5. /\ \A A : None(toGdb, A) => None(toGdb', A) /\ toGdb[1] \notin A
      /\ \A A, B : NoneAfter(toGdb, A, B) => /\ NoneAfter(toGdb', A, B)
                                             /\ toGdb[1] \in A => None(toGdb', B)
  <2>1. /\ \A A : None(toGdb, A) => None(Tail(toGdb), A) /\ toGdb[1] \notin A
        /\ \A A, B : NoneAfter(toGdb, A, B) => /\ NoneAfter(Tail(toGdb), A, B)
                                               /\ toGdb[1] \in A => None(Tail(toGdb), B)
    BY <1>1, <1>2, TakeFirst, Zenon
  <2> QED
    BY <2>1, <1>1
<1>6. /\ None(toGdb', LaterReplies) /\ (Asked => None(toGdb', {Plus}))
      /\ NoneAfter(toGdb', {Plus}, OldReplies \cup {Plus, Minus})
  BY <1>0, <1>1, <1>5 DEF Backward
<1>7. CASE toGdb[1] = Plus /\ gdb' = "waiting" /\ toStub' = toStub
  <2>1. ~Asked /\ Accepted
    BY <1>0, <1>5, <1>7 DEF Backward, Turns
  <2>2. ~Asked'
    BY <1>7 DEF Asked
  <2>3. None(toGdb', OldReplies \cup {Plus, Minus})
    BY <1>0, <1>1, <1>5, <1>7 DEF Backward
  <2>4. Types' /\ Format'
    BY <1>0, <1>1, <1>2, <1>3, <1>4, <1>7 DEF Types, Format, Open, Closing, Dead
  <2>5. Turns'
    BY <1>0, <1>1, <1>4, <1>7, <2>1 DEF Turns, k, Asked
  <2>6. Backward'
    BY <1>3, <1>6, <1>7, <2>2, <2>3 DEF Backward
  <2>7. ~Dead => Forward'
    <3>0. HAVE ~Dead
    <3>1. CASE retries = 0
      <4>1. LockStep
        BY <1>0, <3>0, <3>1 DEF Forward
      <4>2. /\ toStub = <<>>
            /\ \/ stub \in {"execute", "running", "reply"} /\ toGdb = <<Plus>>
               \/ stub = "ack" /\ \E r \in Replies : toGdb = <<Plus, r>>
        BY <4>1, <2>1, <1>1 DEF LockStep
      <4>3. \/ stub \in {"execute", "running", "reply"} /\ toGdb' = <<>>
            \/ stub = "ack" /\ \E r \in Replies : toGdb' = <<r>>
        <5>1. Tail(<<Plus>>) = <<>> /\ \A r : Tail(<<Plus, r>>) = <<r>>
          BY ShortTails
        <5> QED
          BY <5>1, <4>2, <1>1
      <4>4. LockStep'
        BY <4>2, <4>3, <1>1, <1>7, <2>2 DEF LockStep
      <4> QED
        BY <4>4, <3>1, <1>1 DEF Forward
    <3>2. CASE retries # 0
      <4>1. NotAgain
        BY <1>0, <2>1, <3>0, <3>2 DEF Forward
      <4>2. NotAgain'
        BY <4>1, <1>1, <1>5, <1>7 DEF NotAgain
      <4> QED
        BY <4>2, <3>2, <1>1, <2>2 DEF Forward
    <3> QED
      BY <3>1, <3>2
  <2> QED
    BY <2>4, <2>5, <2>6, <2>7, <1>1 DEF Orderly, Forward, Dead
<1>8. CASE toGdb[1] = Minus /\ gdb' = gdb /\ toStub' = toStub \o Packet(Current, Sum(Current))
  <2>0. Current \in NowCommands /\ Current \in Commands /\ Sum(Current) \in Sums
    BY <1>0, <1>1, CurrentPacket
  <2>1. Asked' = Asked
    BY <1>1, <1>4, <1>8 DEF Asked
  <2>2. toStub' \in Seq(Chars) /\ Format'
    BY <1>0, <1>1, <1>8, <2>0, FormatKept
  <2>3. Types'
    BY <1>0, <1>1, <1>2, <1>8, <2>2 DEF Types, Open, Closing, Dead
  <2>4. Turns' /\ Backward'
    BY <1>0, <1>1, <1>3, <1>4, <1>6, <1>8, <2>1 DEF Turns, Backward, k
  <2>5. ~None(toGdb, {Minus})
    BY <1>5, <1>8
  <2>6. /\ \A A : A \subseteq Commands => (None(toStub', A) <=> None(toStub, A) /\ Current \notin A)
        /\ None(toStub', {Plus}) <=> None(toStub, {Plus})
        /\ \A A, B : A \subseteq Commands /\ B \subseteq Commands =>
              (NoneAfter(toStub', A, B) <=> NoneAfter(toStub, A, B) /\ (None(toStub, A) \/ Current \notin B))
    BY <1>2, <1>8, <2>0, PutPacket
  <2>7. ~Dead => Forward'
    <3>0. HAVE ~Dead
    <3>1. CASE retries = 0
      <4>1. LockStep
        BY <1>0, <3>0, <3>1 DEF Forward
      <4>2. ~None(<<>>, {Minus}) => FALSE
        BY Empty, Zenon
      <4>3. toGdb # <<>> /\ toGdb[1] # Plus
        BY <1>1, <1>8, Kinds
      <4>4. \A r : toGdb # <<Plus>> /\ toGdb # <<Plus, r>>
        BY <4>3
      <4>5. Asked /\ toGdb = <<Minus>> /\ stub = "hunt" /\ toStub = <<>>
        BY <4>1, <4>3, <4>4, <1>1 DEF LockStep
      <4>6. toStub' = <<Dollar, Current, Hash, Sum(Current)>> /\ toGdb' = <<>>
        BY <4>5, <1>1, <1>8, ShortAppends, ShortTails
      <4>7. LockStep'
        BY <4>5, <4>6, <2>0, <2>1, <1>1, <1>3 DEF LockStep
      <4> QED
        BY <4>7, <3>1, <1>1 DEF Forward
    <3>2. CASE retries # 0 /\ Asked
      <4>1. ReadNext
        BY <1>0, <3>0, <3>2 DEF Forward
      <4>2. ~Closing
        BY <4>1, <2>5 DEF ReadNext
      <4>3. Open => None(toStub', OldCommands)
        <5>1. Current \notin OldCommands
          BY <2>0 DEF NowCommands, OldCommands
        <5> QED
          BY <5>1, <4>1, <2>6, <1>3 DEF ReadNext
      <4>4. Once => Once'
        <5>1. SUFFICES ASSUME Once PROVE Once'
          OBVIOUS
        <5>2. None(toStub, NowCommands) /\ ~InBuffer
          BY <5>1, <2>5 DEF Once
        <5>3. NoneAfter(toStub', NowCommands, NowCommands)
          BY <5>1, <5>2, <2>6, <1>3 DEF Once
        <5>4. None(toGdb', {Minus}) /\ NoneAfter(toGdb', {Minus}, {Minus})
          BY <5>1, <1>5, <1>8 DEF Once
        <5> QED
          BY <5>2, <5>3, <5>4, <1>1, <1>3 DEF Once, InBuffer
      <4>5. NoStray => NoStray'
        BY <4>2, <1>1, <1>5, <2>6 DEF NoStray, Open, Closing
      <4>6. ReadNext'
        BY <4>1, <4>2, <4>3, <4>4, <4>5, <1>1, <1>3 DEF ReadNext, Open, Closing
      <4> QED
        BY <4>6, <3>2, <1>1, <2>1 DEF Forward
    <3>3. CASE retries # 0 /\ ~Asked
      <4>1. NotAgain
        BY <1>0, <3>0, <3>3 DEF Forward
      <4>2. stub # "hunt" /\ None(toStub', {Plus})
        BY <4>1, <2>5, <2>6 DEF NotAgain
      <4>3. NoneAfter(toStub', {Plus}, Commands)
        BY <4>2 DEF None, NoneAfter
      <4>4. NotAgain'
        BY <4>1, <4>2, <4>3, <1>1, <1>5 DEF NotAgain
      <4> QED
        BY <4>4, <3>3, <1>1, <2>1 DEF Forward
    <3> QED
      BY <3>1, <3>2, <3>3
  <2> QED
    BY <2>2, <2>3, <2>4, <2>7, <1>1 DEF Orderly, Forward, Dead
<1>9. CASE toGdb[1][1] = "reply" /\ gdb' = gdb /\ toStub' = toStub \o <<Plus>>
  <2>0. toGdb[1] \in Replies /\ toGdb[1] # Plus /\ toGdb[1] # Minus
    BY <1>2, <1>9, Kinds DEF Items
  <2>1. Asked' = Asked
    BY <1>1, <1>4, <1>9 DEF Asked
  <2>2. toStub' \in Seq(Chars) /\ Format'
    BY <1>0, <1>1, <1>9, FormatKeptOne
  <2>3. Types'
    BY <1>0, <1>1, <1>2, <1>9, <2>2 DEF Types, Open, Closing, Dead
  <2>4. Turns' /\ Backward'
    BY <1>0, <1>1, <1>3, <1>4, <1>6, <1>9, <2>1 DEF Turns, Backward, k
  <2>5. ~None(toGdb, Replies)
    BY <2>0, <1>5
  <2>6. /\ \A A : None(toStub', A) <=> None(toStub, A) /\ Plus \notin A
        /\ \A A, B : NoneAfter(toStub', A, B)
                       <=> NoneAfter(toStub, A, B) /\ (None(toStub, A) \/ Plus \notin B)
    <3>1. Plus \in Chars
      BY DEF Chars
    <3>2. /\ Append(toStub, Plus) = toStub \o <<Plus>>
          /\ \A A : None(Append(toStub, Plus), A) <=> None(toStub, A) /\ Plus \notin A
          /\ \A A, B : NoneAfter(Append(toStub, Plus), A, B)
                         <=> NoneAfter(toStub, A, B) /\ (None(toStub, A) \/ Plus \notin B)
      BY <3>1, <1>2, PutOne, Zenon
    <3> QED
      BY <3>2, <1>9
  <2>7. Plus \notin Commands /\ Plus \notin OldCommands /\ Plus \notin NowCommands
    BY Kinds, <1>3
  <2>8. ~Dead => Forward'
    <3>0. HAVE ~Dead
    <3>1. retries # 0
      <4>1. SUFFICES ASSUME LockStep PROVE FALSE
        BY <1>0, <3>0 DEF Forward
      <4>2. \A r : toGdb # <<Plus>> /\ toGdb # <<Plus, r>> /\ toGdb # <<Minus>>
        BY <2>0
      <4> QED
        BY <4>1, <4>2, <1>1 DEF LockStep
    <3>2. CASE Asked
      <4>1. ReadNext /\ Once
        BY <1>0, <3>0, <3>1, <3>2, <2>5 DEF Forward, ReadNext, NoStray
      <4>2. Once'
        BY <4>1, <2>6, <2>7, <1>1, <1>3, <1>5 DEF Once, InBuffer
      <4>3. ReadNext'
        BY <4>1, <4>2, <2>6, <2>7, <1>1, <1>3, <1>5 DEF ReadNext, Open, Closing
      <4> QED
        BY <4>3, <3>1, <3>2, <1>1, <2>1 DEF Forward
    <3>3. CASE ~Asked
      <4>1. NotAgain
        BY <1>0, <3>0, <3>1, <3>3 DEF Forward
      <4>2. None(toGdb', {Minus})
        BY <4>1, <2>0, <1>5 DEF NotAgain
      <4>3. NotAgain'
        BY <4>1, <4>2, <2>6, <2>7, <1>1, <1>5 DEF NotAgain
      <4> QED
        BY <4>3, <3>1, <3>3, <1>1, <2>1 DEF Forward
    <3> QED
      BY <3>2, <3>3
  <2> QED
    BY <2>2, <2>3, <2>4, <2>8, <1>1 DEF Orderly, Forward, Dead
<1> QED
  BY <1>2, <1>7, <1>8, <1>9 DEF GetAck, Sent

\* The debugger takes the reply it waits for, which is the one to its command.
LEMMA GetReplyKeeps ==
    ASSUME Orderly, GetReply, retries <= 1
    PROVE  Orderly'
<1>0. Types /\ Format /\ Turns /\ Backward /\ Forward
  BY DEF Orderly
<1>1. /\ gdb = "waiting" /\ gdb' = "idle" /\ toGdb # <<>> /\ toGdb' = Tail(toGdb)
      /\ Head(toGdb)[1] = "reply" /\ answers' = Append(answers, Head(toGdb)[2])
      /\ toStub' = toStub \o <<Plus>>
      /\ n' = n /\ letter' = letter /\ retries' = retries
      /\ stub' = stub /\ buffer' = buffer /\ executed' = executed
  BY DEF GetReply, stubvars, Sent
<1>2. /\ toGdb \in Seq(Items) /\ toGdb' \in Seq(Items) /\ toStub \in Seq(Chars)
      /\ Head(toGdb) = toGdb[1] /\ toGdb[1] \in Items
  <2>1. toGdb \in Seq(Items) /\ toStub \in Seq(Chars)
    BY <1>0 DEF Types
  <2>2. Tail(toGdb) \in Seq(Items) /\ Head(toGdb) = toGdb[1] /\ toGdb[1] \in Items
    BY <2>1, <1>1, TailOf, Zenon
  <2> QED
    BY <2>1, <2>2, <1>1
<1>3. /\ NowCommands' = NowCommands /\ OldCommands' = OldCommands
      /\ LaterCommands' = LaterCommands /\ OldReplies' = OldReplies /\ LaterReplies' = LaterReplies
  BY <1>1, SameNumbers
<1>4. /\ \A A : None(toGdb, A) => None(toGdb', A) /\ toGdb[1] \notin A
      /\ \A A, B : NoneAfter(toGdb, A, B) => NoneAfter(toGdb', A, B)
  <2>1. /\ \A A : None(toGdb, A) => None(Tail(toGdb), A) /\ toGdb[1] \notin A
        /\ \A A, B : NoneAfter(toGdb, A, B) => NoneAfter(Tail(toGdb), A, B)
    BY <1>1, <1>2, TakeFirst, Zenon
  <2> QED
    BY <2>1, <1>1
<1> DEFINE c == toGdb[1][2]
<1>5. c \in Commands /\ c[2] = n /\ n = k /\ stub # "execute" /\ n \in Nat
  <2>1. toGdb[1] \in Replies
    BY <1>1, <1>2, Kinds DEF Items
  <2>2. c \in Commands /\ toGdb[1] = Reply(c)
    BY <2>1 DEF Replies, Reply
  <2>3. toGdb[1] \notin OldReplies /\ toGdb[1] \notin LaterReplies
    BY <1>0, <1>1, <1>4 DEF Backward
  <2>4. c[2] = n
    BY <2>2, <2>3 DEF OldReplies, OldCommands
  <2>5. ~(c[2] > k)
    BY <2>2, <2>3 DEF LaterReplies
  <2>6. k \in Nat /\ n \in Nat /\ Accepted
    BY <1>0, <1>1 DEF Types, Turns, k
  <2> QED
    BY <2>2, <2>4, <2>5, <2>6 DEF Accepted
<1> HIDE DEF c
<1>6. /\ answers \in Seq(Commands) /\ Len(answers) = n - 1
      /\ answers' = Append(answers, c)
  BY <1>0, <1>1, <1>2 DEF Types, Turns, c
<1>7. /\ answers' \in Seq(Commands) /\ Len(answers') = n /\ answers'[n] = c
      /\ \A i \in 1..(n - 1) : answers'[i] = answers[i]
  BY <1>5, <1>6
<1>8. k' = k /\ ~Asked' /\ ~Asked /\ Accepted'
  BY <1>1, <1>5 DEF Asked, Accepted, k
<1>9. toStub' \in Seq(Chars) /\ Format'
  BY <1>0, <1>1, FormatKeptOne
<1>10. Types'
  BY <1>0, <1>1, <1>2, <1>7, <1>9 DEF Types, Open, Closing, Dead
<1>11. Turns'
  <2>1. \A i \in 1..n : answers'[i][2] = i
    <3>1. ASSUME NEW i \in 1..n PROVE answers'[i][2] = i
      <4>1. CASE i = n
        BY <4>1, <1>5, <1>7
      <4>2. CASE i # n
        <5>1. i \in 1..(n - 1)
          BY <4>2, <1>5
        <5> QED
          BY <5>1, <1>0, <1>6, <1>7 DEF Turns
      <4> QED
        BY <4>1, <4>2
    <3> QED
      BY <3>1
  <2>2. stub \notin {"read", "sum"}
    BY <1>0, <1>8 DEF Turns
  <2> QED
    BY <2>1, <2>2, <1>0, <1>1, <1>5, <1>7, <1>8 DEF Turns, k
<1>12. None(toGdb, {Minus}) /\ None(toGdb, {Plus, Minus})
  BY <1>0, <1>1 DEF Backward, None
<1>13. Backward'
  BY <1>0, <1>1, <1>3, <1>4, <1>8, <1>12 DEF Backward
<1>14. ~Dead => Forward'
  <2>0. HAVE ~Dead
  <2>1. CASE retries = 0
    <3>1. LockStep
      BY <1>0, <2>0, <2>1 DEF Forward
    <3>2. toStub = <<>> /\ stub = "ack" /\ \E r \in Replies : toGdb = <<r>>
      BY <3>1, <1>1, <1>8 DEF LockStep
    <3>3. toStub' = <<Plus>>
      BY <3>2, <1>1, ShortAppends
    <3>4. toGdb' = <<>>
      <4>1. \A r : Tail(<<r>>) = <<>>
        BY ShortTails
      <4> QED
        BY <4>1, <3>2, <1>1
    <3>5. LockStep'
      BY <3>2, <3>3, <3>4, <1>1, <1>8 DEF LockStep
    <3> QED
      BY <3>5, <2>1, <1>1 DEF Forward
  <2>2. CASE retries # 0
    <3>1. NotAgain
      BY <1>0, <1>8, <2>0, <2>2 DEF Forward
    <3>2. Plus \in Chars /\ Plus \notin Commands
      BY Kinds DEF Chars
    <3>3. /\ Append(toStub, Plus) = toStub \o <<Plus>>
          /\ \A A : None(Append(toStub, Plus), A) <=> None(toStub, A) /\ Plus \notin A
          /\ \A A, B : NoneAfter(Append(toStub, Plus), A, B)
                         <=> NoneAfter(toStub, A, B) /\ (None(toStub, A) \/ Plus \notin B)
      BY <3>2, <1>2, PutOne, Zenon
    <3>4. NotAgain'
      BY <3>1, <3>2, <3>3, <1>1, <1>4, <1>12 DEF NotAgain
    <3> QED
      BY <3>4, <2>2, <1>1, <1>8 DEF Forward
  <2> QED
    BY <2>1, <2>2
<1> QED
  BY <1>1, <1>9, <1>10, <1>11, <1>13, <1>14 DEF Orderly, Forward, Dead

\* While the debugger is patient nothing is on its way that would mislead the stub
\* if the command were sent again.
LEMMA Patient ==
    ASSUME LockStep, Asked
    PROVE  ReadNext /\ NoStray
<1>1. NowCommands \cap OldCommands = {} /\ NowCommands \subseteq Commands /\ OldCommands \subseteq Commands
  BY DEF NowCommands, OldCommands
<1>2. CASE toGdb = <<Minus>> /\ stub = "hunt" /\ toStub = <<>>
  <2>1. \A A : None(toStub, A)
    BY <1>2, Empty
  <2>2. None(toGdb, Replies)
    <3>1. toGdb[1] = Minus /\ Len(toGdb) = 1 /\ Minus \notin Replies
      BY <1>2, Kinds
    <3> QED
      BY <3>1 DEF None
  <2> QED
    BY <2>1, <2>2, <1>2 DEF ReadNext, NoStray, Closing
<1>3. ASSUME NEW c \in NowCommands, NEW sum \in Sums, toGdb = <<>>,
             \/ stub = "hunt" /\ toStub = <<Dollar, c, Hash, sum>>
             \/ stub = "read" /\ buffer = <<>> /\ toStub = <<c, Hash, sum>>
             \/ stub = "read" /\ buffer # <<>> /\ toStub = <<Hash, sum>>
             \/ stub = "sum" /\ toStub = <<sum>>
      PROVE  ReadNext /\ NoStray
  <2>1. \A i \in 1..Len(toStub) : toStub[i] \in {Dollar, c, Hash, sum}
    <3>1. CASE toStub = <<Dollar, c, Hash, sum>>
      BY <3>1
    <3>2. CASE toStub = <<c, Hash, sum>>
      BY <3>2
    <3>3. CASE toStub = <<Hash, sum>>
      BY <3>3
    <3>4. CASE toStub = <<sum>>
      BY <3>4
    <3> QED
      BY <1>3, <3>1, <3>2, <3>3, <3>4
  <2>2. Plus \notin {Dollar, c, Hash, sum} /\ \A x \in {Dollar, c, Hash, sum} : x \notin OldCommands
    BY <1>1, Kinds
  <2>3. None(toStub, {Plus}) /\ None(toStub, OldCommands)
    BY <2>1, <2>2 DEF None
  <2>4. None(toGdb, Replies)
    BY <1>3, Empty
  <2> QED
    BY <2>3, <2>4, <1>3 DEF ReadNext, NoStray, Closing
<1>4. ASSUME NEW c \in NowCommands, NEW sum \in Sums, toGdb = <<>>,
             stub = "ack", toStub = <<Plus, Dollar, c, Hash, sum>>
      PROVE  ReadNext /\ NoStray
  <2>1. Len(toStub) = 5 /\ toStub[1] = Plus /\ toStub # <<>>
    BY <1>4
  <2>2. \A i \in 2..5 : toStub[i] \in {Dollar, c, Hash, sum}
    BY <1>4
  <2>3. Plus \notin {Dollar, c, Hash, sum} /\ \A x \in {Dollar, c, Hash, sum} : x \notin OldCommands
    BY <1>1, Kinds
  <2>4. \A i, j \in 1..Len(toStub) : i < j => j \in 2..5
    BY <2>1
  <2>5. NoneAfter(toStub, {Plus}, OldCommands) /\ NoneAfter(toStub, {Plus}, {Plus})
    BY <2>2, <2>3, <2>4 DEF NoneAfter
  <2>6. None(toGdb, Replies) /\ None(toGdb, {Minus})
    BY <1>4, Empty
  <2> QED
    BY <2>1, <2>5, <2>6, <1>4 DEF ReadNext, NoStray, Open
<1>5. \/ toGdb = <<Minus>> /\ stub = "hunt" /\ toStub = <<>>
      \/ \E c \in NowCommands, sum \in Sums :
            /\ toGdb = <<>>
            /\ \/ stub = "ack" /\ toStub = <<Plus, Dollar, c, Hash, sum>>
               \/ stub = "hunt" /\ toStub = <<Dollar, c, Hash, sum>>
               \/ stub = "read" /\ buffer = <<>> /\ toStub = <<c, Hash, sum>>
               \/ stub = "read" /\ buffer # <<>> /\ toStub = <<Hash, sum>>
               \/ stub = "sum" /\ toStub = <<sum>>
  BY Zenon DEF LockStep
<1> QED
  BY <1>2, <1>3, <1>4, <1>5

\* The debugger loses patience for the first time.
LEMMA LosePatienceKeeps ==
    ASSUME Orderly, LosePatience, retries = 0
    PROVE  Orderly'
<1>0. Types /\ Format /\ Turns /\ Backward /\ Forward
  BY DEF Orderly
<1>1. /\ retries' = 1 /\ toGdb' = toGdb /\ gdb' = gdb /\ n' = n /\ letter' = letter
      /\ answers' = answers /\ stub' = stub /\ buffer' = buffer /\ executed' = executed
      /\ \/ gdb = "sent" /\ toStub' = toStub \o Packet(Current, Sum(Current))
         \/ gdb = "waiting" /\ \E x \in {Minus, Interrupt} : toStub' = toStub \o <<x>>
  BY DEF LosePatience, stubvars, Sent, Interrupt
<1>2. /\ NowCommands' = NowCommands /\ OldCommands' = OldCommands
      /\ LaterCommands' = LaterCommands /\ OldReplies' = OldReplies /\ LaterReplies' = LaterReplies
      /\ OldCommands \subseteq Commands
  BY <1>1, SameNumbers
<1>3. k' = k /\ Asked' = Asked /\ Accepted' = Accepted
  BY <1>1 DEF Asked, Accepted, k
<1>4. /\ Current \in NowCommands /\ Current \in Commands /\ Sum(Current) \in Sums
      /\ Current \notin OldCommands
  BY <1>0, <1>1, CurrentPacket DEF NowCommands, OldCommands
<1>5. toStub \in Seq(Chars)
  BY <1>0 DEF Types
<1>6. toStub' \in Seq(Chars) /\ Format'
  <2>1. CASE gdb = "sent" /\ toStub' = toStub \o Packet(Current, Sum(Current))
    BY <2>1, <1>0, <1>1, <1>4, FormatKept
  <2>2. ASSUME NEW x \in {Minus, Interrupt}, toStub' = toStub \o <<x>>
        PROVE  toStub' \in Seq(Chars) /\ Format'
    <3>1. x \in {Plus, Minus, Interrupt}
      OBVIOUS
    <3> QED
      BY <3>1, <2>2, <1>0, <1>1, FormatKeptOne
  <2> QED
    BY <2>1, <2>2, <1>1
<1>7. Types'
  BY <1>0, <1>1, <1>6 DEF Types, Open, Closing, Dead
<1>8. Turns' /\ Backward'
  BY <1>0, <1>1, <1>2, <1>3 DEF Turns, Backward, k
<1>9. ~Dead => Forward'
  <2>0. HAVE ~Dead
  <2>1. LockStep
    BY <1>0, <2>0 DEF Forward
  <2>2. CASE Asked
    <3>1. ReadNext /\ NoStray
      BY <2>1, <2>2, Patient
    <3>2. toStub' = toStub \o Packet(Current, Sum(Current))
      BY <2>2, <1>1 DEF Asked
    <3>3. /\ None(toStub', OldCommands) <=> None(toStub, OldCommands) /\ Current \notin OldCommands
          /\ None(toStub', {Plus}) <=> None(toStub, {Plus})
          /\ NoneAfter(toStub', {Plus}, OldCommands)
               <=> NoneAfter(toStub, {Plus}, OldCommands) /\ (None(toStub, {Plus}) \/ Current \notin OldCommands)
          /\ NoneAfter(toStub, {Plus}, {Plus}) => NoneAfter(toStub', {Plus}, {Plus})
          /\ toStub # <<>> => toStub' # <<>> /\ toStub'[1] = toStub[1]
      BY <3>2, <1>2, <1>4, <1>5, PutPacket
    <3>4. NoStray'
      BY <3>1, <3>3, <1>1 DEF NoStray, Open, Closing
    <3>5. ReadNext'
      BY <3>1, <3>3, <3>4, <1>1, <1>2, <1>4 DEF ReadNext, Open, Closing
    <3> QED
      BY <3>5, <2>2, <1>1, <1>3 DEF Forward
  <2>3. CASE ~Asked
    <3>1. /\ toStub = <<>> /\ stub # "hunt"
          /\ \/ toGdb = <<Plus>> \/ toGdb = <<>>
             \/ \E r \in Replies : toGdb = <<Plus, r>> \/ toGdb = <<r>>
      BY <2>1, <2>3, <1>1 DEF LockStep
    <3>2. None(toGdb, {Minus})
      <4>1. \A r \in Replies : r # Minus /\ Plus # Minus
        BY Kinds
      <4>2. CASE toGdb = <<Plus>>
        BY <4>2, Kinds DEF None
      <4>3. CASE toGdb = <<>>
        BY <4>3, Empty
      <4>4. ASSUME NEW r \in Replies, toGdb = <<Plus, r>> PROVE None(toGdb, {Minus})
        BY <4>1, <4>4 DEF None
      <4>5. ASSUME NEW r \in Replies, toGdb = <<r>> PROVE None(toGdb, {Minus})
        BY <4>1, <4>5 DEF None
      <4> QED
        BY <3>1, <4>2, <4>3, <4>4, <4>5
    <3>3. \A A : NoneAfter(toGdb, A, {Minus})
      BY <3>2 DEF None, NoneAfter
    <3>4. NoneAfter(toStub', {Plus}, Commands)
      <4>1. None(toStub', {Plus})
        <5>0. None(toStub, {Plus})
          BY <3>1, Empty
        <5>1. CASE toStub' = toStub \o Packet(Current, Sum(Current))
          BY <5>0, <5>1, <1>4, <1>5, PutPacket
        <5>2. ASSUME NEW x \in {Minus, Interrupt}, toStub' = toStub \o <<x>>
              PROVE  None(toStub', {Plus})
          <6>1. toStub' = <<x>>
            BY <5>2, <3>1, ShortAppends
          <6>2. x # Plus
            BY Kinds
          <6> QED
            BY <6>1, <6>2 DEF None
        <5> QED
          BY <5>1, <5>2, <1>1
      <4> QED
        BY <4>1 DEF None, NoneAfter
    <3>5. NotAgain'
      BY <3>1, <3>2, <3>3, <3>4, <1>1 DEF NotAgain
    <3> QED
      BY <3>5, <2>3, <1>1, <1>3 DEF Forward
  <2> QED
    BY <2>2, <2>3
<1> QED
  BY <1>1, <1>6, <1>7, <1>8, <1>9 DEF Orderly, Forward, Dead

---------------------------------------------------------------------------------
(***************************************************************************)
(* The theorem.                                                            *)
(***************************************************************************)
\* Nothing has been sent in the beginning.
LEMMA InitGInv == Init => GInv
<1> SUFFICES ASSUME Init PROVE GInv
  OBVIOUS
<1>1. /\ toStub = <<>> /\ toGdb = <<>> /\ stub = "hunt" /\ gdb = "idle" /\ n = 0
      /\ executed = <<>> /\ answers = <<>> /\ retries = 0
  BY DEF Init
<1>2. k = 0 /\ ~Asked /\ Accepted /\ Len(answers) = 0
  BY <1>1 DEF k, Asked, Accepted
<1>3. Types
  BY <1>1 DEF Types, Open
<1>4. Format
  BY <1>1, Empty DEF Format, Closing
<1>5. Turns
  BY <1>1, <1>2 DEF Turns
<1>6. Backward
  BY <1>1, <1>2, Empty DEF Backward
<1>7. Forward
  BY <1>1, <1>2 DEF Forward, LockStep
<1> QED
  BY <1>1, <1>3, <1>4, <1>5, <1>6, <1>7 DEF GInv, Orderly

\* Every step of the stub and of the debugger keeps the channels in order.
LEMMA NextGInv == GInv /\ [Next]_vars => GInv'
<1> SUFFICES ASSUME GInv, [Next]_vars PROVE GInv'
  OBVIOUS
<1>1. CASE LosePatience
  <2>1. retries' = retries + 1 /\ retries \in Nat
    BY <1>1 DEF LosePatience, GInv
  <2>2. CASE retries = 0
    BY <2>1, <2>2, <1>1, LosePatienceKeeps DEF GInv
  <2>3. CASE retries # 0
    BY <2>1, <2>3 DEF GInv
  <2> QED
    BY <2>2, <2>3
<1>2. CASE UNCHANGED vars
  BY <1>2 DEF vars, GInv, Orderly, Types, Format, Turns, Backward, Forward, LockStep, NotAgain,
              ReadNext, Once, NoStray, InBuffer, Open, Closing, Dead, Asked, Accepted, k,
              NowCommands, OldCommands, LaterCommands, OldReplies, LaterReplies
<1>3. CASE retries' = retries /\ (Stub \/ RunReturns \/ Debugger \/ \E l \in Letters : Command(l))
  <2>1. ASSUME Orderly, retries <= 1 PROVE Orderly'
    BY <1>3, <2>1, SkipKeeps, ReadKeeps, ValidateKeeps, ExecuteKeeps, ReturnKeeps, ReplyKeeps,
       AckKeeps, GetAckKeeps, GetReplyKeeps, CommandKeeps DEF Stub, Debugger
  <2> QED
    BY <1>3, <2>1 DEF GInv
<1>4. Stub \/ RunReturns \/ Debugger \/ (\E l \in Letters : Command(l)) => retries' = retries
  BY DEF Stub, RunReturns, Debugger, Command, SkipToPacket, read_cmd_into_buffer,
         validate_checksum, debug_loop, SendReply, AwaitAck, GetAck, GetReply, gdbvars
<1> QED
  BY <1>1, <1>2, <1>3, <1>4 DEF Next

\* As long as the debugger lost patience at most once, whenever that was and
\* whatever checksums were wrong, gdb_session executes every command once and in
\* order, and the reply the debugger takes for the answer to a command is the
\* answer to it, for any number of commands and of wrong checksums.
THEOREM AnswersMatchTheorem == Spec => []AnswersMatch
<1>1. GInv => AnswersMatch
  <2>1. SUFFICES ASSUME Orderly PROVE /\ \A i \in DOMAIN executed : executed[i][2] = i
                                      /\ \A i \in DOMAIN answers : answers[i][2] = i /\ i \in DOMAIN executed
    BY DEF GInv, AnswersMatch
  <2>2. /\ DOMAIN executed = 1..k /\ DOMAIN answers = 1..Len(answers)
        /\ k \in Nat /\ n \in Nat /\ Len(answers) \in Nat
    BY <2>1 DEF Orderly, Types, k
  <2>3. Len(answers) <= k
    BY <2>1, <2>2 DEF Orderly, Turns, Asked, Accepted
  <2> QED
    BY <2>1, <2>2, <2>3 DEF Orderly, Turns
<1> QED
  BY <1>1, InitGInv, NextGInv, PTL DEF Spec
===============================================================================
