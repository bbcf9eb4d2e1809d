--------------------------------- MODULE Startup ---------------------------------
(* elkvm_vm_create and what follows: the virtual CPU with its stack is made,    *)
(* the binary is loaded, Environment copies the arguments, the environment and  *)
(* the auxiliary vector to a region of their own and onto the stack, the proxy  *)
(* operating system is set up, and the guest runs.  A string is its name and    *)
(* its length; the environment's region is far away from the guest's other      *)
(* memory, so a pointer into it is its offset.                                  *)
EXTENDS Stack, Loader

CONSTANTS
    EnvPages,   \* pages of the environment's region
    Inputs      \* records of argv, env and the host's auxiliary vector

VARIABLES
    input,      \* what the monitor was started with
    prog,       \* history: the binary it was started with
    envBase,    \* the environment's region in the host's memory
    offset,     \* EnvRegion::_offset
    todo        \* what is still to be pushed

envvars == <<input, prog, envBase, offset, todo>>
startvars == <<phase, stackvars, loadvars, envvars>>

Item(kind, val) == [kind |-> kind, val |-> val]

---------------------------------------------------------------------------
(* Environment                                                                 *)

\* The auxiliary vector's types of the host that are handled as numbers, and the
\* ones that are left out.
IntTypes == {"AT_NULL", "AT_IGNORE", "AT_EXECFD", "AT_PHDR", "AT_PHENT", "AT_PHNUM", "AT_PAGESZ",
             "AT_FLAGS", "AT_ENTRY", "AT_NOTELF", "AT_UID", "AT_EUID", "AT_GID", "AT_EGID",
             "AT_HWCAP", "AT_CLKTCK", "AT_SECURE", "AT_BASE"}
IgnoredTypes == {"AT_SYSINFO_EHDR"}

\* The monitor is given strings, and an auxiliary vector whose entries of these
\* types are numbers.
Str == [name : STRING, len : Nat]
IsInput(x) ==
    /\ x.argv \in Seq(Str) /\ x.env \in Seq(Str)
    /\ x.auxv \in Seq([type : STRING, kind : {"num"}, val : Nat]
                        \cup [type : STRING \ (IntTypes \cup IgnoredTypes), kind : {"str"}, val : Str])

ASSUME StartupConstants == EnvPages \in Nat \ {0} /\ \A x \in Inputs : IsInput(x)

\* The entries a dynamically linked program has values of its own for.
FixedTypes == {"AT_PHDR", "AT_PHENT", "AT_PHNUM", "AT_ENTRY", "AT_BASE"}

PHENT == 56

fix_auxv_dynamic_values(v) ==
    [i \in DOMAIN v |->
        CASE v[i].type = "AT_PHDR"  -> [v[i] EXCEPT !.val = auxv.phdr]
          [] v[i].type = "AT_PHENT" -> [v[i] EXCEPT !.val = PHENT]
          [] v[i].type = "AT_PHNUM" -> [v[i] EXCEPT !.val = auxv.phnum]
          [] v[i].type = "AT_ENTRY" -> [v[i] EXCEPT !.val = auxv.entry]
          [] v[i].type = "AT_BASE"  -> [v[i] EXCEPT !.val = auxv.base]
          [] OTHER -> v[i]]

\* What is pushed for an entry, the value first: a number that is not known to be
\* one is taken for the address of a string.
Entry(e) ==
    IF e.type \in IgnoredTypes THEN <<>>
    ELSE <<IF e.type \in IntTypes THEN Item("num", e.val)
           ELSE IF e.kind = "num" THEN Item("wild", 0) ELSE Item("str", e.val),
           Item("type", e.type)>>

Backwards(s) == [i \in DOMAIN s |-> s[Len(s) + 1 - i]]
Concat(ss) == LET f[i \in 0 .. Len(ss)] == IF i = 0 THEN <<>> ELSE f[i - 1] \o ss[i] IN f[Len(ss)]

push_auxv(v) == Concat([i \in DOMAIN v |-> Entry(Backwards(v)[i])]) \o <<Item("num", 0)>>
Strings(s) == [i \in DOMAIN s |-> Item("str", Backwards(s)[i])]
push_env(s) == Strings(s) \o <<Item("num", 0)>>
push_argv(s) == Strings(s)
push_argc(s) == <<Item("num", Len(s))>>

\* create_and_setup_environment up to the pushes: the region, the vectors, and
\* the assertion that a dynamic program finds all entries it has to change.
CreateEnvironment ==
    /\ step = "loaded"
    /\ envBase' = top /\ top' = top + EnvPages * P /\ offset' = EnvPages * P
    /\ LET v == IF auxv.valid THEN fix_auxv_dynamic_values(input.auxv) ELSE input.auxv IN
       IF auxv.valid /\ ~(FixedTypes \subseteq {v[i].type : i \in DOMAIN v})
       THEN step' = "aborted" /\ UNCHANGED todo
       ELSE /\ step' = "environment"
            /\ todo' = push_auxv(v) \o push_env(input.env) \o push_argv(input.argv)
                         \o push_argc(input.argv)
    /\ UNCHANGED <<phase, stackvars, input, prog, bin, isLdr, idx, noInterp, noPhdr, mem, segs, pt,
                   auxv, atBase, entry, curbrk>>

String(s) == [i \in 1 .. s.len |-> <<s.name, i>>]

write_str_Bug(s) ==
    LET noff == offset - s.len IN
    /\ offset' = noff
    /\ mem' = Write(mem, [a \in envBase + noff .. envBase + noff + s.len - 1 |->
                            String(s)[a - envBase - noff + 1]])

\* EnvRegion::write_str: downwards, with room for a null byte that nobody writes.
write_str(s) ==
    LET noff == offset - s.len - 1 IN
    /\ offset' = noff
    /\ mem' = Write(mem, [a \in envBase + noff .. envBase + noff + s.len - 1 |->
                            String(s)[a - envBase - noff + 1]])

Pushed(w) == /\ cpu' = push(cpu, w)
             /\ step' = IF cpu'.aborted THEN "aborted" ELSE step

\* One push of Environment::create.
Push ==
    /\ step = "environment" /\ todo # <<>>
    /\ todo' = Tail(todo)
    /\ LET x == Head(todo) IN
       \/ x.kind = "num" /\ Pushed(Num(x.val)) /\ UNCHANGED <<mem, offset>>
       \/ x.kind = "type" /\ Pushed(<<"type", x.val>>) /\ UNCHANGED <<mem, offset>>
       \/ x.kind = "wild" /\ step' = "crashed" /\ UNCHANGED <<mem, offset, cpu>>
       \/ /\ x.kind = "str" /\ offset > x.val.len + 1
          /\ write_str(x.val) /\ Pushed(<<"ptr", offset'>>)
       \/ /\ x.kind = "str" /\ offset <= x.val.len + 1
          /\ step' = "aborted" /\ UNCHANGED <<mem, offset, cpu>>
    /\ UNCHANGED <<phase, fault, userRsp, input, prog, envBase, bin, isLdr, idx, noInterp, noPhdr,
                   top, segs, pt, auxv, atBase, entry, curbrk>>

Created ==
    /\ step = "environment" /\ todo = <<>> /\ step' = "setup"
    /\ UNCHANGED <<phase, stackvars, envvars, bin, isLdr, idx, noInterp, noPhdr, mem, top, segs,
                   pt, auxv, atBase, entry, curbrk>>

---------------------------------------------------------------------------
(* The system.                                                                 *)

Init ==
    /\ StackInit /\ LoaderInit /\ phase = "start"
    /\ input \in Inputs /\ prog = bin /\ envBase = 0 /\ offset = 0 /\ todo = <<>>

Setup ==
    /\ phase = "start"
    /\ \/ Load /\ UNCHANGED <<phase, stackvars, envvars>>
       \/ CreateEnvironment \/ Push \/ Created
       \/ /\ setup_proxy_os
          /\ phase' = IF step' = "ready" THEN "run" ELSE phase
          /\ UNCHANGED <<stackvars, envvars>>

Over == phase \in Ended \cup {"lost"} \/ step \in {"aborted", "terminated", "crashed"}

Next ==
    \/ Setup
    \/ (GuestRuns \/ Served) /\ UNCHANGED <<loadvars, envvars>>
    \/ Over /\ UNCHANGED startvars

\* The monitor serves an interrupt it was called for, and the guest, when it is
\* run again, executes the instruction that faulted.
Spec == /\ Init /\ [][Next]_startvars
        /\ WF_startvars((Served \/ Retried) /\ UNCHANGED <<loadvars, envvars>>)

---------------------------------------------------------------------------
(* Properties.                                                                 *)

\* No byte of a file or a string: the loader's zeroes, or what the host's memory held.
Unused == {NoByte, OldByte}

\* A word is, or points to, what the program was to be given.
Is(w, x) ==
    \/ x.kind = "num" /\ w = Num(x.val)
    \/ x.kind = "type" /\ w = <<"type", x.val>>
    \/ x.kind = "old" /\ w = OldWord
    \/ /\ x.kind = "str" /\ w[1] = "ptr"
       /\ \A i \in 0 .. x.val.len - 1 : Byte(envBase + w[2] + i) = <<x.val.name, i + 1>>
       /\ Byte(envBase + w[2] + x.val.len) \in Unused

\* Where a program says its headers will be.
PhdrAddrs(b) == {b.phdrs[i].vaddr : i \in {j \in DOMAIN b.phdrs : b.phdrs[j].type = "PT_PHDR"}}
HeaderTable(b) == IF PhdrAddrs(b) = {} THEN 0 ELSE CHOOSE a \in PhdrAddrs(b) : TRUE

\* An entry of the auxiliary vector of a dynamically linked program: what its own
\* ELF header and program headers say, and the monitor's value for the rest.
Wanted(e) ==
    IF e.type \notin FixedTypes \/ StaticallyLinked(prog) THEN e.val
    ELSE CASE e.type = "AT_PHDR" -> HeaderTable(prog)
           [] e.type = "AT_PHENT" -> PHENT
           [] e.type = "AT_PHNUM" -> Len(prog.phdrs)
           [] e.type = "AT_ENTRY" -> prog.entry
           [] e.type = "AT_BASE" -> LoaderBase

\* The entries that should be the program's own and are not: a statically linked
\* program is given those of the monitor, and one without PT_PHDR a null.
Foreign ==
    IF StaticallyLinked(prog) THEN FixedTypes ELSE IF PhdrAddrs(prog) = {} THEN {"AT_PHDR"} ELSE {}

\* The stack of a new program upwards from rsp, by Linux's convention, which has
\* a null where the last word is: nobody pushes it.
NewProgram ==
    LET Aux(e) == IF e.type \in IgnoredTypes THEN <<>>
                  ELSE <<Item("type", e.type), Item(e.kind, Wanted(e))>>
        Ptrs(s) == [i \in DOMAIN s |-> Item("str", s[i])]
    IN <<Item("num", Len(input.argv))>> \o Ptrs(input.argv) \o <<Item("num", 0)>>
         \o Ptrs(input.env) \o <<Item("num", 0)>>
         \o Concat([i \in DOMAIN input.auxv |-> Aux(input.auxv[i])]) \o <<Item("old", 0)>>

\* Whenever the guest runs, its stack is the one a new program expects as far as
\* Environment writes it, over however many parts of the stack the words are
\* spread, and whatever interrupts it has had: the vectors in order, every string
\* whole and with room for a null before the next one.  The null of a string and
\* the one after the auxiliary vector are not written, nor overwritten by anything
\* else: they are null if the memory the host gave was.  Nothing is claimed about
\* the values of Foreign entries.
InitialStack ==
    phase = "run" => \A i \in DOMAIN NewProgram :
        /\ Mapped(cpu, cpu.rsp + i - 1)
        /\ \/ Is(cpu.word[cpu.rsp + i - 1], NewProgram[i])
           \/ i > 1 /\ NewProgram[i - 1].kind = "type" /\ NewProgram[i - 1].val \in Foreign
================================================================================
