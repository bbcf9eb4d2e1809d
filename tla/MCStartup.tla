-------------------------------- MODULE MCStartup --------------------------------
\* Programs of up to three headers with segments of a few bytes that begin and
\* end in the middle of a page and at its border, linked statically and with an
\* interpreter, and some that cannot be loaded.
EXTENDS Startup

MCHdr(t) == [type |-> t, vaddr |-> 44, off |-> 1, filesz |-> 1, memsz |-> 1, flags |-> {}]
MCSeg(v, o, f, b, fl) == [type |-> "PT_LOAD", vaddr |-> v, off |-> o, filesz |-> f,
                          memsz |-> f + b, flags |-> fl]
MCText == {MCSeg(v, 3, f, 0, {"X"}) : v \in {40, 41}, f \in {2, 3, 4, 7}}
MCData == {MCSeg(v, 12, f, b, {"W"}) : v \in {52, 55}, f \in {0, 2, 4}, b \in {0, 3, 7}}
MCBin(n, hs) == [name |-> n, valid |-> TRUE, shared |-> n = "ldr", entry |-> 41, length |-> 20,
                 phdrs |-> hs]
MCPairs == {<<t, d>> : t \in MCText, d \in MCData}

\* Headers in the wrong order, missing or doubled, segments that share a page, are
\* read-only, longer than the file or the memory, or lie on the signal page.
MCOdd == {<<MCSeg(40, 3, 3, 0, {"X"}), MCHdr("PT_INTERP")>>, <<>>, <<MCHdr("other")>>,
          <<MCHdr("PT_INTERP"), MCHdr("PT_INTERP")>>,
          <<MCHdr("PT_INTERP"), MCSeg(52, 12, 3, -1, {"W"})>>,
          <<MCSeg(40, 3, 3, 0, {"X"})>>, <<MCSeg(41, 3, 2, 0, {"R"})>>,
          <<MCSeg(52, 12, 3, 2, {"W"}), MCSeg(41, 3, 2, 0, {"X"})>>,
          <<MCSeg(40, 3, 3, 0, {"X"}), MCSeg(42, 12, 3, 2, {"W"})>>,
          <<MCSeg(40, 3, 3, 0, {"X"}), MCHdr("PT_PHDR")>>,
          <<MCSeg(40, 3, 3, 0, {"X"}), MCSeg(52, 18, 5, 0, {"W"})>>,
          <<MCSeg(40, 3, 3, 0, {"X"}), MCSeg(52, 12, 3, -1, {"W"})>>,
          <<MCSeg(4, 3, 3, 0, {"X"}), MCSeg(12, 12, 3, 0, {"W"})>>}
MCDynamic == {<<MCHdr("PT_PHDR"), MCHdr("PT_INTERP"), p[1], p[2]>> :
                p \in {x \in MCPairs : x[1].filesz = 3 /\ x[2].filesz > 0}}
               \cup {<<MCHdr("PT_INTERP"), MCSeg(40, 3, 3, 0, {"X"}), MCSeg(52, 12, 2, 7, {"W"})>>}
MCPrograms == {MCBin("prog", hs) : hs \in MCPairs \cup MCOdd \cup MCDynamic}
                 \cup {[MCBin("prog", <<MCHdr("other")>>) EXCEPT !.valid = FALSE]}
MCInterpreter == MCBin("ldr", <<MCSeg(0, 3, 2, 0, {"X"}), MCSeg(9, 12, 2, 4, {"W"})>>)

MCStr(n, l) == [name |-> n, len |-> l]
MCAux(t, v) == [type |-> t, kind |-> "num", val |-> v]
MCFull == <<MCAux("AT_SYSINFO_EHDR", 9), MCAux("AT_PHDR", 1), MCAux("AT_PHENT", 2),
            MCAux("AT_PHNUM", 3), MCAux("AT_BASE", 4), MCAux("AT_ENTRY", 5),
            [type |-> "AT_PLATFORM", kind |-> "str", val |-> MCStr("p", 2)]>>
MCInputs == {[argv |-> <<MCStr("a", 1), MCStr("b", 2)>>, env |-> <<MCStr("e", 0)>>, auxv |-> MCFull],
             [argv |-> <<MCStr("a", 9)>>, env |-> <<MCStr("e", 4)>>, auxv |-> <<MCAux("AT_UID", 7)>>],
             [argv |-> <<MCStr("a", 9)>>, env |-> <<MCStr("e", 5)>>, auxv |-> <<MCAux("AT_UID", 7)>>],
             [argv |-> <<>>, env |-> <<>>, auxv |-> <<MCAux("AT_HWCAP2", 7)>>]}
================================================================================
