----------------------------- MODULE StartupProofs -----------------------------
(***************************************************************************)
(* What a new guest finds, for every program, page size, and input of the  *)
(* monitor: the segments of its binary and of its interpreter in memory,   *)
(* and the stack that Linux's convention promises it.                      *)
(***************************************************************************)
EXTENDS Startup, SequenceTheorems, WellFoundedInduction, TLAPS

--------------------------------------------------------------------------------
(***************************************************************************)
(* Pages.                                                                  *)
(***************************************************************************)
\* Division by the size of a page.
LEMMA DivFacts ==
    ASSUME NEW a \in Nat
    PROVE  /\ a \div P \in Nat /\ a % P \in 0 .. P - 1
           /\ a = P * (a \div P) + (a % P)
BY LoaderConstants

\* A number of whole pages.
LEMMA DivWhole ==
    ASSUME NEW a \in Nat, a % P = 0
    PROVE  a \div P \in Nat /\ a = P * (a \div P)
<1>1. a \div P \in Nat /\ a = P * (a \div P) + 0
  BY DivFacts
<1>2. P * (a \div P) \in Int
  BY <1>1, LoaderConstants
<1> QED
  BY <1>1, <1>2

\* Quotient and remainder are the only ones.
LEMMA DivUnique ==
    ASSUME NEW q \in Int, NEW r \in 0 .. P - 1
    PROVE  (P * q + r) \div P = q /\ (P * q + r) % P = r
<1>1. P \in Nat \ {0}
  BY LoaderConstants
<1> DEFINE a == P * q + r
<1>2. a \in Int /\ P * q \in Int
  BY <1>1
<1>3. a \div P \in Int /\ a % P \in 0 .. P - 1 /\ a = P * (a \div P) + (a % P)
  BY <1>1, <1>2
<1> DEFINE d == a \div P
           s == a % P
<1>4. d \in Int /\ s \in 0 .. P - 1 /\ P * (d - q) = r - s
  BY <1>1, <1>2, <1>3
<1> HIDE DEF d, s, a
<1>5. d - q = 0
  <2>1. CASE d - q >= 1
    <3>1. P * (d - q) >= P
      BY <1>1, <1>4, <2>1
    <3> QED
      BY <1>1, <1>4, <3>1
  <2>2. CASE d - q <= -1
    <3>1. P * (d - q) <= -P
      BY <1>1, <1>4, <2>2
    <3> QED
      BY <1>1, <1>4, <3>1
  <2> QED
    BY <1>4, <2>1, <2>2
<1>6. d = q /\ s = r
  BY <1>1, <1>4, <1>5
<1> QED
  BY <1>6 DEF d, s, a

\* pagesize_align of a size that is not a number of pages.
LEMMA AlignUp ==
    ASSUME NEW n \in Nat, n % P # 0
    PROVE  /\ pagesize_align(n) \in Nat /\ n < pagesize_align(n)
           /\ pagesize_align(n) = P * ((n \div P) + 1)
           /\ pagesize_align(n) % P = 0 /\ pagesize_align(n) \div P = (n \div P) + 1
<1>1. P \in Nat \ {0}
  BY LoaderConstants
<1>2. n \div P \in Nat /\ n % P \in 0 .. P - 1 /\ n = P * (n \div P) + (n % P)
  BY DivFacts
<1>3. pagesize_align(n) = P * ((n \div P) + 1) + 0
  BY <1>1, <1>2 DEF pagesize_align
<1>4. 0 \in 0 .. P - 1 /\ (n \div P) + 1 \in Int
  BY <1>1, <1>2
<1>5. (P * ((n \div P) + 1) + 0) \div P = (n \div P) + 1 /\ (P * ((n \div P) + 1) + 0) % P = 0
  BY <1>4, DivUnique
<1>6. pagesize_align(n) = n - (n % P) + P
  BY DEF pagesize_align
<1> QED
  BY <1>1, <1>2, <1>3, <1>5, <1>6

\* The sum of two numbers of pages is one.
LEMMA PagesAdd ==
    ASSUME NEW a \in Nat, NEW b \in Nat, a % P = 0, b % P = 0
    PROVE  (a + b) % P = 0
<1>1. P \in Nat \ {0}
  BY LoaderConstants
<1>2. a = P * (a \div P) /\ b = P * (b \div P) /\ a \div P \in Nat /\ b \div P \in Nat
  BY DivWhole
<1> DEFINE c == (a \div P) + (b \div P)
<1>3. a + b = P * c + 0
  BY <1>1, <1>2
<1>4. c \in Int /\ 0 \in 0 .. P - 1
  BY <1>1, <1>2
<1> HIDE DEF c
<1>5. (P * c + 0) % P = 0
  BY <1>4, DivUnique
<1> QED
  BY <1>3, <1>5

\* An offset from the beginning of a page does not change the place in it.
LEMMA SamePlace ==
    ASSUME NEW a \in Nat, NEW b \in Nat, a % P = 0
    PROVE  (a + b) % P = b % P
<1>1. P \in Nat \ {0}
  BY LoaderConstants
<1>2. /\ a = P * (a \div P) /\ a \div P \in Nat
      /\ b = P * (b \div P) + (b % P) /\ b \div P \in Nat /\ b % P \in 0 .. P - 1
  BY DivWhole, DivFacts
<1> DEFINE c == (a \div P) + (b \div P)
           r == b % P
<1>3. a + b = P * c + r
  BY <1>1, <1>2
<1>4. c \in Int /\ r \in 0 .. P - 1
  BY <1>1, <1>2
<1> HIDE DEF c, r
<1>5. (P * c + r) % P = r
  BY <1>4, DivUnique
<1> QED
  BY <1>3, <1>5 DEF r

\* load_phdr maps the page of address load to the page of host address t, and
\* the following pages in order: where byte i of the segment is.
LEMMA Translated ==
    ASSUME NEW load \in Nat, NEW i \in Nat, NEW t \in Nat, t % P = 0,
           NEW n \in Nat, n % P = 0, i + (load % P) < n
    PROVE  LET g == page_begin(load) \div P
               q == (load + i) \div P
           IN /\ q - g \in 0 .. (n \div P) - 1 /\ q \in Nat /\ g \in Nat
              /\ P * ((t \div P) + q - g) + ((load + i) % P) = t + (load % P) + i
<1>1. P \in Nat \ {0}
  BY LoaderConstants
<1> DEFINE l == load \div P
           q == (load + i) \div P
           r == (load + i) % P
           o == load % P
           s == n \div P
<1>2. l \in Nat /\ o \in 0 .. P - 1 /\ load = P * l + o
  BY DivFacts
<1>3. q \in Nat /\ r \in 0 .. P - 1 /\ load + i = P * q + r
  BY DivFacts
<1>4. s \in Nat /\ n = P * s
  BY DivWhole
<1>5. t \div P \in Nat /\ t = P * (t \div P)
  BY DivWhole
<1>6. page_begin(load) = P * l + 0 /\ 0 \in 0 .. P - 1 /\ l \in Int
  BY <1>1, <1>2 DEF page_begin
<1>7. page_begin(load) \div P = l
  BY <1>6, DivUnique
<1> DEFINE tp == t \div P
<1>8. tp \in Nat /\ t = P * tp
  BY <1>5
<1>12. i + o < n
  OBVIOUS
<1> HIDE DEF l, q, r, o, s, tp
<1>9. q - l >= 0
  <2>1. SUFFICES ASSUME l - q >= 1 PROVE FALSE
    BY <1>2, <1>3
  <2>2. P * (l - q) >= P
    BY <1>1, <1>2, <1>3, <2>1
  <2>3. P * (l - q) = r - i - o
    BY <1>1, <1>2, <1>3
  <2> QED
    BY <1>1, <1>2, <1>3, <2>2, <2>3
<1>10. q - l <= s - 1
  <2>1. SUFFICES ASSUME q - l - s >= 0 PROVE FALSE
    BY <1>2, <1>3, <1>4
  <2>2. P * (q - l - s) >= 0
    BY <1>1, <1>2, <1>3, <1>4, <2>1
  <2>3. P * (q - l - s) = (i + o - r) - n
    BY <1>1, <1>2, <1>3, <1>4
  <2> QED
    BY <1>1, <1>2, <1>3, <1>4, <1>12, <2>2, <2>3
<1>11. P * (tp + q - l) + r = t + o + i
  <2>1. P * (tp + q - l) = P * tp + P * q - P * l
    BY <1>1, <1>2, <1>3, <1>8
  <2> QED
    BY <1>1, <1>2, <1>3, <1>8, <2>1
<1> QED
  BY <1>2, <1>3, <1>4, <1>7, <1>9, <1>10, <1>11 DEF l, q, r, o, s, tp

--------------------------------------------------------------------------------
(***************************************************************************)
(* load_program_header: what it writes.                                    *)
(***************************************************************************)
\* Byte of a given memory.
ByteOf(m, a) == IF a \in DOMAIN m THEN m[a] ELSE OldByte

\* A write changes the bytes it has.
LEMMA WriteByte ==
    ASSUME NEW m, NEW new, NEW a
    PROVE  ByteOf(Write(m, new), a) = IF a \in DOMAIN new THEN new[a] ELSE ByteOf(m, a)
BY DEF ByteOf, Write

\* Bytes of a file are written from h on, at most n of them, each that the file has.
LEMMA FileBytesFacts ==
    ASSUME NEW h \in Nat, NEW n \in Int, NEW off
    PROVE  /\ \A a \in DOMAIN FileBytes(h, n, off) : a \in Nat /\ h <= a /\ a < h + n
           /\ \A j \in 0 .. n - 1 : off \in Nat /\ bin.length \in Nat /\ off + j < bin.length =>
                  /\ h + j \in DOMAIN FileBytes(h, n, off)
                  /\ FileBytes(h, n, off)[h + j] = <<bin.name, off + j>>
<1> DEFINE D == {h + i : i \in {j \in 0 .. n - 1 : off + j < bin.length}}
<1>1. DOMAIN FileBytes(h, n, off) = D
  BY DEF FileBytes
<1>2. ASSUME NEW a \in D PROVE a \in Nat /\ h <= a /\ a < h + n
  OBVIOUS
<1>3. ASSUME NEW j \in 0 .. n - 1, off \in Nat, bin.length \in Nat, off + j < bin.length
      PROVE  h + j \in D /\ FileBytes(h, n, off)[h + j] = <<bin.name, off + j>>
  <2>1. h + j \in D
    BY <1>3
  <2>2. FileBytes(h, n, off)[h + j] = <<bin.name, off + (h + j) - h>>
    BY <2>1 DEF FileBytes
  <2>3. off + (h + j) - h = off + j
    BY <1>3
  <2> QED
    BY <2>1, <2>2, <2>3
<1> QED
  BY <1>1, <1>2, <1>3

\* The end of a segment's part of the file, and what pad_end may write there.
LEMMA PadRange ==
    ASSUME NEW p \in Header, p.filesz <= p.memsz, NEW base \in Nat, base % P = 0,
           NEW o \in 0 .. P - 1, (p.memsz + o) % P # 0
    PROVE  LET h == base + o + p.filesz IN
           /\ h \in Nat /\ page_remain(h) \in 1 .. P
           /\ h + page_remain(h) <= base + pagesize_align(p.memsz + o)
<1>1. P \in Nat \ {0} /\ p.filesz \in Nat /\ p.memsz \in Nat
  BY LoaderConstants DEF Header
<1> DEFINE f == o + p.filesz
           n == p.memsz + o
           h == base + f
<1>2. f \in Nat /\ n \in Nat /\ f <= n /\ h \in Nat /\ h = base + o + p.filesz
  BY <1>1
<1>3. h % P = f % P
  BY <1>2, SamePlace
<1>4. f \div P \in Nat /\ f % P \in 0 .. P - 1 /\ f = P * (f \div P) + (f % P)
  BY <1>2, DivFacts
<1>5. n \div P \in Nat /\ n % P \in 0 .. P - 1 /\ n = P * (n \div P) + (n % P)
  BY <1>2, DivFacts
<1>6. pagesize_align(n) = P * ((n \div P) + 1)
  BY <1>2, AlignUp
<1> DEFINE x == f \div P
           y == n \div P
<1> DEFINE fr == f % P
           nr == n % P
<1>7. x \in Nat /\ y \in Nat /\ fr \in 0 .. P - 1 /\ nr \in 0 .. P - 1 /\ f = P * x + fr /\ n = P * y + nr
  BY <1>4, <1>5
<1>8. page_remain(h) = P - fr
  BY <1>3 DEF page_remain
<1>9. pagesize_align(n) = P * (y + 1)
  BY <1>6
<1> HIDE DEF f, n, x, y, fr, nr
<1>10. x <= y
  <2>1. SUFFICES ASSUME x - y >= 1 PROVE FALSE
    BY <1>7
  <2>2. P * (x - y) >= P
    BY <1>1, <1>7, <2>1
  <2>3. P * (x - y) = f - n + nr - fr
    BY <1>1, <1>2, <1>7
  <2> QED
    BY <1>1, <1>2, <1>7, <2>2, <2>3
<1>11. P * (x + 1) <= P * (y + 1)
  BY <1>1, <1>7, <1>10
<1>12. f + (P - fr) = P * (x + 1)
  BY <1>1, <1>7
<1>13. h + (P - fr) <= base + P * (y + 1)
  BY <1>1, <1>2, <1>7, <1>11, <1>12
<1>14. pagesize_align(p.memsz + o) = P * (y + 1)
  BY <1>9 DEF n
<1>15. (P - fr) \in 1 .. P
  BY <1>1, <1>7
<1> HIDE DEF h
<1> QED
  BY <1>2, <1>8, <1>13, <1>14, <1>15

\* A segment that is loaded at base: its bytes of the file are there, zeroes
\* follow for data, nothing below base changes, and what was unused behind the
\* segment's pages is unused still.
LEMMA SegmentWritten ==
    ASSUME bin \in Binary, NEW p \in Header, p.filesz <= p.memsz, Loadable(p),
           NEW base \in Nat, base % P = 0, (p.memsz + (p.vaddr % P)) % P # 0, NEW m
    PROVE  LET o == p.vaddr % P
               end == base + pagesize_align(p.memsz + o)
               new == load_program_header(m, p, base)
           IN /\ \A a \in Nat : a < base => ByteOf(new, a) = ByteOf(m, a)
              /\ \A i \in 0 .. p.filesz - 1 : ByteOf(new, base + o + i) = <<bin.name, p.off + i>>
              /\ "X" \notin p.flags => \A i \in p.filesz .. p.memsz - 1 :
                                           ByteOf(new, base + o + i) = NoByte
              /\ \A a \in Nat : a >= end /\ ByteOf(m, a) \in Unused => ByteOf(new, a) \in Unused
<1> DEFINE o == p.vaddr % P
           h == base + o + p.filesz
           end == base + pagesize_align(p.memsz + o)
           m1 == pad_begin(m, p, base)
           m2 == read_segment(m1, p, base)
           m3 == pad_end(m2, p, base)
<1>0. /\ P \in Nat \ {0} /\ p.filesz \in Nat /\ p.memsz \in Nat /\ p.vaddr \in Nat /\ p.off \in Nat
      /\ bin.length \in Nat
  BY LoaderConstants DEF Header, Binary
<1>1. o \in 0 .. P - 1 /\ base + o \in Nat
  BY <1>0, DivFacts
<1>2. /\ h \in Nat /\ page_remain(h) \in 1 .. P /\ h + page_remain(h) <= end
  BY <1>1, PadRange
<1>3. ASSUME NEW a \in Nat, ~(base <= a /\ a < base + o)
      PROVE  ByteOf(m1, a) = ByteOf(m, a)
  <2>1. ASSUME NEW off PROVE a \notin DOMAIN FileBytes(base, o, off)
    <3>1. o \in Int
      BY <1>1
    <3> QED
      BY <1>3, <3>1, FileBytesFacts
  <2>2. ASSUME NEW b PROVE a \notin DOMAIN Fill(base, o, b)
    <3>1. DOMAIN Fill(base, o, b) = base .. base + o - 1
      BY DEF Fill
    <3> QED
      BY <1>1, <1>3, <3>1
  <2>3. ASSUME NEW off PROVE ByteOf(Write(m, FileBytes(base, o, off)), a) = ByteOf(m, a)
    BY <2>1, WriteByte
  <2>4. ASSUME NEW b PROVE ByteOf(Write(m, Fill(base, o, b)), a) = ByteOf(m, a)
    BY <2>2, WriteByte
  <2>5. \/ m1 = m
        \/ \E b : m1 = Write(m, Fill(base, o, b))
        \/ \E off : m1 = Write(m, FileBytes(base, o, off))
    BY DEF pad_begin, offset_in_page
  <2> HIDE DEF m1
  <2> QED
    BY <2>3, <2>4, <2>5
<1>4. m2 = Write(m1, FileBytes(base + o, p.filesz, p.off))
  BY DEF read_segment, offset_in_page
<1>5. ASSUME NEW a \in Nat, ~(base + o <= a /\ a < h)
      PROVE  ByteOf(m2, a) = ByteOf(m1, a)
  <2>1. a \notin DOMAIN FileBytes(base + o, p.filesz, p.off)
    BY <1>0, <1>1, <1>5, FileBytesFacts
  <2> QED
    BY <1>4, <2>1, WriteByte
<1>6. ASSUME NEW i \in 0 .. p.filesz - 1
      PROVE  ByteOf(m2, base + o + i) = <<bin.name, p.off + i>>
  <2>1. p.off + i < bin.length
    BY <1>0 DEF Loadable
  <2> DEFINE F == FileBytes(base + o, p.filesz, p.off)
  <2>2. (base + o) + i \in DOMAIN F /\ F[(base + o) + i] = <<bin.name, p.off + i>>
    BY <1>0, <1>1, <2>1, FileBytesFacts
  <2>3. m2 = Write(m1, F)
    BY <1>4
  <2> HIDE DEF F, m2
  <2> QED
    BY <2>2, <2>3, WriteByte
<1>7. ASSUME "X" \in p.flags
      PROVE  \A a \in Nat : ~(h <= a /\ a < end) => ByteOf(m3, a) = ByteOf(m2, a)
  <2> SUFFICES ASSUME NEW a \in Nat, ~(h <= a /\ a < end) PROVE ByteOf(m3, a) = ByteOf(m2, a)
    OBVIOUS
  <2> DEFINE F == FileBytes(h, page_remain(h), find_header("W").off)
  <2>1. m3 = Write(m2, F)
    BY <1>7 DEF pad_end, offset_in_page
  <2>2. end \in Int
    BY <1>0, <1>1, AlignUp
  <2>3. page_remain(h) \in Int
    BY <1>0, <1>2
  <2>4. \A b \in DOMAIN F : b \in Nat /\ h <= b /\ b < h + page_remain(h)
    BY <1>2, <2>3, FileBytesFacts
  <2> HIDE DEF F, h, end
  <2>5. a \notin DOMAIN F
    BY <1>2, <2>2, <2>3, <2>4
  <2> QED
    BY <2>1, <2>5, WriteByte
<1>8. ASSUME "X" \notin p.flags
      PROVE  /\ \A a \in Nat : a < h => ByteOf(m3, a) = ByteOf(m2, a)
             /\ \A i \in p.filesz .. p.memsz - 1 : ByteOf(m3, base + o + i) = NoByte
             /\ \A a \in Nat : ByteOf(m2, a) \in Unused => ByteOf(m3, a) \in Unused
  <2> DEFINE n == page_remain(h) + p.memsz - p.filesz
             F == Fill(h, n, NoByte)
  <2>1. m3 = Write(m2, F)
    BY <1>8 DEF pad_end, offset_in_page
  <2>2. DOMAIN F = h .. h + n - 1 /\ \A a \in DOMAIN F : F[a] = NoByte
    BY DEF Fill
  <2>3. n \in Int /\ h + n - 1 >= base + o + p.memsz
    BY <1>0, <1>1, <1>2
  <2>4. ASSUME NEW i \in p.filesz .. p.memsz - 1 PROVE base + o + i \in h .. h + n - 1
    BY <1>0, <1>1, <1>2, <2>3
  <2>5. \A a \in Nat : a < h => a \notin h .. h + n - 1
    BY <1>2, <2>3
  <2>6. \A a : ByteOf(m3, a) = IF a \in DOMAIN F THEN F[a] ELSE ByteOf(m2, a)
    BY <2>1, WriteByte
  <2> HIDE DEF F, n, m2, m3, h
  <2>7. \A a \in Nat : a < h => ByteOf(m3, a) = ByteOf(m2, a)
    BY <2>2, <2>5, <2>6
  <2>8. \A i \in p.filesz .. p.memsz - 1 : ByteOf(m3, base + o + i) = NoByte
    BY <2>2, <2>4, <2>6
  <2>9. \A a \in Nat : ByteOf(m2, a) \in Unused => ByteOf(m3, a) \in Unused
    BY <2>2, <2>6 DEF Unused
  <2> QED
    BY <2>7, <2>8, <2>9
<1>9. load_program_header(m, p, base) = m3
  BY DEF load_program_header
<1>10. end \in Nat /\ h <= end /\ base + o <= h /\ base <= base + o
  <2>1. p.memsz + o \in Nat
    BY <1>0, <1>1
  <2>2. pagesize_align(p.memsz + o) \in Nat
    BY <2>1, AlignUp
  <2> HIDE DEF o
  <2> QED
    BY <1>0, <1>1, <1>2, <2>2
<1> HIDE DEF m1, m2, m3, h, end, o
<1>11. ASSUME NEW a \in Nat, a < base PROVE ByteOf(m3, a) = ByteOf(m, a)
  <2>1. ByteOf(m1, a) = ByteOf(m, a)
    BY <1>3, <1>11
  <2>2. ByteOf(m2, a) = ByteOf(m1, a)
    BY <1>1, <1>2, <1>5, <1>10, <1>11
  <2>3. ByteOf(m3, a) = ByteOf(m2, a)
    BY <1>1, <1>2, <1>7, <1>8, <1>10, <1>11
  <2> QED
    BY <2>1, <2>2, <2>3
<1>12. ASSUME NEW i \in 0 .. p.filesz - 1 PROVE ByteOf(m3, base + o + i) = <<bin.name, p.off + i>>
  <2>1. base + o + i \in Nat /\ base + o + i < h
    BY <1>0, <1>1 DEF h
  <2>2. ByteOf(m3, base + o + i) = ByteOf(m2, base + o + i)
    BY <1>2, <1>7, <1>8, <2>1
  <2> QED
    BY <1>6, <2>2
<1>13. ASSUME NEW a \in Nat, a >= end, ByteOf(m, a) \in Unused PROVE ByteOf(m3, a) \in Unused
  <2>1. ByteOf(m1, a) = ByteOf(m, a)
    BY <1>1, <1>2, <1>3, <1>10, <1>13
  <2>2. ByteOf(m2, a) = ByteOf(m1, a)
    BY <1>1, <1>2, <1>5, <1>10, <1>13
  <2>3. "X" \in p.flags => ByteOf(m3, a) = ByteOf(m2, a)
    BY <1>7, <1>10, <1>13
  <2> QED
    BY <1>8, <1>13, <2>1, <2>2, <2>3
<1> QED
  BY <1>8, <1>9, <1>11, <1>12, <1>13 DEF o, end

--------------------------------------------------------------------------------
(***************************************************************************)
(* The loader's invariant.  A segment is placed below the first byte that  *)
(* no region has, later below the environment's region, and what is not    *)
(* yet a region's is zero.                                                 *)
(***************************************************************************)
Segment == [p : Header, file : STRING, addr : Nat]
Loading == {"check", "parse", "loaded"}
Good == Loading \cup {"environment", "setup", "ready"}

\* Byte i of a segment is mapped below lim in the page tables t.
Placed(t, s, lim) ==
    \A i \in 0 .. s.p.memsz - 1 :
        /\ (s.addr + i) \div P \in DOMAIN t
        /\ P * t[(s.addr + i) \div P] + ((s.addr + i) % P) \in Nat
        /\ P * t[(s.addr + i) \div P] + ((s.addr + i) % P) < lim

\* It is what the file has there, or zero.
Right(t, m, s) ==
    /\ \A i \in 0 .. s.p.filesz - 1 :
           ByteOf(m, P * t[(s.addr + i) \div P] + ((s.addr + i) % P)) = <<s.file, s.p.off + i>>
    /\ "X" \notin s.p.flags => \A i \in s.p.filesz .. s.p.memsz - 1 :
           ByteOf(m, P * t[(s.addr + i) \div P] + ((s.addr + i) % P)) = NoByte

Limit == IF step \in Loading THEN top ELSE envBase

\* All segments so far.
SegmentsOK(ss, t, m, lim) ==
    \A k \in 1 .. Len(ss) :
        /\ ss[k].p.filesz <= ss[k].p.memsz
        /\ Placed(t, ss[k], lim) /\ Right(t, m, ss[k])

Blank(m, lim) == \A a \in Nat : a >= lim => ByteOf(m, a) \in Unused

LoadTypes ==
    /\ bin \in Binary /\ isLdr \in BOOLEAN /\ idx \in Nat \ {0}
    /\ isLdr => atBase \in {0, LoaderBase}
    /\ top \in Nat /\ top % P = 0 /\ segs \in Seq(Segment)

\* What keeps the mapped pages and the bytes below the limit keeps a segment.
LEMMA SegmentKept ==
    ASSUME NEW t, NEW m, NEW s \in Segment, NEW lim \in Nat, Placed(t, s, lim), Right(t, m, s),
           s.p.filesz <= s.p.memsz,
           NEW t2, NEW m2, NEW lim2 \in Nat, lim <= lim2,
           \A q \in DOMAIN t : q \in DOMAIN t2 /\ t2[q] = t[q],
           \A a \in Nat : a < lim => ByteOf(m2, a) = ByteOf(m, a)
    PROVE  Placed(t2, s, lim2) /\ Right(t2, m2, s)
<1>1. s.p.filesz \in Nat /\ s.p.memsz \in Nat
  BY DEF Segment, Header
<1> DEFINE Host(x, i) == P * x[(s.addr + i) \div P] + ((s.addr + i) % P)
<1>2. ASSUME NEW i \in 0 .. s.p.memsz - 1
      PROVE  /\ (s.addr + i) \div P \in DOMAIN t2
             /\ Host(t2, i) = Host(t, i) /\ Host(t, i) \in Nat /\ Host(t, i) < lim
  BY DEF Placed
<1>3. ASSUME NEW i \in 0 .. s.p.memsz - 1
      PROVE  ByteOf(m2, Host(t2, i)) = ByteOf(m, Host(t, i))
  BY <1>2
<1>4. \A i \in 0 .. s.p.filesz - 1 : ByteOf(m, Host(t, i)) = <<s.file, s.p.off + i>>
  BY DEF Right
<1>5. "X" \notin s.p.flags =>
          \A i \in s.p.filesz .. s.p.memsz - 1 : ByteOf(m, Host(t, i)) = NoByte
  BY DEF Right
<1>6. Placed(t2, s, lim2) = \A i \in 0 .. s.p.memsz - 1 :
          (s.addr + i) \div P \in DOMAIN t2 /\ Host(t2, i) \in Nat /\ Host(t2, i) < lim2
  BY DEF Placed
<1>7. Right(t2, m2, s) =
        /\ \A i \in 0 .. s.p.filesz - 1 : ByteOf(m2, Host(t2, i)) = <<s.file, s.p.off + i>>
        /\ "X" \notin s.p.flags =>
               \A i \in s.p.filesz .. s.p.memsz - 1 : ByteOf(m2, Host(t2, i)) = NoByte
  BY DEF Right
<1> HIDE DEF Host
<1>8. Placed(t2, s, lim2)
  <2> SUFFICES ASSUME NEW i \in 0 .. s.p.memsz - 1
               PROVE  (s.addr + i) \div P \in DOMAIN t2 /\ Host(t2, i) \in Nat /\ Host(t2, i) < lim2
    BY <1>6
  <2>1. (s.addr + i) \div P \in DOMAIN t2
    BY <1>2
  <2>2. Host(t2, i) \in Nat /\ Host(t2, i) < lim
    BY <1>2
  <2> QED
    BY <2>1, <2>2
<1>9. \A i \in 0 .. s.p.filesz - 1 : i \in 0 .. s.p.memsz - 1
  BY <1>1
<1>10. \A i \in s.p.filesz .. s.p.memsz - 1 : i \in 0 .. s.p.memsz - 1
  BY <1>1
<1>11. Right(t2, m2, s)
  <2>1. \A i \in 0 .. s.p.filesz - 1 : ByteOf(m2, Host(t2, i)) = <<s.file, s.p.off + i>>
    BY <1>3, <1>4, <1>9
  <2>2. ASSUME "X" \notin s.p.flags, NEW i \in s.p.filesz .. s.p.memsz - 1
        PROVE  ByteOf(m2, Host(t2, i)) = NoByte
    BY <1>3, <1>5, <1>10, <2>2
  <2> QED
    BY <1>7, <2>1, <2>2
<1> QED
  BY <1>8, <1>11

\* The same for all of them.
LEMMA SegmentsKept ==
    ASSUME NEW ss \in Seq(Segment), NEW t, NEW m, NEW lim \in Nat, SegmentsOK(ss, t, m, lim),
           NEW t2, NEW m2, NEW lim2 \in Nat, lim <= lim2,
           \A q \in DOMAIN t : q \in DOMAIN t2 /\ t2[q] = t[q],
           \A a \in Nat : a < lim => ByteOf(m2, a) = ByteOf(m, a)
    PROVE  SegmentsOK(ss, t2, m2, lim2)
<1> SUFFICES ASSUME NEW k \in 1 .. Len(ss)
             PROVE  /\ ss[k].p.filesz <= ss[k].p.memsz
                    /\ Placed(t2, ss[k], lim2) /\ Right(t2, m2, ss[k])
  BY DEF SegmentsOK
<1>1. ss[k] \in Segment /\ ss[k].p.filesz <= ss[k].p.memsz
      /\ Placed(t, ss[k], lim) /\ Right(t, m, ss[k])
  BY DEF SegmentsOK
<1> QED
  BY <1>1, SegmentKept

\* load_phdr puts a segment behind the others.
LEMMA LoadPhdrStep ==
    ASSUME LoadTypes, Blank(mem, top), SegmentsOK(segs, pt, mem, top), step = "parse",
           NEW p \in Header, p.filesz <= p.memsz, load_phdr(p), step' # "aborted"
    PROVE  /\ step' = step /\ top' \in Nat /\ top' % P = 0 /\ segs' \in Seq(Segment)
           /\ isLdr => atBase' \in {0, LoaderBase}
           /\ Blank(mem', top') /\ SegmentsOK(segs', pt', mem', top')
<1> DEFINE ldrBase == IF atBase = 0 THEN LoaderBase ELSE atBase
           load == IF isLdr THEN ldrBase + p.vaddr ELSE p.vaddr
           o == p.vaddr % P
           total == p.memsz + o
           size == pagesize_align(total)
           guest == page_begin(load)
           pages == 0 .. (size \div P) - 1
           new == [q \in {(guest \div P) + i : i \in pages} |-> (top \div P) + q - (guest \div P)]
           s == [p |-> p, file |-> bin.name, addr |-> load]
<1>1. /\ P \in Nat \ {0} /\ LoaderBase \in Nat /\ LoaderBase % P = 0
      /\ p.vaddr \in Nat /\ p.memsz \in Nat /\ p.filesz \in Nat /\ p.off \in Nat
      /\ bin.name \in STRING /\ bin.length \in Nat
  BY LoaderConstants DEF LoadTypes, Header, Binary
<1>2. load \in Nat /\ load % P = o /\ (isLdr => ldrBase = LoaderBase)
  <2>1. CASE isLdr
    <3>1. ldrBase = LoaderBase
      BY <2>1 DEF LoadTypes
    <3>2. (LoaderBase + p.vaddr) % P = o
      BY <1>1, SamePlace
    <3>3. load = LoaderBase + p.vaddr
      BY <2>1, <3>1
    <3> QED
      BY <1>1, <3>1, <3>2, <3>3
  <2>2. CASE ~isLdr
    BY <1>1, <2>2
  <2> QED
    BY <2>1, <2>2
<1>3. o \in 0 .. P - 1 /\ total \in Nat
  <2>1. o \in 0 .. P - 1
    BY <1>1, DivFacts
  <2> QED
    BY <1>1, <2>1
<1>4. load_phdr(p) =
        /\ atBase' = IF isLdr THEN ldrBase ELSE atBase
        /\ IF \/ ~Loadable(p) \/ guest = 0
              \/ DOMAIN new \cap DOMAIN pt # {}
              \/ total % P = 0
           THEN step' = "aborted" /\ UNCHANGED <<mem, top, segs, pt, curbrk>>
           ELSE /\ mem' = load_program_header(mem, p, top)
                /\ top' = top + size
                /\ pt' = [q \in DOMAIN pt \cup DOMAIN new |-> IF q \in DOMAIN new THEN new[q] ELSE pt[q]]
                /\ segs' = Append(segs, s)
                /\ curbrk' = next_page(guest + total)
                /\ UNCHANGED step
  <2>1. p.memsz + offset_in_page(load) = total
    BY <1>2 DEF offset_in_page
  <2> QED
    BY <2>1 DEF load_phdr
<1>5. /\ Loadable(p) /\ DOMAIN new \cap DOMAIN pt = {} /\ total % P # 0
      /\ mem' = load_program_header(mem, p, top)
      /\ top' = top + size
      /\ pt' = [q \in DOMAIN pt \cup DOMAIN new |-> IF q \in DOMAIN new THEN new[q] ELSE pt[q]]
      /\ segs' = Append(segs, s)
      /\ step' = step /\ atBase' = IF isLdr THEN ldrBase ELSE atBase
  <2> HIDE DEF ldrBase, load, o, total, size, guest, pages, new, s
  <2> QED
    BY <1>4
<1>6. /\ size \in Nat /\ total < size /\ size % P = 0
  BY <1>3, <1>5, AlignUp
<1>7. top \in Nat /\ top % P = 0 /\ segs \in Seq(Segment) /\ bin \in Binary
  BY DEF LoadTypes
<1>8. /\ \A a \in Nat : a < top => ByteOf(mem', a) = ByteOf(mem, a)
      /\ \A i \in 0 .. p.filesz - 1 : ByteOf(mem', top + o + i) = <<bin.name, p.off + i>>
      /\ "X" \notin p.flags => \A i \in p.filesz .. p.memsz - 1 : ByteOf(mem', top + o + i) = NoByte
      /\ \A a \in Nat : a >= top + size /\ ByteOf(mem, a) \in Unused => ByteOf(mem', a) \in Unused
  BY <1>5, <1>7, SegmentWritten
<1>9. s \in Segment
  BY <1>1, <1>2 DEF Segment
<1>10. \A q \in DOMAIN pt : q \in DOMAIN pt' /\ pt'[q] = pt[q]
  <2> HIDE DEF new
  <2> QED
    BY <1>5
<1>11. DOMAIN new = {(guest \div P) + i : i \in pages}
  OBVIOUS
<1>12. ASSUME NEW i \in 0 .. p.memsz - 1
       PROVE  /\ (load + i) \div P \in DOMAIN pt'
              /\ P * pt'[(load + i) \div P] + ((load + i) % P) = top + o + i
  <2> DEFINE g == guest \div P
             q == (load + i) \div P
  <2>1. i \in Nat /\ i + (load % P) < size
    BY <1>1, <1>2, <1>3, <1>6
  <2>2. /\ q - g \in pages /\ q \in Nat /\ g \in Nat
        /\ P * ((top \div P) + q - g) + ((load + i) % P) = top + o + i
    BY <1>2, <1>6, <1>7, <2>1, Translated
  <2>3. g + (q - g) = q
    BY <2>2
  <2>4. q \in DOMAIN new
    <3> HIDE DEF q, new, pages, guest
    <3> QED
      BY <1>11, <2>2, <2>3
  <2>5. new[q] = (top \div P) + q - g
    <3> HIDE DEF q
    <3> QED
      BY <1>11, <2>4
  <2>6. q \in DOMAIN pt' /\ pt'[q] = new[q]
    <3> HIDE DEF q, new
    <3> QED
      BY <1>5, <2>4
  <2> HIDE DEF q, g, new
  <2> QED
    BY <2>2, <2>5, <2>6 DEF q
<1> HIDE DEF ldrBase, size, guest, pages, new
<1>13. \A i \in 0 .. p.memsz - 1 : top + o + i \in Nat /\ top + o + i < top'
  <2>1. top' = top + size /\ p.memsz + o < size /\ o \in Nat
    BY <1>3, <1>5, <1>6
  <2> HIDE DEF o
  <2> QED
    BY <1>1, <1>6, <1>7, <2>1
<1>14. s.p = p /\ s.addr = load /\ s.file = bin.name
  OBVIOUS
<1> HIDE DEF s, load, o, total
<1>15. Placed(pt', s, top')
  BY <1>12, <1>13, <1>14 DEF Placed
<1>16. Right(pt', mem', s)
  <2>1. \A i \in 0 .. p.filesz - 1 : i \in 0 .. p.memsz - 1
    BY <1>1
  <2>2. \A i \in p.filesz .. p.memsz - 1 : i \in 0 .. p.memsz - 1
    BY <1>1
  <2>3. \A i \in 0 .. p.filesz - 1 :
            ByteOf(mem', P * pt'[(load + i) \div P] + ((load + i) % P)) = <<bin.name, p.off + i>>
    BY <1>8, <1>12, <2>1
  <2>4. ASSUME "X" \notin p.flags, NEW i \in p.filesz .. p.memsz - 1
        PROVE  ByteOf(mem', P * pt'[(load + i) \div P] + ((load + i) % P)) = NoByte
    BY <1>8, <1>12, <2>2, <2>4
  <2> QED
    BY <1>14, <2>3, <2>4 DEF Right
<1>17. top' \in Nat /\ top <= top' /\ top' % P = 0
  BY <1>5, <1>6, <1>7, PagesAdd
<1>18. SegmentsOK(segs, pt', mem', top')
  BY <1>7, <1>8, <1>10, <1>17, SegmentsKept
<1>19. SegmentsOK(segs', pt', mem', top')
  <2> SUFFICES ASSUME NEW k \in 1 .. Len(segs')
               PROVE  /\ segs'[k].p.filesz <= segs'[k].p.memsz
                      /\ Placed(pt', segs'[k], top') /\ Right(pt', mem', segs'[k])
    BY DEF SegmentsOK
  <2>1. Len(segs') = Len(segs) + 1
    BY <1>5, <1>7
  <2>2. CASE k = Len(segs) + 1
    <3>1. segs'[k] = s
      BY <1>5, <1>7, <2>2
    <3> QED
      BY <1>14, <1>15, <1>16, <3>1
  <2>3. CASE k # Len(segs) + 1
    <3>1. k \in 1 .. Len(segs) /\ segs'[k] = segs[k]
      BY <1>5, <1>7, <2>1, <2>3
    <3> QED
      BY <1>18, <3>1 DEF SegmentsOK
  <2> QED
    BY <2>2, <2>3
<1>20. Blank(mem', top')
  <2> SUFFICES ASSUME NEW a \in Nat, a >= top' PROVE ByteOf(mem', a) \in Unused
    BY DEF Blank
  <2>1. a >= top + size /\ a >= top
    BY <1>5, <1>6, <1>7, <1>17
  <2> QED
    BY <1>8, <2>1 DEF Blank
<1>21. segs' \in Seq(Segment)
  BY <1>5, <1>7, <1>9
<1>22. isLdr => atBase' \in {0, LoaderBase}
  BY <1>2, <1>5 DEF LoadTypes
<1> QED
  BY <1>5, <1>17, <1>19, <1>20, <1>21, <1>22

--------------------------------------------------------------------------------
(***************************************************************************)
(* Sequences: what is pushed, and its order upwards in memory.             *)
(***************************************************************************)
\* Natural numbers with a property have a least one.
LEMMA LeastNumber ==
    ASSUME NEW T, T \subseteq Nat, T # {}
    PROVE  \E x \in T : \A y \in T : x <= y
<1>1. PICK R : IsWellFoundedOn(R, Nat) /\ \A x, y \in Nat : y < x => <<y, x>> \in R
  <2>1. \A x, y \in Nat : y < x => <<y, x>> \in OpToRel(<, Nat)
    BY DEF OpToRel
  <2>2. \E R : IsWellFoundedOn(R, Nat) /\ \A x, y \in Nat : y < x => <<y, x>> \in R
    <3> WITNESS OpToRel(<, Nat)
    <3> QED
      BY <2>1, NatLessThanWellFounded
  <2> QED
    BY <2>2
<1>2. PICK x \in T : \A y \in T : ~(<<y, x>> \in R)
  BY <1>1, WFMin
<1>3. ASSUME NEW y \in T PROVE x <= y
  <2>1. x \in Nat /\ y \in Nat
    OBVIOUS
  <2>2. ~(y < x)
    BY <1>1, <1>2, <2>1
  <2> QED
    BY <2>1, <2>2
<1> QED
  BY <1>3

\* A sequence read backwards.
LEMMA BackwardsFacts ==
    ASSUME NEW S, NEW s \in Seq(S)
    PROVE  /\ Backwards(s) \in Seq(S) /\ Len(Backwards(s)) = Len(s)
           /\ \A i \in 1 .. Len(s) : Backwards(s)[i] = s[Len(s) + 1 - i]
<1>1. DOMAIN s = 1 .. Len(s) /\ Len(s) \in Nat /\ \A i \in 1 .. Len(s) : s[i] \in S
  OBVIOUS
<1>2. Backwards(s) = [i \in 1 .. Len(s) |-> s[Len(s) + 1 - i]]
  BY <1>1 DEF Backwards
<1>3. \A i \in 1 .. Len(s) : Len(s) + 1 - i \in 1 .. Len(s)
  BY <1>1
<1> QED
  BY <1>1, <1>2, <1>3

LEMMA BackwardsConcat ==
    ASSUME NEW S, NEW s \in Seq(S), NEW t \in Seq(S)
    PROVE  Backwards(s \o t) = Backwards(t) \o Backwards(s)
<1> DEFINE a == Backwards(s \o t)
           b == Backwards(t) \o Backwards(s)
           n == Len(s)
           m == Len(t)
<1>1. n \in Nat /\ m \in Nat
  OBVIOUS
<1> DEFINE c == s \o t
<1>2. /\ c \in Seq(S) /\ Len(c) = n + m
      /\ \A i \in 1 .. n + m : c[i] = IF i <= n THEN s[i] ELSE t[i - n]
  BY ConcatProperties
<1>3. /\ a \in Seq(S) /\ Len(a) = n + m
      /\ \A i \in 1 .. n + m : a[i] = c[n + m + 1 - i]
  <2>1. a = Backwards(c)
    OBVIOUS
  <2> HIDE DEF c, a, n, m
  <2> QED
    BY <1>2, <2>1, BackwardsFacts
<1>4. /\ Backwards(s) \in Seq(S) /\ Len(Backwards(s)) = n
      /\ \A i \in 1 .. n : Backwards(s)[i] = s[n + 1 - i]
  BY BackwardsFacts
<1>5. /\ Backwards(t) \in Seq(S) /\ Len(Backwards(t)) = m
      /\ \A i \in 1 .. m : Backwards(t)[i] = t[m + 1 - i]
  BY BackwardsFacts
<1>6. /\ b \in Seq(S) /\ Len(b) = m + n
      /\ \A i \in 1 .. m + n : b[i] = IF i <= m THEN Backwards(t)[i] ELSE Backwards(s)[i - m]
  <2> DEFINE u == Backwards(t)
             w == Backwards(s)
  <2>1. u \in Seq(S) /\ w \in Seq(S) /\ Len(u) = m /\ Len(w) = n /\ b = u \o w
    BY <1>4, <1>5
  <2> HIDE DEF u, w, n, m, b
  <2>2. /\ b \in Seq(S) /\ Len(b) = m + n
        /\ \A i \in 1 .. m + n : b[i] = IF i <= m THEN u[i] ELSE w[i - m]
    BY <2>1, ConcatProperties
  <2> QED
    BY <2>2 DEF u, w
<1> HIDE DEF a, b, n, m, c
<1>7. ASSUME NEW i \in 1 .. n + m PROVE a[i] = b[i]
  <2>1. n + m + 1 - i \in 1 .. n + m
    BY <1>1
  <2>2. a[i] = IF n + m + 1 - i <= n THEN s[n + m + 1 - i] ELSE t[(n + m + 1 - i) - n]
    BY <1>2, <1>3, <2>1
  <2>3. CASE i <= m
    <3>1. b[i] = t[m + 1 - i]
      BY <1>1, <1>5, <1>6, <2>3
    <3>2. ~(n + m + 1 - i <= n) /\ (n + m + 1 - i) - n = m + 1 - i
      BY <1>1, <2>3
    <3> QED
      BY <2>2, <3>1, <3>2
  <2>4. CASE ~(i <= m)
    <3>1. i - m \in 1 .. n
      BY <1>1, <2>4
    <3>2. b[i] = s[n + 1 - (i - m)]
      BY <1>1, <1>4, <1>6, <2>4, <3>1
    <3>3. n + m + 1 - i <= n /\ n + 1 - (i - m) = n + m + 1 - i
      BY <1>1, <2>4
    <3> QED
      BY <2>2, <3>2, <3>3
  <2> QED
    BY <2>3, <2>4
<1>8. Len(a) = Len(b) /\ Len(a) = n + m
  BY <1>1, <1>3, <1>6
<1>9. a = b
  BY <1>3, <1>6, <1>7, <1>8, SeqEqual
<1> QED
  BY <1>9 DEF a, b

\* A function on 1 .. n is a sequence.
LEMMA FunctionIsSeq ==
    ASSUME NEW S, NEW n \in Nat, NEW f, f = [i \in 1 .. n |-> f[i]], \A i \in 1 .. n : f[i] \in S
    PROVE  f \in Seq(S) /\ Len(f) = n
<1>1. f \in [1 .. n -> S]
  OBVIOUS
<1> QED
  BY <1>1

\* Concat is what its recursion says.
LEMMA ConcatParts ==
    ASSUME NEW S, NEW ss \in Seq(Seq(S))
    PROVE  \E f \in [0 .. Len(ss) -> Seq(S)] :
               /\ f[0] = <<>> /\ Concat(ss) = f[Len(ss)]
               /\ \A i \in 1 .. Len(ss) : f[i] = f[i - 1] \o ss[i]
<1> DEFINE N == Len(ss)
           Rec(f, k) == f = [i \in 0 .. k |-> IF i = 0 THEN <<>> ELSE f[i - 1] \o ss[i]]
           T == {k \in Nat : k <= N /\ ~\E f : Rec(f, k)}
<1>1. N \in Nat /\ \A i \in 1 .. N : ss[i] \in Seq(S)
  OBVIOUS
<1>2. T = {}
  <2> SUFFICES ASSUME T # {} PROVE FALSE
    OBVIOUS
  <2>1. PICK x \in T : \A y \in T : x <= y
    BY LeastNumber
  <2>2. x # 0
    <3>1. Rec([i \in 0 .. 0 |-> <<>>], 0)
      OBVIOUS
    <3> QED
      BY <2>1, <3>1
  <2>3. x - 1 \in Nat /\ x - 1 <= N /\ ~(x <= x - 1) /\ x \in Nat
    BY <1>1, <2>1, <2>2
  <2>4. PICK f : Rec(f, x - 1)
    BY <2>1, <2>3
  <2> DEFINE g == [i \in 0 .. x |-> IF i = x THEN f[x - 1] \o ss[x] ELSE f[i]]
  <2>5. \A i \in 0 .. x : g[i] = IF i = 0 THEN <<>> ELSE g[i - 1] \o ss[i]
    <3> SUFFICES ASSUME NEW i \in 0 .. x PROVE g[i] = IF i = 0 THEN <<>> ELSE g[i - 1] \o ss[i]
      OBVIOUS
    <3>1. CASE i = x
      <4>0. i - 1 \in 0 .. x /\ i - 1 # x /\ i # 0
        BY <2>2, <2>3, <3>1
      <4>1. g[i] = f[x - 1] \o ss[x]
        BY <3>1
      <4>2. g[i - 1] = f[x - 1]
        BY <4>0, <3>1
      <4> QED
        BY <3>1, <4>0, <4>1, <4>2
    <3>2. CASE i # x
      <4>1. i \in 0 .. x - 1 /\ g[i] = f[i]
        BY <2>3, <3>2
      <4>2. f[i] = IF i = 0 THEN <<>> ELSE f[i - 1] \o ss[i]
        BY <2>4, <4>1
      <4>3. i # 0 => i - 1 \in 0 .. x /\ i - 1 # x
        BY <2>3, <4>1
      <4>4. i # 0 => g[i - 1] = f[i - 1]
        BY <4>3
      <4> QED
        BY <4>1, <4>2, <4>4
    <3> QED
      BY <3>1, <3>2
  <2>6. Rec(g, x)
    <3>1. g = [i \in 0 .. x |-> g[i]]
      OBVIOUS
    <3> HIDE DEF g
    <3> QED
      BY <2>5, <3>1
  <2>7. \E h : Rec(h, x)
    <3> HIDE DEF g, Rec
    <3> QED
      BY <2>6
  <2> QED
    BY <2>1, <2>7
<1>3. \E f : Rec(f, N)
  <2> HIDE DEF Rec, N
  <2>1. N <= N
    BY <1>1
  <2>2. N \notin T
    <3> HIDE DEF T
    <3> QED
      BY <1>2
  <2> QED
    BY <1>1, <2>1, <2>2
<1>4. \E f : Rec(f, N) /\ Concat(ss) = f[N]
  BY <1>3, Zenon DEF Concat
<1>5. PICK f : Rec(f, N) /\ Concat(ss) = f[N]
  BY <1>4
<1>6. /\ f[0] = <<>> /\ DOMAIN f = 0 .. N
      /\ \A i \in 1 .. N : f[i] = f[i - 1] \o ss[i]
  <2>1. DOMAIN f = 0 .. N
    BY <1>5
  <2>2. \A i \in 0 .. N : f[i] = IF i = 0 THEN <<>> ELSE f[i - 1] \o ss[i]
    BY <1>5
  <2>3. 0 \in 0 .. N /\ \A i \in 1 .. N : i \in 0 .. N /\ i # 0
    BY <1>1
  <2> QED
    BY <2>1, <2>2, <2>3
<1>7. \A i \in 0 .. N : f[i] \in Seq(S)
  <2> DEFINE U == {k \in Nat : k \in 0 .. N /\ f[k] \notin Seq(S)}
  <2> SUFFICES ASSUME U # {} PROVE FALSE
    BY <1>1
  <2>1. PICK x \in U : \A y \in U : x <= y
    BY LeastNumber
  <2>2. f[0] \in Seq(S)
    BY <1>6
  <2>3. x # 0
    BY <2>1, <2>2
  <2>4. x \in 1 .. N /\ x - 1 \in Nat /\ x - 1 \in 0 .. N /\ ~(x <= x - 1)
    BY <1>1, <2>3
  <2>5. f[x - 1] \in Seq(S)
    BY <2>1, <2>4
  <2>6. f[x] \in Seq(S)
    BY <1>1, <1>6, <2>4, <2>5, ConcatProperties
  <2> QED
    BY <2>6
<1>8. f = [i \in 0 .. N |-> f[i]]
  BY <1>5
<1>9. f \in [0 .. N -> Seq(S)]
  BY <1>7, <1>8
<1> QED
  BY <1>5, <1>6, <1>9

\* Short sequences backwards.
LEMMA BackwardsShort ==
    /\ Backwards(<<>>) = <<>>
    /\ \A a : Backwards(<<a>>) = <<a>>
    /\ \A a, b : Backwards(<<a, b>>) = <<b, a>>
<1>1. Backwards(<<>>) = <<>>
  <2>1. <<>> \in Seq({}) /\ Len(<<>>) = 0
    OBVIOUS
  <2>2. Backwards(<<>>) \in Seq({}) /\ Len(Backwards(<<>>)) = 0
    BY <2>1, BackwardsFacts
  <2> QED
    BY <2>2
<1>2. ASSUME NEW a PROVE Backwards(<<a>>) = <<a>>
  <2> DEFINE s == <<a>>
  <2>1. s \in Seq({a}) /\ Len(s) = 1 /\ s[1] = a
    OBVIOUS
  <2> HIDE DEF s
  <2>2. /\ Backwards(s) \in Seq({a}) /\ Len(Backwards(s)) = 1
        /\ \A i \in 1 .. 1 : Backwards(s)[i] = s[1 + 1 - i]
    BY <2>1, BackwardsFacts
  <2>3. Backwards(s)[1] = a
    BY <2>1, <2>2
  <2>4. Backwards(s) = s
    BY <2>1, <2>2, <2>3, SeqEqual
  <2> QED
    BY <2>4 DEF s
<1>3. ASSUME NEW a, NEW b PROVE Backwards(<<a, b>>) = <<b, a>>
  <2> DEFINE s == <<a, b>>
             t == <<b, a>>
  <2>1. s \in Seq({a, b}) /\ Len(s) = 2 /\ s[1] = a /\ s[2] = b
    OBVIOUS
  <2>2. t \in Seq({a, b}) /\ Len(t) = 2 /\ t[1] = b /\ t[2] = a
    OBVIOUS
  <2> HIDE DEF s, t
  <2>3. /\ Backwards(s) \in Seq({a, b}) /\ Len(Backwards(s)) = 2
        /\ \A i \in 1 .. 2 : Backwards(s)[i] = s[2 + 1 - i]
    BY <2>1, BackwardsFacts
  <2>4. Backwards(s)[1] = b /\ Backwards(s)[2] = a
    BY <2>1, <2>3
  <2>5. Backwards(s) = t
    BY <2>2, <2>3, <2>4, SeqEqual
  <2> QED
    BY <2>5 DEF s, t
<1> QED
  BY <1>1, <1>2, <1>3

--------------------------------------------------------------------------------
(***************************************************************************)
(* What Environment pushes is what the new program expects, backwards.     *)
(***************************************************************************)
Values == Nat \cup STRING
Items == [kind : {"num", "type", "wild", "old"}, val : Values] \cup [kind : {"str"}, val : Str]
AuxEntries == [type : STRING, kind : {"num"}, val : Nat]
              \cup [type : STRING \ (IntTypes \cup IgnoredTypes), kind : {"str"}, val : Str]

\* Nothing in it is a number that is taken for the address of a string.
Clean(s) == \A i \in 1 .. Len(s) : s[i].kind # "wild"

\* _auxv, and what it has when the program is loaded.
AuxTypes == auxv \in [valid : BOOLEAN, phdr : Nat, phnum : Nat, entry : Nat, base : Nat]
AuxComplete ==
    /\ auxv.valid <=> ~StaticallyLinked(prog)
    /\ auxv.valid => /\ auxv.phdr = HeaderTable(prog) /\ auxv.phnum = Len(prog.phdrs)
                     /\ auxv.entry = prog.entry /\ auxv.base = LoaderBase

\* The entry that is pushed in place of e, and the two words the program expects.
Replaced(e) ==
    IF ~auxv.valid THEN e
    ELSE CASE e.type = "AT_PHDR"  -> [e EXCEPT !.val = auxv.phdr]
           [] e.type = "AT_PHENT" -> [e EXCEPT !.val = PHENT]
           [] e.type = "AT_PHNUM" -> [e EXCEPT !.val = auxv.phnum]
           [] e.type = "AT_ENTRY" -> [e EXCEPT !.val = auxv.entry]
           [] e.type = "AT_BASE"  -> [e EXCEPT !.val = auxv.base]
           [] OTHER -> e
Expected(e) ==
    IF e.type \in IgnoredTypes THEN <<>>
    ELSE <<Item("type", e.type), Item(e.kind, Wanted(e))>>

\* The value that is pushed is the wanted one.
LEMMA ReplacedFacts ==
    ASSUME NEW e \in AuxEntries, AuxTypes, AuxComplete
    PROVE  /\ Replaced(e).type = e.type /\ Replaced(e).kind = e.kind
           /\ Replaced(e).val = Wanted(e)
           /\ e.type \in STRING
           /\ e.kind = "num" => Wanted(e) \in Nat
           /\ e.kind = "str" => Wanted(e) \in Str /\ e.type \notin IntTypes \cup IgnoredTypes
           /\ e.kind \in {"num", "str"}
<1>1. /\ e.type \in STRING /\ e.kind \in {"num", "str"}
      /\ e.kind = "num" => e.val \in Nat
      /\ e.kind = "str" => e.val \in Str /\ e.type \notin IntTypes \cup IgnoredTypes
  BY DEF AuxEntries
<1>2. \A x : [e EXCEPT !.val = x].type = e.type /\ [e EXCEPT !.val = x].kind = e.kind
             /\ [e EXCEPT !.val = x].val = x
  BY DEF AuxEntries
<1>3. auxv.phdr \in Nat /\ auxv.phnum \in Nat /\ auxv.entry \in Nat /\ auxv.base \in Nat /\ PHENT \in Nat
  BY DEF AuxTypes, PHENT
<1>4. CASE ~auxv.valid
  <2>1. StaticallyLinked(prog)
    BY <1>4 DEF AuxComplete
  <2>2. Replaced(e) = e /\ Wanted(e) = e.val
    BY <1>4, <2>1 DEF Replaced, Wanted
  <2> QED
    BY <1>1, <2>2
<1>5. CASE auxv.valid
  <2>1. /\ auxv.phdr = HeaderTable(prog) /\ auxv.phnum = Len(prog.phdrs)
        /\ auxv.entry = prog.entry /\ auxv.base = LoaderBase /\ ~StaticallyLinked(prog)
    BY <1>5 DEF AuxComplete
  <2>2. CASE e.type \in {"AT_PHDR", "AT_PHENT", "AT_PHNUM", "AT_ENTRY", "AT_BASE"}
    <3>1. e.kind = "num"
      BY <1>1, <2>2 DEF IntTypes
    <3>2. CASE e.type = "AT_PHDR"
      BY <1>1, <1>2, <1>3, <1>5, <2>1, <3>1, <3>2 DEF Replaced, Wanted, FixedTypes
    <3>3. CASE e.type = "AT_PHENT"
      BY <1>1, <1>2, <1>3, <1>5, <2>1, <3>1, <3>3 DEF Replaced, Wanted, FixedTypes
    <3>4. CASE e.type = "AT_PHNUM"
      BY <1>1, <1>2, <1>3, <1>5, <2>1, <3>1, <3>4 DEF Replaced, Wanted, FixedTypes
    <3>5. CASE e.type = "AT_ENTRY"
      BY <1>1, <1>2, <1>3, <1>5, <2>1, <3>1, <3>5 DEF Replaced, Wanted, FixedTypes
    <3>6. CASE e.type = "AT_BASE"
      BY <1>1, <1>2, <1>3, <1>5, <2>1, <3>1, <3>6 DEF Replaced, Wanted, FixedTypes
    <3> QED
      BY <2>2, <3>2, <3>3, <3>4, <3>5, <3>6
  <2>3. CASE e.type \notin {"AT_PHDR", "AT_PHENT", "AT_PHNUM", "AT_ENTRY", "AT_BASE"}
    <3>1. Replaced(e) = e /\ Wanted(e) = e.val
      BY <1>5, <2>3 DEF Replaced, Wanted, FixedTypes
    <3> QED
      BY <1>1, <3>1
  <2> QED
    BY <2>2, <2>3
<1> QED
  BY <1>4, <1>5

\* An entry and the words of it the program expects.
LEMMA EntryReversed ==
    ASSUME NEW e \in AuxEntries, AuxTypes, AuxComplete
    PROVE  /\ Entry(Replaced(e)) \in Seq(Items)
           /\ Clean(Entry(Replaced(e))) => Expected(e) = Backwards(Entry(Replaced(e)))
<1> DEFINE d == Replaced(e)
<1>1. /\ d.type = e.type /\ d.kind = e.kind /\ d.val = Wanted(e) /\ e.type \in STRING
      /\ e.kind = "num" => Wanted(e) \in Nat
      /\ e.kind = "str" => Wanted(e) \in Str /\ e.type \notin IntTypes \cup IgnoredTypes
      /\ e.kind \in {"num", "str"}
  BY ReplacedFacts
<1> HIDE DEF d
<1>2. CASE e.type \in IgnoredTypes
  <2>1. Entry(d) = <<>> /\ Expected(e) = <<>>
    BY <1>1, <1>2 DEF Entry, Expected
  <2> QED
    BY <2>1, BackwardsShort DEF d
<1>3. CASE e.type \notin IgnoredTypes
  <2> DEFINE x == IF d.type \in IntTypes THEN Item("num", d.val)
                  ELSE IF d.kind = "num" THEN Item("wild", 0) ELSE Item("str", d.val)
             y == Item("type", e.type)
  <2>1. Entry(d) = <<x, y>>
    BY <1>1, <1>3 DEF Entry
  <2>2. x \in Items /\ y \in Items
    BY <1>1 DEF Items, Values, Item
  <2>3. x.kind # "wild" => x = Item(e.kind, Wanted(e))
    BY <1>1 DEF Item
  <2>4. Expected(e) = <<y, Item(e.kind, Wanted(e))>>
    BY <1>3 DEF Expected
  <2> HIDE DEF x, y
  <2>5. Entry(d) \in Seq(Items)
    BY <2>1, <2>2
  <2>6. ASSUME Clean(Entry(d)) PROVE x.kind # "wild"
    <3>1. 1 \in 1 .. Len(<<x, y>>) /\ <<x, y>>[1] = x
      OBVIOUS
    <3> QED
      BY <2>1, <2>6, <3>1 DEF Clean
  <2> QED
    BY <2>1, <2>3, <2>4, <2>5, <2>6, BackwardsShort DEF d
<1> QED
  BY <1>2, <1>3

\* The auxiliary vector that is pushed, and all that is pushed.
Vector == IF auxv.valid THEN fix_auxv_dynamic_values(input.auxv) ELSE input.auxv
Plan == push_auxv(Vector) \o push_env(input.env) \o push_argv(input.argv) \o push_argc(input.argv)

\* Parts of a clean sequence are clean.
LEMMA CleanParts ==
    ASSUME NEW s \in Seq(Items), NEW t \in Seq(Items), Clean(s \o t)
    PROVE  Clean(s) /\ Clean(t)
<1> DEFINE c == s \o t
<1>1. /\ Len(c) = Len(s) + Len(t)
      /\ \A i \in 1 .. Len(s) + Len(t) : c[i] = IF i <= Len(s) THEN s[i] ELSE t[i - Len(s)]
  BY ConcatProperties
<1>2. Len(s) \in Nat /\ Len(t) \in Nat /\ Clean(c)
  OBVIOUS
<1> HIDE DEF c
<1>3. ASSUME NEW i \in 1 .. Len(s) PROVE s[i].kind # "wild"
  <2>1. i \in 1 .. Len(c) /\ c[i] = s[i]
    BY <1>1, <1>2
  <2> QED
    BY <1>2, <2>1 DEF Clean
<1>4. ASSUME NEW i \in 1 .. Len(t) PROVE t[i].kind # "wild"
  <2>1. Len(s) + i \in 1 .. Len(c) /\ ~(Len(s) + i <= Len(s)) /\ (Len(s) + i) - Len(s) = i
    BY <1>1, <1>2
  <2>2. c[Len(s) + i] = t[i]
    BY <1>1, <2>1
  <2> QED
    BY <1>2, <2>1, <2>2 DEF Clean
<1> QED
  BY <1>3, <1>4 DEF Clean

\* The vector that is pushed has the replaced entries.
LEMMA VectorEntries ==
    ASSUME input.auxv \in Seq(AuxEntries)
    PROVE  /\ Len(Vector) = Len(input.auxv) /\ DOMAIN Vector = 1 .. Len(input.auxv)
           /\ \A i \in 1 .. Len(input.auxv) : Vector[i] = Replaced(input.auxv[i])
<1> DEFINE v == input.auxv
<1>1. DOMAIN v = 1 .. Len(v) /\ Len(v) \in Nat
  OBVIOUS
<1> HIDE DEF v
<1>2. CASE ~auxv.valid
  BY <1>1, <1>2 DEF Vector, Replaced, v
<1>3. CASE auxv.valid
  <2> DEFINE F(e) == CASE e.type = "AT_PHDR"  -> [e EXCEPT !.val = auxv.phdr]
                       [] e.type = "AT_PHENT" -> [e EXCEPT !.val = PHENT]
                       [] e.type = "AT_PHNUM" -> [e EXCEPT !.val = auxv.phnum]
                       [] e.type = "AT_ENTRY" -> [e EXCEPT !.val = auxv.entry]
                       [] e.type = "AT_BASE"  -> [e EXCEPT !.val = auxv.base]
                       [] OTHER -> e
  <2>1. Vector = [i \in DOMAIN v |-> F(v[i])]
    BY <1>3 DEF Vector, fix_auxv_dynamic_values, v
  <2>2. \A e : Replaced(e) = F(e)
    BY <1>3 DEF Replaced
  <2> HIDE DEF F
  <2>3. Vector = [i \in 1 .. Len(v) |-> F(v[i])]
    BY <1>1, <2>1
  <2>4. Len(Vector) = Len(v) /\ DOMAIN Vector = 1 .. Len(v)
    BY <1>1, <2>3
  <2> QED
    BY <2>2, <2>3, <2>4 DEF v
<1> QED
  BY <1>2, <1>3

\* The pushes of the vector, backwards, are the words the program expects of it.
LEMMA VectorReversed ==
    ASSUME input.auxv \in Seq(AuxEntries), AuxTypes, AuxComplete
    PROVE  LET pushed == Concat([i \in DOMAIN Vector |-> Entry(Backwards(Vector)[i])])
               found == Concat([i \in DOMAIN input.auxv |-> Expected(input.auxv[i])])
           IN /\ pushed \in Seq(Items)
              /\ Clean(pushed) => found = Backwards(pushed)
<1> DEFINE v == input.auxv
           N == Len(v)
           ps == [i \in DOMAIN Vector |-> Entry(Backwards(Vector)[i])]
           es == [i \in DOMAIN v |-> Expected(v[i])]
           any == Items \cup [kind : {"num", "str", "type"}, val : {Wanted(v[i]) : i \in 1 .. N} \cup STRING]
<1>1. v \in Seq(AuxEntries) /\ N \in Nat /\ DOMAIN v = 1 .. N /\ \A i \in 1 .. N : v[i] \in AuxEntries
  OBVIOUS
<1>2. Len(Vector) = N /\ DOMAIN Vector = 1 .. N /\ \A i \in 1 .. N : Vector[i] = Replaced(v[i])
  BY VectorEntries
<1>3. \A i \in 1 .. N : Backwards(Vector)[i] = Replaced(v[N + 1 - i])
  <2>1. Backwards(Vector) = [i \in 1 .. N |-> Vector[N + 1 - i]]
    BY <1>2 DEF Backwards
  <2>2. \A i \in 1 .. N : N + 1 - i \in 1 .. N
    BY <1>1
  <2> HIDE DEF N, v
  <2> QED
    BY <1>2, <2>1, <2>2
<1>4. ps = [i \in 1 .. N |-> Entry(Replaced(v[N + 1 - i]))]
  <2> HIDE DEF N, v
  <2> QED
    BY <1>2, <1>3
<1>5. es = [i \in 1 .. N |-> Expected(v[i])]
  BY <1>1
<1> HIDE DEF ps, es
<1>6. \A i \in 1 .. N : N + 1 - i \in 1 .. N
  BY <1>1
<1>7. \A i \in 1 .. N : ps[i] \in Seq(Items)
  BY <1>1, <1>4, <1>6, EntryReversed
<1>8. ps \in Seq(Seq(Items)) /\ Len(ps) = N
  <2> HIDE DEF N, v
  <2>1. ps = [i \in 1 .. N |-> ps[i]]
    BY <1>4
  <2> QED
    BY <1>1, <1>7, <2>1, FunctionIsSeq
<1>9. \A i \in 1 .. N : es[i] \in Seq(any)
  <2> SUFFICES ASSUME NEW i \in 1 .. N PROVE es[i] \in Seq(any)
    OBVIOUS
  <2>1. es[i] = Expected(v[i]) /\ v[i] \in AuxEntries
    BY <1>1, <1>5
  <2>2. v[i].kind \in {"num", "str"} /\ v[i].type \in STRING
    BY <2>1, ReplacedFacts
  <2> DEFINE a == Item("type", v[i].type)
             b == Item(v[i].kind, Wanted(v[i]))
  <2>3. a \in any /\ b \in any
    <3> HIDE DEF v, N
    <3> QED
      BY <2>2 DEF Item
  <2>4. es[i] = <<>> \/ es[i] = <<a, b>>
    BY <2>1 DEF Expected
  <2> HIDE DEF any, a, b
  <2>5. <<>> \in Seq(any) /\ <<a, b>> \in Seq(any)
    BY <2>3
  <2> QED
    BY <2>4, <2>5
<1>10. es \in Seq(Seq(any)) /\ Len(es) = N
  <2> HIDE DEF any, N, v
  <2>1. es = [i \in 1 .. N |-> es[i]]
    BY <1>5
  <2> QED
    BY <1>1, <1>9, <2>1, FunctionIsSeq
<1>11. PICK g \in [0 .. N -> Seq(Items)] :
           /\ g[0] = <<>> /\ Concat(ps) = g[N]
           /\ \A i \in 1 .. N : g[i] = g[i - 1] \o ps[i]
  <2> HIDE DEF N
  <2>1. \E g \in [0 .. Len(ps) -> Seq(Items)] :
            /\ g[0] = <<>> /\ Concat(ps) = g[Len(ps)]
            /\ \A i \in 1 .. Len(ps) : g[i] = g[i - 1] \o ps[i]
    BY <1>8, ConcatParts
  <2> QED
    BY <1>8, <2>1
<1>12. PICK f \in [0 .. N -> Seq(any)] :
           /\ f[0] = <<>> /\ Concat(es) = f[N]
           /\ \A i \in 1 .. N : f[i] = f[i - 1] \o es[i]
  <2> HIDE DEF any, N
  <2>1. \E f \in [0 .. Len(es) -> Seq(any)] :
            /\ f[0] = <<>> /\ Concat(es) = f[Len(es)]
            /\ \A i \in 1 .. Len(es) : f[i] = f[i - 1] \o es[i]
    BY <1>10, ConcatParts
  <2> QED
    BY <1>10, <2>1
<1>13. Items \subseteq any
  OBVIOUS
<1> HIDE DEF any, N, v
<1>14. ASSUME NEW j \in 1 .. N, Clean(g[j])
       PROVE  Clean(g[j - 1]) /\ es[N + 1 - j] = Backwards(ps[j])
  <2>0. j - 1 \in 0 .. N
    BY <1>1
  <2>1. g[j - 1] \in Seq(Items) /\ ps[j] \in Seq(Items) /\ g[j] = g[j - 1] \o ps[j]
    BY <1>7, <1>11, <2>0
  <2>2. Clean(g[j - 1]) /\ Clean(ps[j])
    BY <1>14, <2>1, CleanParts
  <2>3. N + 1 - j \in 1 .. N /\ v[N + 1 - j] \in AuxEntries
    BY <1>1, <1>6
  <2>4. ps[j] = Entry(Replaced(v[N + 1 - j])) /\ es[N + 1 - j] = Expected(v[N + 1 - j])
    BY <1>4, <1>5, <2>3
  <2> QED
    BY <2>2, <2>3, <2>4, EntryReversed
<1> DEFINE T == {j \in Nat : j \in 0 .. N /\ Clean(g[j]) /\ f[N] # f[N - j] \o Backwards(g[j])}
<1>15. T = {}
  <2> SUFFICES ASSUME T # {} PROVE FALSE
    OBVIOUS
  <2>1. PICK j \in T : \A y \in T : j <= y
    BY LeastNumber
  <2>2. j \in 0 .. N /\ Clean(g[j]) /\ f[N] # f[N - j] \o Backwards(g[j])
    OBVIOUS
  <2>3. f[N] \in Seq(any)
    BY <1>1
  <2>4. j # 0
    <3>1. f[N] \o <<>> = f[N]
      BY <2>3, ConcatEmptySeq
    <3>2. ASSUME j = 0 PROVE Backwards(g[j]) = <<>> /\ N - j = N
      BY <1>1, <1>11, <3>2, BackwardsShort
    <3> QED
      BY <2>2, <3>1, <3>2
  <2>5. j \in 1 .. N /\ j - 1 \in Nat /\ j - 1 \in 0 .. N /\ ~(j <= j - 1)
    BY <1>1, <2>2, <2>4
  <2>6. Clean(g[j - 1]) /\ es[N + 1 - j] = Backwards(ps[j])
    BY <1>14, <2>2, <2>5
  <2>7. f[N] = f[N - (j - 1)] \o Backwards(g[j - 1])
    BY <2>1, <2>5, <2>6
  <2> DEFINE k == N + 1 - j
  <2>8. k \in 1 .. N /\ N - (j - 1) = k /\ k - 1 = N - j /\ k - 1 \in 0 .. N
    BY <1>1, <2>5
  <2>9. f[k] = f[k - 1] \o es[k]
    BY <1>12, <2>8
  <2> DEFINE x == f[k - 1]
             y == Backwards(ps[j])
             z == Backwards(g[j - 1])
  <2>10. g[j - 1] \in Seq(Items) /\ ps[j] \in Seq(Items)
    BY <1>7, <2>5
  <2>11. Backwards(g[j]) = y \o z
    BY <1>11, <2>5, <2>10, BackwardsConcat
  <2>12. y \in Seq(Items) /\ z \in Seq(Items)
    BY <2>10, BackwardsFacts
  <2>13. x \in Seq(any)
    BY <2>8
  <2>14. y \in Seq(any) /\ z \in Seq(any)
    <3> HIDE DEF y, z
    <3> QED
      BY <1>13, <2>12
  <2>15. f[N] = (x \o y) \o z
    BY <2>6, <2>7, <2>8, <2>9
  <2> HIDE DEF x, y, z, k
  <2>16. (x \o y) \o z = x \o (y \o z)
    <3>1. ASSUME NEW a \in Seq(any), NEW b \in Seq(any), NEW c \in Seq(any)
          PROVE  (a \o b) \o c = a \o (b \o c)
      BY ConcatAssociative
    <3> QED
      BY <2>13, <2>14, <3>1
  <2>17. f[N - j] = x
    BY <2>8 DEF x
  <2> QED
    BY <2>2, <2>11, <2>15, <2>16, <2>17
<1>16. g[N] \in Seq(Items)
  BY <1>1
<1>17. ASSUME Clean(g[N]) PROVE f[N] = Backwards(g[N])
  <2>1. N \in Nat /\ N \in 0 .. N /\ N - N = 0
    BY <1>1
  <2>2. N \notin T
    <3> HIDE DEF T
    <3> QED
      BY <1>15
  <2>3. f[N] = f[0] \o Backwards(g[N])
    BY <1>17, <2>1, <2>2
  <2>4. Backwards(g[N]) \in Seq(Items)
    BY <1>16, BackwardsFacts
  <2>5. <<>> \o Backwards(g[N]) = Backwards(g[N])
    BY <2>4, ConcatEmptySeq
  <2> QED
    BY <1>12, <2>3, <2>5
<1>18. Concat(ps) \in Seq(Items) /\ (Clean(Concat(ps)) => Concat(es) = Backwards(Concat(ps)))
  BY <1>11, <1>12, <1>16, <1>17
<1> QED
  BY <1>18 DEF ps, es, v

\* Strings are pushed in reverse.
LEMMA StringsReversed ==
    ASSUME NEW s \in Seq(Str)
    PROVE  /\ Strings(s) \in Seq(Items)
           /\ Backwards(Strings(s)) = [i \in DOMAIN s |-> Item("str", s[i])]
<1> DEFINE N == Len(s)
           a == Strings(s)
           b == [i \in DOMAIN s |-> Item("str", s[i])]
<1>1. N \in Nat /\ DOMAIN s = 1 .. N /\ \A i \in 1 .. N : s[i] \in Str
  OBVIOUS
<1>2. \A i \in 1 .. N : Item("str", s[i]) \in Items
  BY <1>1 DEF Item, Items
<1>3. \A i \in 1 .. N : Backwards(s)[i] = s[N + 1 - i] /\ N + 1 - i \in 1 .. N
  BY <1>1, BackwardsFacts
<1>4. a = [i \in 1 .. N |-> Item("str", s[N + 1 - i])]
  <2>1. a = [i \in 1 .. N |-> Item("str", Backwards(s)[i])]
    BY <1>1 DEF Strings
  <2> HIDE DEF N, a
  <2> QED
    BY <1>3, <2>1
<1>5. b = [i \in 1 .. N |-> Item("str", s[i])]
  BY <1>1
<1> HIDE DEF a, b, N
<1>6. a \in Seq(Items) /\ Len(a) = N
  <2>1. a = [i \in 1 .. N |-> a[i]]
    BY <1>4
  <2>2. \A i \in 1 .. N : a[i] \in Items
    BY <1>2, <1>3, <1>4
  <2> QED
    BY <1>1, <2>1, <2>2, FunctionIsSeq
<1>7. b \in Seq(Items) /\ Len(b) = N
  <2>1. b = [i \in 1 .. N |-> b[i]]
    BY <1>5
  <2>2. \A i \in 1 .. N : b[i] \in Items
    BY <1>2, <1>5
  <2> QED
    BY <1>1, <2>1, <2>2, FunctionIsSeq
<1>8. /\ Backwards(a) \in Seq(Items) /\ Len(Backwards(a)) = N
      /\ \A i \in 1 .. N : Backwards(a)[i] = a[N + 1 - i]
  BY <1>6, BackwardsFacts
<1>9. \A i \in 1 .. N : a[N + 1 - i] = b[i]
  <2> SUFFICES ASSUME NEW i \in 1 .. N PROVE a[N + 1 - i] = b[i]
    OBVIOUS
  <2>1. N + 1 - i \in 1 .. N /\ N + 1 - (N + 1 - i) = i
    BY <1>1
  <2>2. a[N + 1 - i] = Item("str", s[N + 1 - (N + 1 - i)])
    BY <1>4, <2>1
  <2> QED
    BY <1>5, <2>1, <2>2
<1>10. Backwards(a) = b
  BY <1>7, <1>8, <1>9, SeqEqual
<1> QED
  BY <1>6, <1>10 DEF a, b

\* Brackets of the parts of a new stack.
Cat(x, y) == x \o y

LEMMA CatAssociative ==
    ASSUME NEW S, NEW x \in Seq(S), NEW y \in Seq(S), NEW w \in Seq(S)
    PROVE  Cat(Cat(x, y), w) = Cat(x, Cat(y, w))
BY ConcatAssociative, SMT DEF Cat

LEMMA StackBrackets ==
    ASSUME NEW c \in Seq(Items), NEW g \in Seq(Items), NEW z \in Seq(Items),
           NEW e \in Seq(Items), NEW a \in Seq(Items)
    PROVE  Cat(c, Cat(g, Cat(Cat(z, e), Cat(z, a)))) = Cat(Cat(Cat(Cat(Cat(c, g), z), e), z), a)
<1>1. \A x, y, w \in Seq(Items) : Cat(Cat(x, y), w) = Cat(x, Cat(y, w))
  BY CatAssociative
<1>2. \A x, y \in Seq(Items) : Cat(x, y) \in Seq(Items)
  BY ConcatProperties DEF Cat
<1>3. Cat(c, g) \in Seq(Items) /\ Cat(z, e) \in Seq(Items) /\ Cat(z, a) \in Seq(Items)
  BY <1>2
<1>4. Cat(Cat(c, g), Cat(z, e)) = Cat(Cat(Cat(c, g), z), e)
  BY <1>1, <1>3
<1>5. Cat(c, Cat(g, Cat(Cat(z, e), Cat(z, a)))) = Cat(Cat(Cat(c, g), Cat(z, e)), Cat(z, a))
  BY <1>1, <1>2, <1>3
<1> DEFINE w == Cat(Cat(Cat(c, g), z), e)
<1>6. w \in Seq(Items)
  BY <1>2, <1>3
<1> HIDE DEF w
<1>7. Cat(w, Cat(z, a)) = Cat(Cat(w, z), a)
  BY <1>1, <1>6
<1> QED
  BY <1>4, <1>5, <1>7 DEF w

\* The new program's stack is what was pushed, and the word above it.
LEMMA PlanReversed ==
    ASSUME IsInput(input), AuxTypes, AuxComplete
    PROVE  /\ Plan \in Seq(Items)
           /\ Clean(Plan) => NewProgram = Backwards(Plan) \o <<Item("old", 0)>>
<1> DEFINE A == Concat([i \in DOMAIN Vector |-> Entry(Backwards(Vector)[i])])
           F == Concat([i \in DOMAIN input.auxv |-> Expected(input.auxv[i])])
           Z == <<Item("num", 0)>>
           O == <<Item("old", 0)>>
           E == Strings(input.env)
           G == Strings(input.argv)
           C == <<Item("num", Len(input.argv))>>
           Ptrs(s) == [i \in DOMAIN s |-> Item("str", s[i])]
<1>1. input.argv \in Seq(Str) /\ input.env \in Seq(Str) /\ input.auxv \in Seq(AuxEntries)
  BY DEF IsInput, AuxEntries
<1>2. A \in Seq(Items) /\ (Clean(A) => F = Backwards(A))
  BY <1>1, VectorReversed
<1>3. E \in Seq(Items) /\ Backwards(E) = Ptrs(input.env)
  BY <1>1, StringsReversed
<1>4. G \in Seq(Items) /\ Backwards(G) = Ptrs(input.argv)
  BY <1>1, StringsReversed
<1>5. Z \in Seq(Items) /\ Backwards(Z) = Z
  <2>1. Item("num", 0) \in Items
    BY DEF Item, Items, Values
  <2> QED
    BY <2>1, BackwardsShort
<1>6. C \in Seq(Items) /\ Backwards(C) = C
  <2>1. Len(input.argv) \in Nat
    BY <1>1
  <2>2. Item("num", Len(input.argv)) \in Items
    BY <2>1 DEF Item, Items, Values
  <2> QED
    BY <2>2, BackwardsShort
<1>7. Plan = (((A \o Z) \o (E \o Z)) \o G) \o C
  BY DEF Plan, push_auxv, push_env, push_argv, push_argc
<1>8. NewProgram = (((((C \o Ptrs(input.argv)) \o Z) \o Ptrs(input.env)) \o Z) \o F) \o O
  BY DEF NewProgram, Expected
<1> DEFINE g == Ptrs(input.argv)
           e == Ptrs(input.env)
<1>9. NewProgram = (((((C \o g) \o Z) \o e) \o Z) \o F) \o O /\ Backwards(G) = g /\ Backwards(E) = e
  BY <1>3, <1>4, <1>8
<1> HIDE DEF A, F, Z, O, E, G, C, Ptrs, g, e
<1>10. \A x, y \in Seq(Items) : x \o y \in Seq(Items) /\ Backwards(x \o y) = Backwards(y) \o Backwards(x)
  BY ConcatProperties, BackwardsConcat
<1> DEFINE AZ == A \o Z
           EZ == E \o Z
           AE == AZ \o EZ
           AEG == AE \o G
<1>11. AZ \in Seq(Items) /\ Backwards(AZ) = Z \o Backwards(A)
  BY <1>2, <1>5, <1>10
<1>12. EZ \in Seq(Items) /\ Backwards(EZ) = Z \o e
  BY <1>3, <1>5, <1>9, <1>10
<1>13. AE \in Seq(Items) /\ Backwards(AE) = (Z \o e) \o (Z \o Backwards(A))
  <2> HIDE DEF AZ, EZ
  <2> QED
    BY <1>10, <1>11, <1>12
<1>14. AEG \in Seq(Items) /\ Backwards(AEG) = g \o ((Z \o e) \o (Z \o Backwards(A)))
  <2> HIDE DEF AE
  <2> QED
    BY <1>4, <1>9, <1>10, <1>13
<1>15. AEG \o C \in Seq(Items) /\ Backwards(AEG \o C) = C \o (g \o ((Z \o e) \o (Z \o Backwards(A))))
  <2> HIDE DEF AEG
  <2> QED
    BY <1>6, <1>10, <1>14
<1>16. Plan = AEG \o C
  BY <1>7
<1>17. Backwards(A) \in Seq(Items) /\ g \in Seq(Items) /\ e \in Seq(Items)
  BY <1>2, <1>3, <1>4, <1>9, BackwardsFacts
<1>18. C \o (g \o ((Z \o e) \o (Z \o Backwards(A)))) = ((((C \o g) \o Z) \o e) \o Z) \o Backwards(A)
  <2> DEFINE b == Backwards(A)
  <2>1. b \in Seq(Items) /\ C \in Seq(Items) /\ g \in Seq(Items) /\ Z \in Seq(Items) /\ e \in Seq(Items)
    BY <1>5, <1>6, <1>17
  <2> HIDE DEF b
  <2>2. Cat(C, Cat(g, Cat(Cat(Z, e), Cat(Z, b)))) = Cat(Cat(Cat(Cat(Cat(C, g), Z), e), Z), b)
    BY <2>1, StackBrackets
  <2> QED
    BY <2>2 DEF b, Cat
<1>19. ASSUME Clean(Plan) PROVE Clean(A)
  <2>1. Clean(AEG)
    <3> HIDE DEF AEG
    <3> QED
      BY <1>6, <1>14, <1>16, <1>19, CleanParts
  <2>2. Clean(AE)
    <3> HIDE DEF AE
    <3> QED
      BY <1>4, <1>13, <2>1, CleanParts
  <2>3. Clean(AZ)
    <3> HIDE DEF AZ, EZ
    <3> QED
      BY <1>11, <1>12, <2>2, CleanParts
  <2> QED
    BY <1>2, <1>5, <2>3, CleanParts
<1> HIDE DEF AEG
<1>20. ASSUME Clean(Plan) PROVE NewProgram = Backwards(Plan) \o O
  <2>1. F = Backwards(A)
    BY <1>2, <1>19, <1>20
  <2> QED
    BY <1>9, <1>15, <1>16, <1>18, <2>1
<1> QED
  BY <1>15, <1>16, <1>20 DEF O

--------------------------------------------------------------------------------
(***************************************************************************)
(* The loader's invariant: the segments are in place while the binaries    *)
(* are read, while the environment is written above them, and afterwards.  *)
(***************************************************************************)
\* After the headers before k have been read, a is the address of the program's
\* header table if one of them is PT_PHDR, which then may not come again.
HeadersRead(b, k, a, no) ==
    /\ \A i \in DOMAIN b.phdrs : i < k /\ b.phdrs[i].type = "PT_PHDR" => no /\ a = b.phdrs[i].vaddr
    /\ (\A i \in DOMAIN b.phdrs : i < k => b.phdrs[i].type # "PT_PHDR") => a = 0

\* All headers are read.
LEMMA AllHeadersRead ==
    ASSUME NEW b \in Binary, NEW k \in Nat, k > Len(b.phdrs), NEW a, NEW no, HeadersRead(b, k, a, no)
    PROVE  a = HeaderTable(b)
<1>1. DOMAIN b.phdrs = 1 .. Len(b.phdrs) /\ Len(b.phdrs) \in Nat
  BY DEF Binary
<1>2. \A i \in DOMAIN b.phdrs : i < k
  BY <1>1
<1>3. CASE PhdrAddrs(b) = {}
  <2>1. \A i \in DOMAIN b.phdrs : b.phdrs[i].type # "PT_PHDR"
    BY <1>3 DEF PhdrAddrs
  <2> QED
    BY <1>3, <2>1 DEF HeadersRead, HeaderTable
<1>4. CASE PhdrAddrs(b) # {}
  <2>1. \A x \in PhdrAddrs(b) : x = a
    BY <1>2 DEF PhdrAddrs, HeadersRead
  <2>2. HeaderTable(b) \in PhdrAddrs(b)
    BY <1>4 DEF HeaderTable
  <2> QED
    BY <2>1, <2>2
<1> QED
  BY <1>3, <1>4

\* One more header is read.
LEMMA NextHeaderRead ==
    ASSUME NEW b \in Binary, NEW k \in Nat \ {0}, k <= Len(b.phdrs), NEW a, NEW no \in BOOLEAN,
           NEW c, NEW yes \in BOOLEAN, HeadersRead(b, k, a, no),
           \/ b.phdrs[k].type = "PT_PHDR" /\ ~no /\ yes /\ c = b.phdrs[k].vaddr
           \/ b.phdrs[k].type # "PT_PHDR" /\ (no => yes) /\ c = a
    PROVE  HeadersRead(b, k + 1, c, yes)
<1>1. DOMAIN b.phdrs = 1 .. Len(b.phdrs) /\ Len(b.phdrs) \in Nat
  BY DEF Binary
<1>2. k \in DOMAIN b.phdrs /\ \A i \in DOMAIN b.phdrs : i < k + 1 <=> i < k \/ i = k
  BY <1>1
<1>3. CASE b.phdrs[k].type = "PT_PHDR" /\ ~no /\ yes /\ c = b.phdrs[k].vaddr
  <2>1. \A i \in DOMAIN b.phdrs : i < k => b.phdrs[i].type # "PT_PHDR"
    BY <1>3 DEF HeadersRead
  <2> QED
    BY <1>2, <1>3, <2>1 DEF HeadersRead
<1>4. CASE b.phdrs[k].type # "PT_PHDR" /\ (no => yes) /\ c = a
  <2>1. \A i \in DOMAIN b.phdrs : i < k + 1 /\ b.phdrs[i].type = "PT_PHDR" => i < k
    BY <1>2, <1>4
  <2>2. \A i \in DOMAIN b.phdrs : i < k => i < k + 1
    BY <1>2
  <2>3. \A i \in DOMAIN b.phdrs : i < k + 1 /\ b.phdrs[i].type = "PT_PHDR" => yes /\ c = b.phdrs[i].vaddr
    BY <1>4, <2>1 DEF HeadersRead
  <2>4. (\A i \in DOMAIN b.phdrs : i < k + 1 => b.phdrs[i].type # "PT_PHDR") => c = 0
    BY <1>4, <2>2 DEF HeadersRead
  <2> QED
    BY <2>3, <2>4 DEF HeadersRead
<1> QED
  BY <1>3, <1>4

\* The program's _auxv follows its headers while they are read, and is complete,
\* with the interpreter's base, before it is used.
AuxInv ==
    /\ AuxTypes /\ noPhdr \in BOOLEAN
    /\ isLdr \/ step \notin {"check", "parse"} => AuxComplete
    /\ ~isLdr => bin = prog
    /\ ~isLdr /\ step = "check" => ~auxv.valid /\ auxv.phdr = 0 /\ idx = 1
    /\ ~isLdr /\ step = "parse" =>
           /\ auxv.valid <=> ~StaticallyLinked(prog)
           /\ auxv.valid => auxv.phnum = Len(prog.phdrs) /\ auxv.entry = prog.entry
           /\ HeadersRead(prog, idx, auxv.phdr, noPhdr)

\* The program stays the same.
LEMMA ProgUnchanged ==
    ASSUME UNCHANGED prog
    PROVE  StaticallyLinked(prog)' = StaticallyLinked(prog) /\ HeaderTable(prog)' = HeaderTable(prog)
BY DEF StaticallyLinked, Interpreters, HeaderTable, PhdrAddrs

\* _auxv does once the program is loaded.
LEMMA AuxKept ==
    ASSUME AuxInv, UNCHANGED <<auxv, prog, bin, isLdr, noPhdr>>,
           step \notin {"check", "parse"}, step' \notin {"check", "parse"}
    PROVE  AuxInv'
<1>1. AuxTypes' /\ AuxComplete'
  BY ProgUnchanged DEF AuxInv, AuxTypes, AuxComplete
<1> QED
  BY <1>1 DEF AuxInv

LoadInv ==
    /\ IsInput(input)
    /\ step \in Good =>
        /\ AuxInv
        /\ segs \in Seq(Segment) /\ Limit \in Nat /\ SegmentsOK(segs, pt, mem, Limit)
        /\ step \in Loading => LoadTypes /\ Blank(mem, top)
        /\ step \notin Loading => offset \in Nat /\ todo \in Seq(Items)

LEMMA LoadInit == Init => LoadInv
<1> SUFFICES ASSUME Init PROVE LoadInv
  OBVIOUS
<1>1. /\ step = "check" /\ bin \in Programs /\ isLdr = FALSE /\ idx = 1
      /\ mem = [a \in {} |-> NoByte] /\ top = P /\ segs = <<>>
      /\ auxv = [valid |-> FALSE, phdr |-> 0, phnum |-> 0, entry |-> 0, base |-> 0]
      /\ atBase = 0 /\ input \in Inputs /\ prog = bin /\ noPhdr = FALSE
  BY DEF Init, LoaderInit
<1>2. P \in Nat \ {0} /\ P % P = 0 /\ bin \in Binary
  BY <1>1, LoaderConstants
<1>3. IsInput(input)
  BY <1>1, StartupConstants
<1>4. AuxInv
  BY <1>1 DEF AuxInv, AuxTypes
<1>5. LoadTypes
  <2>1. segs \in Seq(Segment)
    BY <1>1
  <2>2. top \in Nat /\ top % P = 0
    BY <1>1, <1>2
  <2>3. isLdr \in BOOLEAN /\ (isLdr => atBase \in {0, LoaderBase})
    BY <1>1
  <2>4. idx \in Nat \ {0}
    BY <1>1
  <2> QED
    BY ONLY <1>2, <2>1, <2>2, <2>3, <2>4 DEF LoadTypes
<1>6. Blank(mem, top)
  BY <1>1 DEF Blank, ByteOf, Unused
<1>7. SegmentsOK(segs, pt, mem, Limit)
  BY <1>1 DEF SegmentsOK
<1> QED
  BY <1>1, <1>2, <1>3, <1>4, <1>5, <1>6, <1>7 DEF LoadInv, Limit, Loading

LEMMA LoadCheck == LoadInv /\ check_elf /\ UNCHANGED envvars => LoadInv'
<1> SUFFICES ASSUME LoadInv, check_elf, UNCHANGED envvars PROVE LoadInv'
  OBVIOUS
<1>1. step = "check" /\ step' \in {"terminated", "parse"}
      /\ UNCHANGED <<input, prog, bin, isLdr, idx, noPhdr, mem, top, segs, pt, atBase>>
  BY DEF check_elf, envvars
<1>2. AuxInv /\ LoadTypes /\ Blank(mem, top) /\ segs \in Seq(Segment) /\ SegmentsOK(segs, pt, mem, top)
  BY <1>1 DEF LoadInv, Good, Loading, Limit
<1>3. CASE step' = "terminated"
  BY <1>1, <1>3 DEF LoadInv, IsInput, Good, Loading
<1>4. CASE step' = "parse"
  <2>1. auxv' = IF StaticallyLinked(bin) \/ isLdr THEN auxv
                ELSE [auxv EXCEPT !.valid = TRUE, !.entry = bin.entry, !.phnum = Len(bin.phdrs)]
    BY <1>4 DEF check_elf
  <2>2. bin.entry \in Nat /\ Len(bin.phdrs) \in Nat
    BY <1>2 DEF LoadTypes, Binary
  <2>3. AuxTypes'
    <3>1. auxv \in [valid : BOOLEAN, phdr : Nat, phnum : Nat, entry : Nat, base : Nat]
      BY <1>2 DEF AuxInv, AuxTypes
    <3>2. auxv' \in [valid : BOOLEAN, phdr : Nat, phnum : Nat, entry : Nat, base : Nat]
      BY <2>1, <2>2, <3>1
    <3> QED
      BY <3>2 DEF AuxTypes
  <2>4. ASSUME isLdr PROVE AuxInv'
    <3>1. AuxComplete'
      BY <1>1, <1>2, <2>1, <2>4, ProgUnchanged DEF AuxInv, AuxComplete
    <3> QED
      BY <1>1, <1>2, <2>3, <2>4, <3>1 DEF AuxInv
  <2>5. ASSUME ~isLdr PROVE AuxInv'
    <3>1. bin = prog /\ ~auxv.valid /\ auxv.phdr = 0 /\ idx = 1 /\ noPhdr \in BOOLEAN
      BY <1>1, <1>2, <2>5 DEF AuxInv
    <3>2. auxv \in [valid : BOOLEAN, phdr : Nat, phnum : Nat, entry : Nat, base : Nat]
      BY <1>2 DEF AuxInv, AuxTypes
    <3>3. /\ auxv'.valid <=> ~StaticallyLinked(prog)
          /\ auxv'.valid => auxv'.phnum = Len(prog.phdrs) /\ auxv'.entry = prog.entry
          /\ auxv'.phdr = 0
      BY <2>1, <2>5, <3>1, <3>2
    <3>4. prog.phdrs \in Seq(Header)
      BY <1>2, <3>1 DEF LoadTypes, Binary
    <3>5. \A i \in DOMAIN prog.phdrs : ~(i < 1)
      BY <3>4
    <3>6. HeadersRead(prog', idx', auxv'.phdr, noPhdr')
      BY <1>1, <3>1, <3>3, <3>5 DEF HeadersRead
    <3> QED
      BY <1>1, <1>4, <2>3, <2>5, <3>1, <3>3, <3>6, ProgUnchanged DEF AuxInv
  <2>6. LoadTypes' /\ Limit' = top'
    BY <1>1, <1>2, <1>4 DEF LoadTypes, Limit, Loading
  <2>7. Blank(mem', top') /\ SegmentsOK(segs', pt', mem', top')
    BY <1>1, <1>2
  <2> QED
    BY <1>1, <1>2, <1>4, <2>4, <2>5, <2>6, <2>7 DEF LoadInv, IsInput, Loading, LoadTypes
<1> QED
  BY <1>1, <1>3, <1>4

LEMMA LoadParse == LoadInv /\ parse_program /\ UNCHANGED envvars => LoadInv'
<1> SUFFICES ASSUME LoadInv, parse_program, UNCHANGED envvars PROVE LoadInv'
  OBVIOUS
<1>1. step = "parse" /\ idx <= Len(bin.phdrs) /\ idx' = idx + 1
      /\ UNCHANGED <<input, prog, bin, isLdr>>
  BY DEF parse_program, envvars
<1>2. AuxInv /\ LoadTypes /\ Blank(mem, top) /\ segs \in Seq(Segment) /\ SegmentsOK(segs, pt, mem, top)
  BY <1>1 DEF LoadInv, Good, Loading, Limit
<1> DEFINE p == bin.phdrs[idx]
<1>3. p \in Header
  BY <1>1, <1>2 DEF LoadTypes, Binary
<1>4. /\ auxv' = auxv \/ auxv' = [auxv EXCEPT !.phdr = p.vaddr]
      /\ \/ step' = "aborted"
         \/ UNCHANGED <<step, mem, top, segs, pt, atBase>>
         \/ p.filesz <= p.memsz /\ load_phdr(p)
  BY DEF parse_program
<1>A. \/ step' = "aborted"
      \/ /\ p.type = "PT_PHDR" /\ noPhdr = FALSE /\ noPhdr' = TRUE
         /\ auxv' = IF isLdr THEN auxv ELSE [auxv EXCEPT !.phdr = p.vaddr]
      \/ p.type # "PT_PHDR" /\ auxv' = auxv /\ noPhdr' \in {noPhdr, TRUE}
  <2>1. noPhdr \in BOOLEAN
    BY <1>2 DEF AuxInv
  <2> QED
    BY <2>1 DEF parse_program
<1> HIDE DEF p
<1>5. CASE step' = "aborted"
  BY <1>1, <1>5 DEF LoadInv, IsInput, Good, Loading
<1>6. CASE step' # "aborted"
  <2>1. /\ AuxTypes' /\ auxv'.valid = auxv.valid /\ auxv'.base = auxv.base
        /\ auxv'.phnum = auxv.phnum /\ auxv'.entry = auxv.entry
    <3>1. auxv \in [valid : BOOLEAN, phdr : Nat, phnum : Nat, entry : Nat, base : Nat] /\ p.vaddr \in Nat
      BY <1>2, <1>3 DEF AuxInv, AuxTypes, Header
    <3>2. auxv' \in [valid : BOOLEAN, phdr : Nat, phnum : Nat, entry : Nat, base : Nat]
          /\ auxv'.valid = auxv.valid /\ auxv'.base = auxv.base
          /\ auxv'.phnum = auxv.phnum /\ auxv'.entry = auxv.entry
      BY <1>4, <3>1
    <3> QED
      BY <3>2 DEF AuxTypes
  <2>3. /\ step' = "parse" /\ top' \in Nat /\ top' % P = 0 /\ segs' \in Seq(Segment)
        /\ isLdr => atBase' \in {0, LoaderBase}
        /\ Blank(mem', top') /\ SegmentsOK(segs', pt', mem', top')
    <3>1. CASE UNCHANGED <<step, mem, top, segs, pt, atBase>>
      BY <1>1, <1>2, <3>1 DEF LoadTypes
    <3>2. CASE p.filesz <= p.memsz /\ load_phdr(p)
      BY <1>1, <1>2, <1>3, <1>6, <3>2, LoadPhdrStep
    <3> QED
      BY <1>4, <1>6, <3>1, <3>2
  <2>4. AuxInv'
    <3>1. noPhdr \in BOOLEAN /\ noPhdr' \in BOOLEAN
      BY <1>2, <1>6, <1>A DEF AuxInv
    <3>2. CASE isLdr
      <4>1. auxv' = auxv
        BY <1>6, <1>A, <3>2
      <4>2. AuxComplete'
        BY <1>1, <1>2, <3>2, <4>1, ProgUnchanged DEF AuxInv, AuxComplete
      <4> QED
        BY <1>1, <2>1, <3>1, <3>2, <4>2 DEF AuxInv
    <3>3. CASE ~isLdr
      <4>1. /\ bin = prog /\ HeadersRead(prog, idx, auxv.phdr, noPhdr)
            /\ auxv.valid <=> ~StaticallyLinked(prog)
            /\ auxv.valid => auxv.phnum = Len(prog.phdrs) /\ auxv.entry = prog.entry
        BY <1>1, <1>2, <3>3 DEF AuxInv
      <4>2. prog \in Binary /\ idx \in Nat \ {0} /\ p = prog.phdrs[idx] /\ idx <= Len(prog.phdrs)
        BY <1>1, <1>2, <4>1 DEF LoadTypes, p
      <4>3. [auxv EXCEPT !.phdr = p.vaddr].phdr = p.vaddr
        BY <1>2 DEF AuxInv, AuxTypes
      <4>4. \/ p.type = "PT_PHDR" /\ ~noPhdr /\ noPhdr' /\ auxv'.phdr = p.vaddr
            \/ p.type # "PT_PHDR" /\ (noPhdr => noPhdr') /\ auxv'.phdr = auxv.phdr
        BY <1>6, <1>A, <3>3, <4>3
      <4>5. HeadersRead(prog, idx + 1, auxv'.phdr, noPhdr')
        BY <3>1, <4>1, <4>2, <4>4, NextHeaderRead
      <4>6. HeadersRead(prog', idx', auxv'.phdr, noPhdr')
        BY <1>1, <4>5
      <4> QED
        BY <1>1, <2>1, <2>3, <3>1, <3>3, <4>1, <4>6, ProgUnchanged DEF AuxInv
    <3> QED
      BY <3>2, <3>3
  <2>5. LoadTypes'
    BY <1>1, <1>2, <2>3 DEF LoadTypes
  <2>6. Limit' = top'
    BY <2>3 DEF Limit, Loading
  <2> QED
    BY <1>1, <2>3, <2>4, <2>5, <2>6 DEF LoadInv, IsInput, Limit, Loading
<1> QED
  BY <1>5, <1>6

LEMMA LoadLoaded == LoadInv /\ Loaded /\ UNCHANGED envvars => LoadInv'
<1> SUFFICES ASSUME LoadInv, Loaded, UNCHANGED envvars PROVE LoadInv'
  OBVIOUS
<1>1. step = "parse" /\ idx > Len(bin.phdrs) /\ UNCHANGED <<input, prog, mem, top, segs, pt>>
  BY DEF Loaded, envvars
<1>2. AuxInv /\ LoadTypes /\ Blank(mem, top) /\ segs \in Seq(Segment) /\ SegmentsOK(segs, pt, mem, top)
  BY <1>1 DEF LoadInv, Good, Loading, Limit
<1>3. Blank(mem', top') /\ SegmentsOK(segs', pt', mem', top')
  BY <1>1, <1>2
<1>4. CASE StaticallyLinked(bin)
  <2>1. step' = "loaded" /\ UNCHANGED <<bin, isLdr, idx, noPhdr, auxv, atBase>>
    BY <1>4 DEF Loaded
  <2>2. AuxInv'
    <3>1. AuxComplete
      BY <1>1, <1>2, <1>4 DEF AuxInv, AuxComplete
    <3>2. AuxTypes' /\ AuxComplete'
      BY <1>1, <1>2, <2>1, <3>1, ProgUnchanged DEF AuxInv, AuxTypes, AuxComplete
    <3> QED
      BY <1>1, <1>2, <2>1, <3>2 DEF AuxInv
  <2>3. LoadTypes' /\ Limit' = top'
    BY <1>1, <1>2, <2>1 DEF LoadTypes, Limit, Loading
  <2> QED
    BY <1>1, <1>2, <1>3, <2>1, <2>2, <2>3 DEF LoadInv, IsInput, Loading, LoadTypes
<1>5. CASE ~StaticallyLinked(bin)
  <2>1. /\ step' \in {"terminated", "check"} /\ bin' = Interpreter /\ isLdr' = TRUE /\ idx' = 1
        /\ atBase' = 0 /\ noPhdr' = FALSE
        /\ auxv' = IF isLdr THEN auxv ELSE [auxv EXCEPT !.base = LoaderBase, !.valid = TRUE]
    BY <1>5 DEF Loaded
  <2>2. AuxTypes' /\ AuxComplete'
    <3>1. auxv \in [valid : BOOLEAN, phdr : Nat, phnum : Nat, entry : Nat, base : Nat] /\ LoaderBase \in Nat
      BY <1>2, LoaderConstants DEF AuxInv, AuxTypes
    <3>2. CASE isLdr
      BY <1>1, <1>2, <2>1, <3>2, ProgUnchanged DEF AuxInv, AuxTypes, AuxComplete
    <3>3. CASE ~isLdr
      <4>1. /\ bin = prog /\ HeadersRead(prog, idx, auxv.phdr, noPhdr) /\ ~StaticallyLinked(prog)
            /\ auxv.valid /\ auxv.phnum = Len(prog.phdrs) /\ auxv.entry = prog.entry
        BY <1>1, <1>2, <1>5, <3>3 DEF AuxInv
      <4>2. prog \in Binary /\ idx \in Nat /\ idx > Len(prog.phdrs)
        BY <1>1, <1>2, <4>1 DEF LoadTypes
      <4>3. auxv.phdr = HeaderTable(prog)
        BY <4>1, <4>2, AllHeadersRead
      <4>4. /\ auxv' \in [valid : BOOLEAN, phdr : Nat, phnum : Nat, entry : Nat, base : Nat]
            /\ auxv'.valid /\ auxv'.base = LoaderBase /\ auxv'.phdr = auxv.phdr
            /\ auxv'.phnum = auxv.phnum /\ auxv'.entry = auxv.entry
        BY <2>1, <3>1, <3>3
      <4> QED
        BY <1>1, <4>1, <4>3, <4>4, ProgUnchanged DEF AuxTypes, AuxComplete
    <3> QED
      BY <3>2, <3>3
  <2>3. AuxInv'
    BY <2>1, <2>2 DEF AuxInv
  <2>4. LoadTypes'
    BY <1>1, <1>2, <2>1, LoaderConstants DEF LoadTypes
  <2>5. CASE step' = "terminated"
    BY <1>1, <2>5 DEF LoadInv, IsInput, Good, Loading
  <2>6. CASE step' = "check"
    <3>1. Limit' = top'
      BY <2>6 DEF Limit, Loading
    <3> QED
      BY <1>1, <1>2, <1>3, <2>3, <2>4, <2>6, <3>1 DEF LoadInv, IsInput, Loading, LoadTypes
  <2> QED
    BY <2>1, <2>5, <2>6
<1> QED
  BY <1>4, <1>5

\* The environment's region is the next one, and what is to be pushed is known.
LEMMA LoadEnvironment == LoadInv /\ CreateEnvironment => LoadInv'
<1> SUFFICES ASSUME LoadInv, CreateEnvironment PROVE LoadInv'
  OBVIOUS
<1>1. /\ step = "loaded" /\ envBase' = top /\ offset' = EnvPages * P
      /\ UNCHANGED <<input, prog, isLdr, bin, noPhdr, mem, segs, pt, auxv>>
      /\ \/ step' = "aborted"
         \/ step' = "environment" /\ todo' = Plan
  BY DEF CreateEnvironment, Plan, Vector
<1>2. /\ AuxInv /\ segs \in Seq(Segment) /\ SegmentsOK(segs, pt, mem, top) /\ top \in Nat
      /\ IsInput(input)
  BY <1>1 DEF LoadInv, Good, Loading, Limit
<1>3. CASE step' = "aborted"
  BY <1>1, <1>3 DEF LoadInv, IsInput, Good, Loading
<1>4. CASE step' = "environment" /\ todo' = Plan
  <2>1. AuxTypes /\ AuxComplete
    BY <1>1, <1>2 DEF AuxInv
  <2>2. todo' \in Seq(Items)
    BY <1>2, <1>4, <2>1, PlanReversed
  <2>3. AuxInv'
    BY <1>1, <1>2, <1>4, AuxKept
  <2>4. offset' \in Nat
    BY <1>1, LoaderConstants, StartupConstants
  <2>5. Limit' = top
    BY <1>1, <1>4 DEF Limit, Loading
  <2>6. SegmentsOK(segs', pt', mem', Limit')
    BY <1>1, <1>2, <2>5
  <2>7. step' \notin Loading
    BY <1>4 DEF Loading
  <2> QED
    BY <1>1, <1>2, <2>2, <2>3, <2>4, <2>5, <2>6, <2>7 DEF LoadInv, IsInput
<1> QED
  BY <1>1, <1>3, <1>4

\* What a push does to the environment's region.
LEMMA PushWrites ==
    ASSUME LoadInv, Push
    PROVE  /\ step = "environment" /\ step' \in {"environment", "aborted", "crashed"}
           /\ todo \in Seq(Items) /\ todo # <<>> /\ todo' = Tail(todo) /\ Head(todo) \in Items
           /\ offset \in Nat /\ envBase \in Nat
           /\ \/ mem' = mem /\ offset' = offset
              \/ /\ Head(todo).kind = "str" /\ Head(todo).val.len \in Nat
                 /\ offset' = offset - Head(todo).val.len - 1 /\ offset' \in Nat
                 /\ \A a \in Nat : ByteOf(mem', a) =
                        IF envBase + offset' <= a /\ a < envBase + offset' + Head(todo).val.len
                        THEN <<Head(todo).val.name, a - envBase - offset' + 1>>
                        ELSE ByteOf(mem, a)
<1>1. step = "environment" /\ todo # <<>> /\ todo' = Tail(todo)
  BY DEF Push
<1>2. offset \in Nat /\ envBase \in Nat /\ todo \in Seq(Items)
  BY <1>1 DEF LoadInv, Good, Loading, Limit
<1> DEFINE x == Head(todo)
           noff == offset - x.val.len - 1
           new == [a \in envBase + noff .. envBase + noff + x.val.len - 1 |->
                     String(x.val)[a - envBase - noff + 1]]
<1>3. x \in Items
  BY <1>1, <1>2
<1>4. /\ step' \in {"environment", "aborted", "crashed"}
      /\ \/ mem' = mem /\ offset' = offset
         \/ x.kind = "str" /\ offset > x.val.len + 1 /\ offset' = noff /\ mem' = Write(mem, new)
  BY <1>1 DEF Push, Pushed, write_str
<1>5. ASSUME x.kind = "str", offset > x.val.len + 1, offset' = noff, mem' = Write(mem, new)
      PROVE  /\ x.val.len \in Nat /\ noff \in Nat
             /\ \A a \in Nat : ByteOf(mem', a) =
                    IF envBase + noff <= a /\ a < envBase + noff + x.val.len
                    THEN <<x.val.name, a - envBase - noff + 1>>
                    ELSE ByteOf(mem, a)
  <2>1. x.val \in Str /\ x.val.len \in Nat
    BY <1>3, <1>5 DEF Items, Str
  <2>2. noff \in Nat
    <3>1. \A o, l \in Nat : o > l + 1 => o - l - 1 \in Nat
      OBVIOUS
    <3> QED
      BY <1>2, <1>5, <2>1, <3>1
  <2> DEFINE n == x.val.len
             s == String(x.val)
  <2>3. s = [i \in 1 .. n |-> <<x.val.name, i>>]
    BY DEF String
  <2> SUFFICES ASSUME NEW a \in Nat
               PROVE  ByteOf(mem', a) = IF envBase + noff <= a /\ a < envBase + noff + n
                                        THEN <<x.val.name, a - envBase - noff + 1>>
                                        ELSE ByteOf(mem, a)
    BY <2>1, <2>2
  <2>4. DOMAIN new = envBase + noff .. envBase + noff + n - 1
    OBVIOUS
  <2>5. ByteOf(mem', a) = IF a \in DOMAIN new THEN new[a] ELSE ByteOf(mem, a)
    BY <1>5, WriteByte
  <2>6. a \in DOMAIN new <=> envBase + noff <= a /\ a < envBase + noff + n
    <3> HIDE DEF new, noff, n
    <3> QED
      BY <1>2, <2>1, <2>2, <2>4 DEF n
  <2>7. ASSUME a \in DOMAIN new PROVE new[a] = <<x.val.name, a - envBase - noff + 1>>
    <3>1. a - envBase - noff + 1 \in 1 .. n
      <4> HIDE DEF new, noff, n
      <4> QED
        BY <1>2, <2>1, <2>2, <2>6, <2>7 DEF n
    <3>2. new[a] = s[a - envBase - noff + 1]
      BY <2>4, <2>7
    <3> HIDE DEF new, noff, n, s
    <3> QED
      BY <2>3, <3>1, <3>2
  <2> HIDE DEF new, noff, n
  <2> QED
    BY <2>5, <2>6, <2>7
<1> HIDE DEF new
<1> QED
  BY <1>1, <1>2, <1>3, <1>4, <1>5

LEMMA LoadPush == LoadInv /\ Push => LoadInv'
<1> SUFFICES ASSUME LoadInv, Push PROVE LoadInv'
  OBVIOUS
<1>1. /\ step = "environment" /\ step' \in {"environment", "aborted", "crashed"}
      /\ todo \in Seq(Items) /\ todo # <<>> /\ todo' = Tail(todo)
      /\ offset \in Nat /\ envBase \in Nat
  BY PushWrites
<1>2. UNCHANGED <<input, prog, envBase, bin, isLdr, noPhdr, segs, pt, auxv>>
  BY DEF Push
<1>3. AuxInv /\ segs \in Seq(Segment) /\ SegmentsOK(segs, pt, mem, envBase)
  BY <1>1 DEF LoadInv, Good, Loading, Limit
<1>4. offset' \in Nat /\ \A a \in Nat : a < envBase => ByteOf(mem', a) = ByteOf(mem, a)
  <2>1. CASE mem' = mem /\ offset' = offset
    BY <1>1, <2>1
  <2>2. CASE /\ offset' \in Nat
             /\ \A a \in Nat : ByteOf(mem', a) =
                    IF envBase + offset' <= a /\ a < envBase + offset' + Head(todo).val.len
                    THEN <<Head(todo).val.name, a - envBase - offset' + 1>>
                    ELSE ByteOf(mem, a)
    <3>1. offset' \in Nat
      BY <2>2
    <3>2. \A a, b, o \in Nat : a < b => ~(b + o <= a)
      OBVIOUS
    <3> QED
      BY <1>1, <2>2, <3>1, <3>2
  <2> QED
    BY <2>1, <2>2, PushWrites
<1>5. CASE step' # "environment"
  <2>1. step' \notin Good
    BY <1>1, <1>5 DEF Good, Loading
  <2> QED
    BY <1>2, <2>1 DEF LoadInv, IsInput
<1>6. CASE step' = "environment"
  <2>1. AuxInv'
    BY <1>1, <1>2, <1>3, <1>6, AuxKept
  <2>2. Limit' = envBase /\ step' \notin Loading
    BY <1>2, <1>6 DEF Limit, Loading
  <2>3. SegmentsOK(segs', pt', mem', envBase)
    <3>1. SegmentsOK(segs, pt, mem', envBase)
      BY <1>1, <1>3, <1>4, SegmentsKept
    <3> QED
      BY <1>2, <3>1
  <2>4. todo' \in Seq(Items)
    BY <1>1
  <2> QED
    BY <1>1, <1>2, <1>3, <1>4, <2>1, <2>2, <2>3, <2>4 DEF LoadInv, IsInput
<1> QED
  BY <1>5, <1>6

LEMMA LoadSetup ==
    ASSUME LoadInv, setup_proxy_os, UNCHANGED envvars
    PROVE  LoadInv'
<1>1. /\ step = "setup"
      /\ UNCHANGED <<input, prog, envBase, offset, todo, bin, isLdr, noPhdr, mem, segs, auxv>>
      /\ \/ step' = "aborted"
         \/ /\ step' = "ready" /\ SignalPage \notin DOMAIN pt
            /\ pt' = [q \in DOMAIN pt \cup {SignalPage} |->
                        IF q = SignalPage THEN (top \div P) + 5 ELSE pt[q]]
  BY DEF setup_proxy_os, envvars
<1>2. /\ AuxInv /\ segs \in Seq(Segment) /\ SegmentsOK(segs, pt, mem, envBase) /\ envBase \in Nat
      /\ offset \in Nat /\ todo \in Seq(Items)
  BY <1>1 DEF LoadInv, Good, Loading, Limit
<1>3. CASE step' = "aborted"
  BY <1>1, <1>3 DEF LoadInv, IsInput, Good, Loading
<1>4. CASE step' = "ready"
  <2>1. \A q \in DOMAIN pt : q \in DOMAIN pt' /\ pt'[q] = pt[q]
    BY <1>1, <1>4
  <2>2. SegmentsOK(segs, pt', mem, envBase)
    BY <1>2, <2>1, SegmentsKept
  <2>3. SegmentsOK(segs', pt', mem', envBase)
    BY <1>1, <2>2
  <2>4. AuxInv'
    BY <1>1, <1>2, <1>4, AuxKept
  <2>5. Limit' = envBase /\ step' \notin Loading
    BY <1>1, <1>4 DEF Limit, Loading
  <2> QED
    BY <1>1, <1>2, <2>3, <2>4, <2>5 DEF LoadInv, IsInput
<1> QED
  BY <1>1, <1>3, <1>4

\* A step that changes nothing but how far the monitor is.
LEMMA LoadUnchanged ==
    ASSUME LoadInv, step' = step \/ (step = "environment" /\ step' = "setup"),
           UNCHANGED <<envvars, bin, isLdr, idx, noPhdr, mem, top, segs, pt, auxv, atBase>>
    PROVE  LoadInv'
<1>1. UNCHANGED <<input, prog, envBase, offset, todo, bin, isLdr, idx, noPhdr, mem, top, segs, pt, auxv,
                  atBase>>
  BY DEF envvars
<1>2. IsInput(input)'
  BY <1>1 DEF LoadInv, IsInput
<1>3. ASSUME step' \in Good PROVE step \in Good /\ Limit' = Limit /\ (step' \in Loading <=> step \in Loading)
  BY <1>1, <1>3 DEF Good, Loading, Limit
<1>4. ASSUME step' \in Good PROVE AuxInv'
  <2>1. AuxInv
    BY <1>3, <1>4 DEF LoadInv
  <2>2. CASE step' = step
    <3>1. AuxTypes' = AuxTypes /\ AuxComplete' = AuxComplete
      BY <1>1, ProgUnchanged DEF AuxTypes, AuxComplete
    <3>2. HeadersRead(prog, idx, auxv.phdr, noPhdr)' = HeadersRead(prog, idx, auxv.phdr, noPhdr)
      BY <1>1 DEF HeadersRead
    <3> QED
      BY <1>1, <2>1, <2>2, <3>1, <3>2, ProgUnchanged DEF AuxInv
  <2>3. CASE step = "environment" /\ step' = "setup"
    BY <1>1, <2>1, <2>3, AuxKept
  <2> QED
    BY <2>2, <2>3
<1>5. ASSUME step' \in Good
      PROVE  /\ (segs \in Seq(Segment))' /\ (Limit \in Nat)' /\ SegmentsOK(segs', pt', mem', Limit')
             /\ step' \in Loading => LoadTypes' /\ Blank(mem', top')
             /\ step' \notin Loading => offset' \in Nat /\ todo' \in Seq(Items)
  <2>1. LoadTypes => LoadTypes'
    BY <1>1 DEF LoadTypes
  <2>2. /\ segs \in Seq(Segment) /\ Limit \in Nat /\ SegmentsOK(segs, pt, mem, Limit)
        /\ step \in Loading => LoadTypes /\ Blank(mem, top)
        /\ step \notin Loading => offset \in Nat /\ todo \in Seq(Items)
    BY <1>3, <1>5 DEF LoadInv
  <2> QED
    BY <1>1, <1>3, <1>5, <2>1, <2>2
<1> QED
  BY <1>2, <1>4, <1>5 DEF LoadInv

LEMMA LoadNext == LoadInv /\ [Next]_startvars => LoadInv'
<1> SUFFICES ASSUME LoadInv, [Next]_startvars PROVE LoadInv'
  OBVIOUS
<1>1. CASE Load /\ UNCHANGED envvars
  BY <1>1, LoadCheck, LoadParse, LoadLoaded DEF Load
<1>2. CASE CreateEnvironment
  BY <1>2, LoadEnvironment
<1>3. CASE Push
  BY <1>3, LoadPush
<1>4. CASE Created
  BY <1>4, LoadUnchanged DEF Created
<1>5. CASE setup_proxy_os /\ UNCHANGED envvars
  BY <1>5, LoadSetup
<1>6. CASE UNCHANGED <<loadvars, envvars>>
  BY <1>6, LoadUnchanged DEF loadvars
<1>7. CASE UNCHANGED startvars
  BY <1>6, <1>7 DEF startvars
<1> QED
  BY <1>1, <1>2, <1>3, <1>4, <1>5, <1>6, <1>7 DEF Next, Setup

\* Neither the padding of a segment, nor the environment's strings, nor the pages
\* of the proxy operating system harm a segment of the binary or the interpreter,
\* however many there are and wherever they begin and end: load_phdr and what
\* follows it leave the guest the bytes of the file, and zeroes behind them.
THEOREM SegmentsLoadedTheorem == Spec => []SegmentsLoaded
<1>1. LoadInv => SegmentsLoaded
  <2> SUFFICES ASSUME LoadInv, step = "ready", NEW k \in DOMAIN segs
               PROVE  LET s == segs[k] IN
                      /\ \A i \in 0 .. s.p.filesz - 1 : GuestByte(s.addr + i) = <<s.file, s.p.off + i>>
                      /\ "X" \notin s.p.flags =>
                            \A i \in s.p.filesz .. s.p.memsz - 1 : GuestByte(s.addr + i) = NoByte
    BY DEF SegmentsLoaded
  <2>1. segs \in Seq(Segment) /\ SegmentsOK(segs, pt, mem, Limit)
    BY DEF LoadInv, Good
  <2>2. k \in 1 .. Len(segs)
    BY <2>1
  <2>3. Right(pt, mem, segs[k])
    BY <2>1, <2>2 DEF SegmentsOK
  <2> QED
    BY <2>3 DEF Right, GuestByte, Byte, ByteOf
<1> QED
  BY <1>1, LoadInit, LoadNext, PTL DEF Spec

--------------------------------------------------------------------------------
(***************************************************************************)
(* The stack: what expand, push and pop keep.                              *)
(***************************************************************************)
\* The virtual CPU with its stack, whatever its words are.
Cpu(W) == [base : Int, rsp : Int, memory : Nat, err : BOOLEAN, aborted : BOOLEAN, word : W]
IsFcn(f) == f = [a \in DOMAIN f |-> f[a]]
IsCpu(c) == c \in Cpu({c.word}) /\ IsFcn(c.word) /\ DOMAIN c.word \subseteq Int

LEMMA CpuParts ==
    ASSUME NEW c, IsCpu(c)
    PROVE  /\ c.base \in Int /\ c.rsp \in Int /\ c.memory \in Nat /\ c.err \in BOOLEAN
           /\ c.aborted \in BOOLEAN /\ IsFcn(c.word) /\ DOMAIN c.word \subseteq Int
BY DEF IsCpu, Cpu

\* One part of it changes, or two.
SetBase(c, b, m) == [c EXCEPT !.base = b, !.memory = m]
SetWord(c, w, e) == [c EXCEPT !.word = w, !.err = e]
SetOnlyWord(c, w) == [c EXCEPT !.word = w]
SetFrame(c, r, w) == [c EXCEPT !.rsp = r, !.word = w]
SetErr(c, e) == [c EXCEPT !.err = e]
SetAborted(c, e) == [c EXCEPT !.aborted = e]
SetRsp(c, r) == [c EXCEPT !.rsp = r]

LEMMA WithBase ==
    ASSUME NEW c, IsCpu(c), NEW b \in Int, NEW m \in Nat,
           NEW d, d = SetBase(c, b, m)
    PROVE  IsCpu(d) /\ d.base = b /\ d.rsp = c.rsp /\ d.aborted = c.aborted /\ d.word = c.word
<1>1. d \in Cpu({c.word})
  BY Zenon DEF IsCpu, Cpu, SetBase
<1>2. d.base = b /\ d.rsp = c.rsp /\ d.aborted = c.aborted /\ d.word = c.word
  BY SMT DEF IsCpu, Cpu, SetBase
<1> QED
  BY <1>1, <1>2 DEF IsCpu

LEMMA WithWord ==
    ASSUME NEW c, IsCpu(c), NEW w, IsFcn(w), DOMAIN w \subseteq Int, NEW e \in BOOLEAN,
           NEW d, d = SetWord(c, w, e)
    PROVE  IsCpu(d) /\ d.base = c.base /\ d.rsp = c.rsp /\ d.aborted = c.aborted /\ d.word = w /\ d.err = e
<1>1. d \in Cpu({w})
  BY Zenon DEF IsCpu, Cpu, SetWord
<1>2. d.base = c.base /\ d.rsp = c.rsp /\ d.aborted = c.aborted /\ d.word = w /\ d.err = e
  BY SMT DEF IsCpu, Cpu, SetWord
<1> QED
  BY <1>1, <1>2 DEF IsCpu

LEMMA WithOnlyWord ==
    ASSUME NEW c, IsCpu(c), NEW w, IsFcn(w), DOMAIN w \subseteq Int,
           NEW d, d = SetOnlyWord(c, w)
    PROVE  IsCpu(d) /\ d.base = c.base /\ d.rsp = c.rsp /\ d.aborted = c.aborted /\ d.word = w
<1>1. d \in Cpu({w})
  BY Zenon DEF IsCpu, Cpu, SetOnlyWord
<1>2. d.base = c.base /\ d.rsp = c.rsp /\ d.aborted = c.aborted /\ d.word = w
  BY SMT DEF IsCpu, Cpu, SetOnlyWord
<1> QED
  BY <1>1, <1>2 DEF IsCpu

LEMMA WithFrame ==
    ASSUME NEW c, IsCpu(c), NEW w, IsFcn(w), DOMAIN w \subseteq Int, NEW r \in Int,
           NEW d, d = SetFrame(c, r, w)
    PROVE  IsCpu(d) /\ d.base = c.base /\ d.rsp = r /\ d.aborted = c.aborted /\ d.word = w
<1>1. d \in Cpu({w})
  BY Zenon DEF IsCpu, Cpu, SetFrame
<1>2. d.base = c.base /\ d.rsp = r /\ d.aborted = c.aborted /\ d.word = w
  BY SMT DEF IsCpu, Cpu, SetFrame
<1> QED
  BY <1>1, <1>2 DEF IsCpu

LEMMA WithErr ==
    ASSUME NEW c, IsCpu(c), NEW e \in BOOLEAN,
           NEW d, d = SetErr(c, e)
    PROVE  IsCpu(d) /\ d.base = c.base /\ d.rsp = c.rsp /\ d.aborted = c.aborted /\ d.word = c.word /\ d.err = e
<1>1. d \in Cpu({c.word})
  BY Zenon DEF IsCpu, Cpu, SetErr
<1>2. d.base = c.base /\ d.rsp = c.rsp /\ d.aborted = c.aborted /\ d.word = c.word /\ d.err = e
  BY SMT DEF IsCpu, Cpu, SetErr
<1> QED
  BY <1>1, <1>2 DEF IsCpu

LEMMA WithRsp ==
    ASSUME NEW c, IsCpu(c), NEW r \in Int,
           NEW d, d = SetRsp(c, r)
    PROVE  IsCpu(d) /\ d.base = c.base /\ d.rsp = r /\ d.aborted = c.aborted /\ d.word = c.word
<1>1. d \in Cpu({c.word})
  BY Zenon DEF IsCpu, Cpu, SetRsp
<1>2. d.base = c.base /\ d.rsp = r /\ d.aborted = c.aborted /\ d.word = c.word
  BY SMT DEF IsCpu, Cpu, SetRsp
<1> QED
  BY <1>1, <1>2 DEF IsCpu

LEMMA WithAborted ==
    ASSUME NEW c, IsCpu(c), NEW e \in BOOLEAN,
           NEW d, d = SetAborted(c, e)
    PROVE  IsCpu(d) /\ d.base = c.base /\ d.rsp = c.rsp /\ d.aborted = e /\ d.word = c.word
<1>1. d \in Cpu({c.word})
  BY Zenon DEF IsCpu, Cpu, SetAborted
<1>2. d.base = c.base /\ d.rsp = c.rsp /\ d.aborted = e /\ d.word = c.word
  BY SMT DEF IsCpu, Cpu, SetAborted
<1> QED
  BY <1>1, <1>2 DEF IsCpu

LEMMA Aborted ==
    ASSUME NEW c, IsCpu(c)
    PROVE  [c EXCEPT !.aborted = TRUE].aborted = TRUE
BY SMT DEF IsCpu, Cpu

\* Nothing is mapped below the stack.
Bottom(c) == \A a \in DOMAIN c.word : c.base <= a

\* The pages of a new part of the stack.
LEMMA GrowPages ==
    /\ Grow \div PageWords \in Nat \ {0}
    /\ \A i \in 0 .. (Grow \div PageWords) - 1, k \in 0 .. PageWords - 1 :
           i * PageWords + k \in 0 .. Grow - 1
<1> DEFINE n == Grow \div PageWords
<1>1. PageWords \in Nat \ {0} /\ Grow \in Nat \ {0}
  BY StackConstants
<1>2. n \in Nat /\ Grow = PageWords * n
  <2>1. n \in Int /\ Grow = PageWords * n + (Grow % PageWords) /\ Grow % PageWords = 0
    BY <1>1, StackConstants
  <2> HIDE DEF n
  <2>2. Grow = PageWords * n
    BY <1>1, <2>1
  <2>3. n \in Nat
    <3>1. CASE n < 0
      <4>1. PageWords * n < 0
        BY <1>1, <2>1, <3>1
      <4> QED
        BY <1>1, <2>2, <4>1
    <3> QED
      BY <2>1, <3>1
  <2> QED
    BY <2>2, <2>3
<1> HIDE DEF n
<1>3. n # 0
  BY <1>1, <1>2
<1>4. ASSUME NEW i \in 0 .. n - 1, NEW k \in 0 .. PageWords - 1
      PROVE  i * PageWords + k \in 0 .. Grow - 1
  <2>1. i \in Nat /\ n - 1 - i \in Nat /\ k \in Nat
    BY <1>2
  <2>2. i * PageWords \in Nat /\ PageWords * (n - 1 - i) \in Nat
    BY <1>1, <2>1
  <2>3. PageWords * (n - 1 - i) = PageWords * n - PageWords - i * PageWords
    BY <1>1, <1>2, <2>1
  <2>4. PageWords * n \in Nat
    BY <1>1, <1>2
  <2> QED
    BY <1>1, <1>2, <2>1, <2>2, <2>3, <2>4
<1> QED
  BY <1>2, <1>3, <1>4 DEF n

\* A new part of the stack covers no word at or above the old base, and below
\* which nothing is mapped it is mapped as a whole.
LEMMA ExpandFacts ==
    ASSUME NEW c, IsCpu(c), c.memory # 0
    PROVE  LET d == expand(c) IN
           /\ IsCpu(d) /\ d.base = c.base - Grow /\ d.rsp = c.rsp /\ d.aborted = c.aborted
           /\ \A a \in DOMAIN c.word :
                  a \in DOMAIN d.word /\ (a >= c.base => d.word[a] = c.word[a])
           /\ Bottom(c) => /\ Bottom(d) /\ d.err = FALSE
                           /\ d.base \in DOMAIN d.word /\ d.word[d.base] = OldWord
<1> DEFINE start == c.base - Grow
           b == [c EXCEPT !.base = @ - Grow, !.memory = @ - 1]
           starts == {start + i * PageWords : i \in 0 .. (Grow \div PageWords) - 1}
           bad == {p \in starts : Mapped(b, p)}
           new == UNION {Page(p) : p \in {x \in starts : \A y \in bad : x < y}}
           w == [a \in new \cup DOMAIN b.word |-> IF a \in new THEN OldWord ELSE b.word[a]]
           d == [b EXCEPT !.word = w, !.err = bad # {}]
<1>1. expand(c) = d
  BY DEF expand, MapRegion
<1>2. PageWords \in Nat \ {0} /\ Grow \in Nat \ {0} /\ c.base \in Int /\ start \in Int
      /\ DOMAIN c.word \subseteq Int /\ c.memory - 1 \in Nat
  BY StackConstants, CpuParts
<1>3. IsCpu(b) /\ b.base = start /\ b.rsp = c.rsp /\ b.aborted = c.aborted /\ b.word = c.word
  <2> DEFINE m == c.memory - 1
  <2>1. start \in Int /\ m \in Nat
    BY <1>2
  <2>2. b = SetBase(c, start, m)
    BY Zenon DEF SetBase
  <2> HIDE DEF start, m, b
  <2> QED
    BY <2>1, <2>2, WithBase
<1> HIDE DEF b
<1>5. \A p \in starts, k \in 0 .. PageWords - 1 : p + k \in Int /\ start <= p + k /\ p + k < c.base
  <2> SUFFICES ASSUME NEW i \in 0 .. (Grow \div PageWords) - 1, NEW k \in 0 .. PageWords - 1
               PROVE  LET p == start + i * PageWords IN
                      p + k \in Int /\ start <= p + k /\ p + k < c.base
    OBVIOUS
  <2> DEFINE z == i * PageWords
  <2>1. z + k \in 0 .. Grow - 1
    BY GrowPages
  <2>2. z \in Int
    BY <1>2, GrowPages
  <2> HIDE DEF z
  <2>3. start + z + k \in Int /\ start <= start + z + k /\ start + z + k < c.base
    BY <1>2, <2>1, <2>2
  <2> QED
    BY <2>3 DEF z
<1>6. starts \subseteq Int /\ start \in starts
  <2>1. \A i \in 0 .. (Grow \div PageWords) - 1 : start + i * PageWords \in Int
    BY <1>2, GrowPages
  <2>2. 0 \in 0 .. (Grow \div PageWords) - 1 /\ start + 0 * PageWords = start
    BY <1>2, GrowPages
  <2> HIDE DEF start
  <2> QED
    BY <2>1, <2>2
<1>7. ASSUME NEW a \in new PROVE a \in Int /\ start <= a /\ a < c.base
  <2>1. PICK p \in starts : a \in p .. p + PageWords - 1
    BY <1>7 DEF Page
  <2>2. p \in Int /\ a - p \in 0 .. PageWords - 1 /\ p + (a - p) = a
    BY <1>2, <1>6, <2>1
  <2> HIDE DEF starts
  <2> QED
    BY <1>5, <2>2
<1> HIDE DEF start
<1>8. DOMAIN w = new \cup DOMAIN c.word /\ IsFcn(w) /\ DOMAIN w \subseteq Int
  <2>1. DOMAIN w = new \cup DOMAIN c.word
    BY <1>3
  <2>2. IsFcn(w)
    BY DEF IsFcn
  <2> HIDE DEF new, w
  <2> QED
    BY <1>2, <1>7, <2>1, <2>2
<1>9. IsCpu(d) /\ d.base = start /\ d.rsp = c.rsp /\ d.aborted = c.aborted /\ d.word = w
      /\ d.err = (bad # {})
  <2> DEFINE e == bad # {}
  <2>1. d = SetWord(b, w, e) /\ e \in BOOLEAN
    BY Zenon DEF SetWord
  <2> HIDE DEF w, e, d, bad
  <2>2. /\ IsCpu(d) /\ d.base = b.base /\ d.rsp = b.rsp /\ d.aborted = b.aborted /\ d.word = w
        /\ d.err = e
    BY <1>3, <1>8, <2>1, WithWord
  <2> QED
    BY <1>3, <2>2 DEF e
<1> HIDE DEF d
<1>10. ASSUME NEW a \in DOMAIN c.word
       PROVE  a \in DOMAIN d.word /\ (a >= c.base => d.word[a] = c.word[a])
  <2> HIDE DEF new
  <2>1. a >= c.base => a \notin new
    BY <1>2, <1>7, <1>10
  <2> QED
    BY <1>3, <1>9, <2>1
<1>11. ASSUME Bottom(c)
       PROVE  Bottom(d) /\ d.err = FALSE /\ d.base \in DOMAIN d.word /\ d.word[d.base] = OldWord
  <2>1. bad = {}
    <3> SUFFICES ASSUME NEW p \in starts, Mapped(b, p) PROVE FALSE
      OBVIOUS
    <3>1. p < c.base
      <4>1. 0 \in 0 .. PageWords - 1 /\ p \in Int /\ p + 0 = p
        BY <1>2, <1>6
      <4> HIDE DEF starts
      <4> QED
        BY <1>5, <4>1
    <3>2. c.base <= p
      BY <1>3, <1>11 DEF Mapped, Bottom
    <3> QED
      BY <1>2, <1>6, <3>1, <3>2
  <2>2. start \in new
    <3>1. start \in Page(start)
      BY <1>2 DEF Page
    <3> HIDE DEF starts, bad
    <3> QED
      BY <1>6, <2>1, <3>1
  <2> HIDE DEF new, bad
  <2>3. DOMAIN d.word = new \cup DOMAIN c.word
    BY <1>8, <1>9
  <2>4. \A a \in DOMAIN d.word : start <= a
    <3>1. start <= c.base
      BY <1>2 DEF start
    <3> QED
      BY <1>2, <1>7, <1>11, <2>3, <3>1 DEF Bottom
  <2> QED
    BY <1>9, <2>1, <2>2, <2>3, <2>4 DEF Bottom
<1> QED
  BY <1>1, <1>9, <1>10, <1>11 DEF start

\* A word of the stack is written.
LEMMA WordWritten ==
    ASSUME NEW c, IsCpu(c), NEW r \in DOMAIN c.word, NEW v, NEW d, d = [c EXCEPT !.word[r] = v]
    PROVE  /\ IsCpu(d) /\ d.base = c.base /\ d.rsp = c.rsp /\ d.aborted = c.aborted
           /\ DOMAIN d.word = DOMAIN c.word /\ d.word[r] = v
           /\ \A a \in DOMAIN c.word : a # r => d.word[a] = c.word[a]
<1> DEFINE w == [c.word EXCEPT ![r] = v]
<1>1. d = SetOnlyWord(c, w)
  BY Zenon DEF SetOnlyWord
<1>2. IsFcn(c.word) /\ DOMAIN c.word \subseteq Int
  BY CpuParts
<1>3. w = [a \in DOMAIN c.word |-> IF a = r THEN v ELSE c.word[a]]
  BY <1>2 DEF IsFcn
<1>4. IsFcn(w) /\ DOMAIN w = DOMAIN c.word
  BY <1>3 DEF IsFcn
<1> HIDE DEF w
<1>5. IsCpu(d) /\ d.base = c.base /\ d.rsp = c.rsp /\ d.aborted = c.aborted /\ d.word = w
  <2>1. IsCpu(c)
    OBVIOUS
  <2>2. DOMAIN w \subseteq Int
    BY <1>2, <1>4
  <2> QED
    BY ONLY <1>1, <1>4, <2>1, <2>2, WithOnlyWord
<1> QED
  BY <1>3, <1>5

\* A push that does not abort keeps every word at or above the base but the one
\* it writes; where nothing is mapped below the stack the word is written.
LEMMA PushFacts ==
    ASSUME NEW c, IsCpu(c), NEW v, NEW d, d = push(c, v), ~d.aborted
    PROVE  /\ IsCpu(d) /\ d.base <= c.base /\ ~c.aborted
           /\ \A a \in DOMAIN c.word : a >= c.base /\ a # c.rsp - 1 =>
                  a \in DOMAIN d.word /\ d.word[a] = c.word[a]
           /\ Bottom(c) => /\ Bottom(d) /\ d.rsp = c.rsp - 1
                           /\ d.rsp \in DOMAIN d.word /\ d.word[d.rsp] = v
<1> DEFINE r == c.rsp - 1
           b == [c EXCEPT !.rsp = @ - 1]
           x == IF Mapped(b, b.rsp) THEN [b EXCEPT !.err = FALSE] ELSE expand(b)
<1>1. c.rsp \in Int /\ c.base \in Int /\ DOMAIN c.word \subseteq Int /\ r \in Int /\ Grow \in Nat
  BY CpuParts, StackConstants
<1>2. IsCpu(b) /\ b.base = c.base /\ b.rsp = r /\ b.aborted = c.aborted /\ b.word = c.word
  <2>1. b = SetRsp(c, r)
    BY Zenon DEF SetRsp
  <2>2. IsCpu(c)
    OBVIOUS
  <2> HIDE DEF b, r
  <2> QED
    BY ONLY <1>1, <2>1, <2>2, WithRsp
<1>3. d = IF x.aborted \/ x.err THEN x
          ELSE IF ~Mapped(x, b.rsp) THEN [x EXCEPT !.aborted = TRUE]
          ELSE [x EXCEPT !.word[b.rsp] = v]
  BY DEF push, pushq
<1>4. CASE ~Mapped(b, b.rsp) /\ c.memory = 0
  <2>1. b.memory = c.memory
    <3>1. \A z : [c EXCEPT !.rsp = z].memory = c.memory
      BY SMT DEF IsCpu, Cpu
    <3> QED
      BY <3>1
  <2>2. x = [b EXCEPT !.aborted = TRUE]
    BY <1>4, <2>1 DEF expand
  <2> HIDE DEF x, b
  <2>3. x.aborted = TRUE
    BY <1>2, <2>2, Aborted
  <2> QED
    BY <1>3, <2>3
<1>5. CASE Mapped(b, b.rsp) \/ c.memory # 0
  <2>1. /\ IsCpu(x) /\ x.base <= c.base /\ x.rsp = r /\ x.aborted = c.aborted
        /\ \A a \in DOMAIN c.word : a \in DOMAIN x.word /\ (a >= c.base => x.word[a] = c.word[a])
        /\ Bottom(c) => Bottom(x) /\ x.err = FALSE
    <3>1. CASE Mapped(b, b.rsp)
      <4>1. x = SetErr(b, FALSE)
        BY <3>1 DEF SetErr
      <4> HIDE DEF x, b, r
      <4>2. IsCpu(x) /\ x.base = b.base /\ x.rsp = b.rsp /\ x.aborted = b.aborted /\ x.word = b.word
            /\ x.err = FALSE
        BY <1>2, <4>1, WithErr
      <4> QED
        BY <1>1, <1>2, <4>2 DEF Bottom
    <3>2. CASE ~Mapped(b, b.rsp)
      <4>1. b.memory # 0
        <5>1. \A z : [c EXCEPT !.rsp = z].memory = c.memory
          BY SMT DEF IsCpu, Cpu
        <5> QED
          BY <1>5, <3>2, <5>1
      <4>2. x = expand(b)
        BY <3>2
      <4> HIDE DEF x, b, r
      <4>3. /\ IsCpu(x) /\ x.base = b.base - Grow /\ x.rsp = b.rsp /\ x.aborted = b.aborted
            /\ \A a \in DOMAIN b.word : a \in DOMAIN x.word /\ (a >= b.base => x.word[a] = b.word[a])
            /\ Bottom(b) => Bottom(x) /\ x.err = FALSE
        BY <1>2, <4>1, <4>2, ExpandFacts
      <4>4. x.base <= c.base
        BY <1>1, <1>2, <4>3
      <4> QED
        BY <1>2, <4>3, <4>4 DEF Bottom
    <3> QED
      BY <3>1, <3>2
  <2> HIDE DEF x, b
  <2>2. ~x.aborted
    BY <1>3
  <2>3. CASE x.err
    <3>1. d = x
      BY <1>3, <2>3
    <3> QED
      BY <2>1, <2>2, <2>3, <3>1
  <2>4. CASE ~x.err
    <3>1. Mapped(x, r)
      <4>1. [x EXCEPT !.aborted = TRUE].aborted = TRUE
        BY <2>1, Aborted
      <4> HIDE DEF r
      <4> QED
        BY <1>2, <1>3, <2>2, <2>4, <4>1
    <3>2. d = [x EXCEPT !.word[r] = v]
      <4> HIDE DEF r
      <4> QED
        BY <1>2, <1>3, <2>2, <2>4, <3>1
    <3> HIDE DEF r
    <3>3. /\ IsCpu(d) /\ d.base = x.base /\ d.rsp = x.rsp /\ d.aborted = x.aborted
          /\ DOMAIN d.word = DOMAIN x.word /\ d.word[r] = v
          /\ \A a \in DOMAIN x.word : a # r => d.word[a] = x.word[a]
      <4>1. r \in DOMAIN x.word
        BY <3>1 DEF Mapped
      <4> QED
        BY <2>1, <3>2, <4>1, WordWritten
    <3>4. Bottom(c) => Bottom(d)
      BY <2>1, <3>3 DEF Bottom
    <3>5. \A a \in DOMAIN c.word : a >= c.base /\ a # r => a \in DOMAIN d.word /\ d.word[a] = c.word[a]
      BY <2>1, <3>3
    <3>6. r \in DOMAIN d.word /\ d.rsp = r /\ d.base <= c.base
      BY <2>1, <3>1, <3>3 DEF Mapped
    <3> QED
      BY <2>1, <2>2, <3>3, <3>4, <3>5, <3>6 DEF r
  <2> QED
    BY <2>3, <2>4
<1> QED
  BY <1>4, <1>5

\* A pop only moves rsp.
LEMMA PopFacts ==
    ASSUME NEW c, IsCpu(c), NEW d, d = pop(c)
    PROVE  /\ IsCpu(d) /\ d.base = c.base /\ d.word = c.word
           /\ ~d.aborted => d.rsp = c.rsp + 1
           /\ c.aborted => d.aborted
<1> DEFINE r == c.rsp + 1
<1>1. r \in Int
  BY CpuParts
<1>2. d = SetRsp(c, r) \/ d = SetAborted(c, TRUE)
  BY DEF pop, SetRsp, SetAborted
<1> HIDE DEF r
<1>3. CASE d = SetRsp(c, r)
  <2>1. IsCpu(d) /\ d.base = c.base /\ d.rsp = r /\ d.aborted = c.aborted /\ d.word = c.word
    BY <1>1, <1>3, WithRsp
  <2> QED
    BY <2>1 DEF r
<1>4. CASE d = SetAborted(c, TRUE)
  <2>1. IsCpu(d) /\ d.base = c.base /\ d.rsp = c.rsp /\ d.aborted = TRUE /\ d.word = c.word
    BY <1>4, WithAborted
  <2> QED
    BY <2>1
<1> QED
  BY <1>2, <1>3, <1>4

\* The new stack: its word at rsp was not written.
LEMMA NewStackFacts ==
    /\ IsCpu(NewStack) /\ Bottom(NewStack) /\ NewStack.rsp = StackBase - Grow
    /\ NewStack.rsp \in DOMAIN NewStack.word /\ NewStack.word[NewStack.rsp] = OldWord
<1> DEFINE k == [a \in Page(KernelTop - PageWords) |-> OldWord]
           b == [base |-> StackBase, rsp |-> 0, memory |-> Memory, err |-> FALSE,
                 aborted |-> FALSE, word |-> k]
           c == expand(b)
<1>1. NewStack = [c EXCEPT !.rsp = c.base]
  BY DEF NewStack
<1>2. /\ StackBase \in Int /\ Memory \in Nat /\ Memory # 0 /\ KernelTop \in Nat /\ PageWords \in Nat
      /\ KernelTop - PageWords >= StackBase /\ Grow \in Nat
  BY StackConstants
<1>3. IsFcn(k) /\ DOMAIN k \subseteq Int /\ \A a \in DOMAIN k : StackBase <= a
  <2>1. DOMAIN k = KernelTop - PageWords .. KernelTop - PageWords + PageWords - 1
    BY DEF Page
  <2>2. IsFcn(k)
    BY DEF IsFcn
  <2> HIDE DEF k
  <2> QED
    BY <1>2, <2>1, <2>2
<1> HIDE DEF k
<1>4. b.word = k /\ b.base = StackBase /\ b.memory = Memory
  OBVIOUS
<1>5. b \in Cpu({k})
  BY <1>2 DEF Cpu
<1> HIDE DEF b
<1>6. IsCpu(b) /\ Bottom(b) /\ b.memory # 0
  BY <1>2, <1>3, <1>4, <1>5 DEF IsCpu, Bottom
<1>7. /\ IsCpu(c) /\ c.base = StackBase - Grow
      /\ Bottom(c) /\ c.base \in DOMAIN c.word /\ c.word[c.base] = OldWord
  BY <1>4, <1>6, ExpandFacts
<1> HIDE DEF c
<1>8. c.base \in Int
  BY <1>7, CpuParts
<1>9. NewStack = SetRsp(c, c.base)
  BY <1>1 DEF SetRsp
<1>10. IsCpu(NewStack) /\ NewStack.base = c.base /\ NewStack.rsp = c.base /\ NewStack.word = c.word
  BY <1>7, <1>8, <1>9, WithRsp
<1> QED
  BY <1>7, <1>10 DEF Bottom

--------------------------------------------------------------------------------
(***************************************************************************)
(* The new program's stack.  The pushes go down from Top, the base of the  *)
(* first part of the stack, which nobody writes; the strings go down in    *)
(* the environment's region, of which everything below offset is unused.   *)
(***************************************************************************)
Top == StackBase - Grow

\* Is, for given memory.
IsIn(m, eb, w, x) ==
    \/ x.kind = "num" /\ w = Num(x.val)
    \/ x.kind = "type" /\ w = <<"type", x.val>>
    \/ x.kind = "old" /\ w = OldWord
    \/ /\ x.kind = "str" /\ w[1] = "ptr"
       /\ \A i \in 0 .. x.val.len - 1 : ByteOf(m, eb + w[2] + i) = <<x.val.name, i + 1>>
       /\ ByteOf(m, eb + w[2] + x.val.len) \in Unused

\* A word that is a pointer points above off.
Above(w, x, off) == x.kind = "str" => w[2] \in Nat /\ off <= w[2]

\* The first k words of the plan pl have been pushed and are in place.
Stacked(c, m, eb, off, td, pl, k) ==
    /\ IsCpu(c) /\ Bottom(c)
    /\ k \in Nat /\ k + Len(td) = Len(pl) /\ \A i \in 1 .. Len(td) : td[i] = pl[k + i]
    /\ c.rsp = Top - k /\ Top \in DOMAIN c.word /\ c.word[Top] = OldWord
    /\ \A i \in 1 .. k : /\ pl[i].kind # "wild" /\ Top - i \in DOMAIN c.word
                         /\ IsIn(m, eb, c.word[Top - i], pl[i])
                         /\ Above(c.word[Top - i], pl[i], off)
    /\ \A a \in Nat : eb <= a /\ a < eb + off => ByteOf(m, a) \in Unused

\* The stack the guest has when it runs, or will have when it runs again.
UserRsp == IF phase = "run" THEN cpu.rsp ELSE userRsp
Guest == {"run", "interrupt", "iret"}

\* Word i of a new program is mapped where the stack is, below what the kernel's
\* stack uses.
InPlace(c, r, m, eb, x, i) ==
    /\ r + i - 1 \in DOMAIN c.word /\ c.base <= r + i - 1 /\ r + i - 1 < KernelTop - 7
    /\ IsIn(m, eb, c.word[r + i - 1], x)

StackInv ==
    /\ phase = "start" <=> step # "ready"
    /\ step \in Loading => cpu = NewStack
    /\ step \in {"environment", "setup"} =>
           /\ step = "setup" => todo = <<>>
           /\ Stacked(cpu, mem, envBase, offset, todo, Plan, Len(Plan) - Len(todo))
    /\ phase \in Guest =>
           /\ IsCpu(cpu) /\ UserRsp \in Int
           /\ phase = "interrupt" => cpu.rsp >= KernelTop - 7
           /\ \A i \in DOMAIN NewProgram :
                  i \in Nat /\ InPlace(cpu, UserRsp, mem, envBase, NewProgram[i], i)

\* Nothing is pushed at first.
LEMMA StackedFirst ==
    ASSUME NEW m, NEW eb \in Nat, NEW off \in Nat, NEW pl \in Seq(Items), Blank(m, eb)
    PROVE  Stacked(NewStack, m, eb, off, pl, pl, 0)
<1>1. Len(pl) \in Nat
  OBVIOUS
<1>2. \A i \in 1 .. Len(pl) : pl[i] = pl[0 + i]
  BY <1>1
<1>3. Top \in Int
  BY StackConstants DEF Top
<1>4. NewStack.rsp = Top - 0
  BY <1>3, NewStackFacts DEF Top
<1>5. Top \in DOMAIN NewStack.word /\ NewStack.word[Top] = OldWord
  BY NewStackFacts DEF Top
<1>6. \A a \in Nat : eb <= a /\ a < eb + off => ByteOf(m, a) \in Unused
  BY DEF Blank
<1>7. 0 + Len(pl) = Len(pl) /\ 1 .. 0 = {}
  BY <1>1
<1> QED
  BY <1>2, <1>4, <1>5, <1>6, <1>7, NewStackFacts DEF Stacked

\* A push adds a word, if what it writes for a string keeps the others.
LEMMA StackedPush ==
    ASSUME NEW pl \in Seq(Items), NEW td \in Seq(Items), td # <<>>, NEW k,
           NEW c, NEW m, NEW eb \in Nat, NEW off \in Nat, Stacked(c, m, eb, off, td, pl, k),
           NEW w, NEW d, d = push(c, w), ~d.aborted, NEW m2, NEW off2 \in Nat,
           Head(td).kind # "wild", IsIn(m2, eb, w, Head(td)), Above(w, Head(td), off2),
           \A v : \A x \in Items : IsIn(m, eb, v, x) /\ Above(v, x, off) =>
                                       IsIn(m2, eb, v, x) /\ Above(v, x, off2),
           \A a \in Nat : eb <= a /\ a < eb + off2 => ByteOf(m2, a) \in Unused
    PROVE  Stacked(d, m2, eb, off2, Tail(td), pl, k + 1)
<1>1. /\ IsCpu(c) /\ Bottom(c)
      /\ k \in Nat /\ k + Len(td) = Len(pl) /\ \A i \in 1 .. Len(td) : td[i] = pl[k + i]
      /\ c.rsp = Top - k /\ Top \in DOMAIN c.word /\ c.word[Top] = OldWord
  BY DEF Stacked
<1>2. \A i \in 1 .. k : /\ pl[i].kind # "wild" /\ Top - i \in DOMAIN c.word
                        /\ IsIn(m, eb, c.word[Top - i], pl[i])
                        /\ Above(c.word[Top - i], pl[i], off)
  BY DEF Stacked
<1>3. Top \in Int /\ DOMAIN c.word \subseteq Int /\ c.rsp - 1 = Top - (k + 1)
  BY <1>1, StackConstants, CpuParts DEF Top
<1>4. /\ IsCpu(d) /\ Bottom(d) /\ d.rsp = Top - (k + 1)
      /\ Top - (k + 1) \in DOMAIN d.word /\ d.word[Top - (k + 1)] = w
      /\ \A a \in DOMAIN c.word : a # Top - (k + 1) => a \in DOMAIN d.word /\ d.word[a] = c.word[a]
  <2>1. /\ IsCpu(d) /\ Bottom(d) /\ d.rsp = c.rsp - 1
        /\ d.rsp \in DOMAIN d.word /\ d.word[d.rsp] = w
        /\ \A a \in DOMAIN c.word : a >= c.base /\ a # c.rsp - 1 =>
                  a \in DOMAIN d.word /\ d.word[a] = c.word[a]
    BY <1>1, PushFacts
  <2>2. \A a \in DOMAIN c.word : a >= c.base
    <3>1. c.base \in Int
      BY <1>1, CpuParts
    <3> QED
      BY <1>1, <1>3, <3>1 DEF Bottom
  <2> QED
    BY <1>3, <2>1, <2>2
<1>5. Len(td) \in Nat \ {0} /\ Len(Tail(td)) = Len(td) - 1
      /\ (\A i \in 1 .. Len(td) - 1 : Tail(td)[i] = td[i + 1]) /\ Head(td) = td[1]
  BY HeadTailProperties
<1>6. (k + 1) + Len(Tail(td)) = Len(pl) /\ \A i \in 1 .. Len(Tail(td)) : Tail(td)[i] = pl[(k + 1) + i]
  <2>1. ASSUME NEW i \in 1 .. Len(td) - 1 PROVE td[i + 1] = pl[(k + 1) + i]
    <3>1. i + 1 \in 1 .. Len(td) /\ k + (i + 1) = (k + 1) + i
      BY <1>1, <1>5
    <3> QED
      BY <1>1, <3>1
  <2> QED
    BY <1>1, <1>5, <2>1
<1>7. Head(td) = pl[k + 1]
  BY <1>1, <1>5
<1>8. Top # Top - (k + 1) /\ \A i \in 1 .. k : Top - i # Top - (k + 1)
  BY <1>1, <1>3
<1>9. Top \in DOMAIN d.word /\ d.word[Top] = OldWord
  BY <1>1, <1>4, <1>8
<1>10. ASSUME NEW i \in 1 .. k + 1
       PROVE  /\ pl[i].kind # "wild" /\ Top - i \in DOMAIN d.word
              /\ IsIn(m2, eb, d.word[Top - i], pl[i])
              /\ Above(d.word[Top - i], pl[i], off2)
  <2>1. CASE i = k + 1
    BY <1>4, <1>7, <2>1
  <2>2. CASE i # k + 1
    <3>1. i \in 1 .. k
      BY <1>1, <2>2
    <3>2. pl[i] \in Items
      <4>1. i \in 1 .. Len(pl)
        BY <1>1, <1>5, <3>1
      <4> QED
        BY <4>1
    <3>3. /\ pl[i].kind # "wild" /\ Top - i \in DOMAIN c.word
          /\ IsIn(m, eb, c.word[Top - i], pl[i]) /\ Above(c.word[Top - i], pl[i], off)
      BY <1>2, <3>1
    <3>4. Top - i \in DOMAIN d.word /\ d.word[Top - i] = c.word[Top - i]
      BY <1>4, <1>8, <3>1, <3>3
    <3> QED
      BY <3>2, <3>3, <3>4
  <2> QED
    BY <2>1, <2>2
<1>11. k + 1 \in Nat
  BY <1>1
<1> QED
  BY <1>4, <1>6, <1>9, <1>10, <1>11 DEF Stacked

\* The memory m2 is m with a string at off2 of the environment's region.
WithString(m, m2, eb, off2, s) ==
    \A a \in Nat : ByteOf(m2, a) =
        IF eb + off2 <= a /\ a < eb + off2 + s.val.len
        THEN <<s.val.name, a - eb - off2 + 1>>
        ELSE ByteOf(m, a)
Blanks(m, eb, off) == \A a \in Nat : eb <= a /\ a < eb + off => ByteOf(m, a) \in Unused
Keeps(m, m2, eb, off, off2) ==
    \A v : \A x \in Items : IsIn(m, eb, v, x) /\ Above(v, x, off) =>
                                 IsIn(m2, eb, v, x) /\ Above(v, x, off2)

\* A string is written below the others and in front of a byte that is unused.
LEMMA StringWritten ==
    ASSUME NEW m, NEW m2, NEW eb \in Nat, NEW off \in Nat, NEW off2 \in Nat, Blanks(m, eb, off),
           NEW s \in Items, s.kind = "str", s.val.len \in Nat, off2 = off - s.val.len - 1,
           WithString(m, m2, eb, off2, s), NEW w, w = <<"ptr", off2>>
    PROVE  /\ IsIn(m2, eb, w, s) /\ Above(w, s, off2)
           /\ Blanks(m2, eb, off2)
           /\ Keeps(m, m2, eb, off, off2)
<1> USE DEF Blanks, WithString, Keeps
<1> DEFINE n == s.val.len
<1>1. n \in Nat /\ off2 + n + 1 = off
  OBVIOUS
<1> HIDE DEF n
<1>2. IsIn(m2, eb, w, s)
  <2>1. ASSUME NEW i \in 0 .. n - 1 PROVE ByteOf(m2, eb + off2 + i) = <<s.val.name, i + 1>>
    <3>1. /\ eb + off2 + i \in Nat /\ eb + off2 <= eb + off2 + i /\ eb + off2 + i < eb + off2 + n
          /\ (eb + off2 + i) - eb - off2 + 1 = i + 1
      BY <1>1
    <3> QED
      BY <3>1 DEF n
  <2>2. ByteOf(m2, eb + off2 + n) \in Unused
    <3>1. /\ eb + off2 + n \in Nat /\ ~(eb + off2 + n < eb + off2 + n)
          /\ eb <= eb + off2 + n /\ eb + off2 + n < eb + off
      BY <1>1
    <3> QED
      BY <3>1 DEF n
  <2>3. w[1] = "ptr" /\ w[2] = off2
    OBVIOUS
  <2> QED
    BY <2>1, <2>2, <2>3 DEF IsIn, n
<1>3. Above(w, s, off2)
  BY DEF Above
<1>4. ASSUME NEW a \in Nat, eb <= a, a < eb + off2 PROVE ByteOf(m2, a) \in Unused
  <2>1. ~(eb + off2 <= a) /\ a < eb + off
    BY <1>1, <1>4
  <2> QED
    BY <1>4, <2>1
<1>5. ASSUME NEW v, NEW x \in Items, IsIn(m, eb, v, x), Above(v, x, off)
      PROVE  IsIn(m2, eb, v, x) /\ Above(v, x, off2)
  <2>1. CASE x.kind # "str"
    BY <1>5, <2>1 DEF IsIn, Above
  <2>2. CASE x.kind = "str"
    <3>1. v[2] \in Nat /\ off <= v[2] /\ x.val.len \in Nat
      BY <1>5, <2>2 DEF Above, Items, Str
    <3>2. /\ v[1] = "ptr"
          /\ \A i \in 0 .. x.val.len - 1 : ByteOf(m, eb + v[2] + i) = <<x.val.name, i + 1>>
          /\ ByteOf(m, eb + v[2] + x.val.len) \in Unused
      BY <1>5, <2>2 DEF IsIn
    <3>3. ASSUME NEW a \in Nat, eb + off <= a PROVE ByteOf(m2, a) = ByteOf(m, a)
      <4>1. ~(a < eb + off2 + n)
        BY <1>1, <3>3
      <4> QED
        BY <4>1 DEF n
    <3>4. \A i \in Nat : eb + v[2] + i \in Nat /\ eb + off <= eb + v[2] + i
      <4> DEFINE p == v[2]
      <4>1. p \in Nat /\ off <= p
        BY <3>1
      <4> HIDE DEF p
      <4>2. \A i \in Nat : eb + p + i \in Nat /\ eb + off <= eb + p + i
        BY <4>1
      <4> QED
        BY <4>2 DEF p
    <3>5. \A i \in Nat : ByteOf(m2, eb + v[2] + i) = ByteOf(m, eb + v[2] + i)
      BY <3>3, <3>4
    <3>6. \A i \in 0 .. x.val.len - 1 : i \in Nat
      BY <3>1
    <3>7. IsIn(m2, eb, v, x)
      BY <2>2, <3>1, <3>2, <3>5, <3>6 DEF IsIn
    <3>8. off2 <= v[2]
      BY <1>1, <3>1
    <3> QED
      BY <3>1, <3>7, <3>8 DEF Above
  <2> QED
    BY <2>1, <2>2
<1> QED
  BY <1>2, <1>3, <1>4, <1>5

\* When all is pushed the stack is a new program's.
LEMMA StackedDone ==
    ASSUME IsInput(input), AuxTypes, AuxComplete, NEW c, NEW m, NEW eb, NEW off, NEW k,
           Stacked(c, m, eb, off, <<>>, Plan, k)
    PROVE  /\ IsCpu(c)
           /\ \A i \in DOMAIN NewProgram : i \in Nat /\ InPlace(c, c.rsp, m, eb, NewProgram[i], i)
<1> DEFINE pl == Plan
           z == Item("old", 0)
           new == Backwards(pl) \o <<z>>
<1>1. /\ IsCpu(c) /\ Bottom(c) /\ k \in Nat
      /\ c.rsp = Top - k /\ Top \in DOMAIN c.word /\ c.word[Top] = OldWord
      /\ \A i \in 1 .. k : /\ pl[i].kind # "wild" /\ Top - i \in DOMAIN c.word
                           /\ IsIn(m, eb, c.word[Top - i], pl[i])
  BY DEF Stacked
<1>2. pl \in Seq(Items) /\ (Clean(pl) => NewProgram = new)
  BY PlanReversed
<1>3. Len(pl) = k
  <2>1. k + Len(<<>>) = Len(pl) /\ Len(<<>>) = 0
    BY DEF Stacked
  <2> QED
    BY <1>1, <2>1
<1> HIDE DEF pl
<1>4. NewProgram = new
  BY <1>1, <1>2, <1>3 DEF Clean
<1>5. z \in Items
  BY DEF Items, Item, Values
<1>6. /\ Backwards(pl) \in Seq(Items) /\ Len(Backwards(pl)) = k
      /\ \A i \in 1 .. k : Backwards(pl)[i] = pl[k + 1 - i]
  BY <1>2, <1>3, BackwardsFacts
<1> HIDE DEF z
<1>7. <<z>> \in Seq(Items) /\ Len(<<z>>) = 1 /\ <<z>>[1] = z
  BY <1>5
<1>8. /\ DOMAIN new = 1 .. k + 1 /\ new[k + 1] = z
      /\ \A i \in 1 .. k : new[i] = pl[k + 1 - i]
  <2> DEFINE b == Backwards(pl)
             o == <<z>>
  <2>1. b \in Seq(Items) /\ o \in Seq(Items) /\ Len(b) = k /\ Len(o) = 1 /\ o[1] = z
    BY <1>6, <1>7
  <2> HIDE DEF b, o
  <2>2. /\ b \o o \in Seq(Items) /\ Len(b \o o) = k + 1
        /\ \A i \in 1 .. k + 1 : (b \o o)[i] = IF i <= k THEN b[i] ELSE o[i - k]
    <3>1. /\ b \o o \in Seq(Items) /\ Len(b \o o) = Len(b) + Len(o)
          /\ \A i \in 1 .. Len(b) + Len(o) : (b \o o)[i] = IF i <= Len(b) THEN b[i] ELSE o[i - Len(b)]
      BY <2>1, ConcatProperties
    <3> QED
      BY <2>1, <3>1
  <2>3. DOMAIN (b \o o) = 1 .. k + 1
    BY <2>2, LenProperties
  <2>4. k + 1 \in 1 .. k + 1 /\ ~(k + 1 <= k) /\ (k + 1) - k = 1
    BY <1>1
  <2>5. \A i \in 1 .. k : i \in 1 .. k + 1 /\ i <= k
    BY <1>1
  <2>6. (b \o o)[k + 1] = z /\ \A i \in 1 .. k : (b \o o)[i] = b[i]
    BY <2>1, <2>2, <2>4, <2>5
  <2> QED
    BY <1>6, <2>3, <2>6 DEF b, o
<1> HIDE DEF new
<1>9. /\ Top \in Int /\ Top < KernelTop - 7 /\ KernelTop \in Int /\ c.base \in Int
      /\ DOMAIN c.word \subseteq Int
  BY <1>1, StackConstants, CpuParts DEF Top
<1>10. ASSUME NEW i \in 1 .. k + 1 PROVE InPlace(c, c.rsp, m, eb, new[i], i)
  <2> DEFINE a == c.rsp + i - 1
  <2>1. a \in Int /\ a <= Top /\ a = Top - (k + 1 - i)
    BY <1>1, <1>9
  <2>2. a \in DOMAIN c.word /\ IsIn(m, eb, c.word[a], new[i])
    <3>1. CASE i = k + 1
      <4>1. a = Top
        BY <1>1, <1>9, <3>1
      <4>2. IsIn(m, eb, OldWord, z)
        BY DEF IsIn, z, Item
      <4> HIDE DEF a
      <4> QED
        BY <1>1, <1>8, <3>1, <4>1, <4>2
    <3>2. CASE i # k + 1
      <4>1. i \in 1 .. k /\ k + 1 - i \in 1 .. k
        BY <1>1, <3>2
      <4> HIDE DEF a
      <4> QED
        BY <1>1, <1>8, <2>1, <4>1
    <3> QED
      BY <3>1, <3>2
  <2>3. c.base <= a /\ a < KernelTop - 7
    <3> HIDE DEF a
    <3> QED
      BY <1>1, <1>9, <2>1, <2>2 DEF Bottom
  <2> QED
    BY <2>2, <2>3 DEF InPlace
<1>11. \A i \in 1 .. k + 1 : i \in Nat
  BY <1>1
<1> QED
  BY <1>1, <1>4, <1>8, <1>10, <1>11

\* What keeps the words from the base to the kernel's stack keeps the program's.
LEMMA InPlaceKept ==
    ASSUME NEW c, NEW d, IsCpu(c), IsCpu(d), d.base <= c.base,
           \A a \in DOMAIN c.word : c.base <= a /\ a < KernelTop - 7 =>
               a \in DOMAIN d.word /\ d.word[a] = c.word[a],
           NEW r \in Int, NEW i \in Nat, NEW m, NEW eb, NEW x, InPlace(c, r, m, eb, x, i)
    PROVE  InPlace(d, r, m, eb, x, i)
<1> DEFINE a == r + i - 1
<1>1. a \in Int /\ c.base \in Int /\ d.base \in Int
  BY CpuParts
<1>2. a \in DOMAIN c.word /\ c.base <= a /\ a < KernelTop - 7 /\ IsIn(m, eb, c.word[a], x)
  BY DEF InPlace
<1> HIDE DEF a
<1>3. a \in DOMAIN d.word /\ d.base <= a /\ a < KernelTop - 7 /\ IsIn(m, eb, d.word[a], x)
  BY <1>1, <1>2
<1> QED
  BY <1>3 DEF InPlace, a

\* The plan and the program's stack are the input's and the binary's.
LEMMA PlanUnchanged ==
    ASSUME UNCHANGED <<input, auxv, prog>>
    PROVE  Plan' = Plan /\ NewProgram' = NewProgram
BY DEF Plan, Vector, push_auxv, push_env, push_argv, push_argc, fix_auxv_dynamic_values, NewProgram, Wanted

LEMMA StackInitially == Init => StackInv
BY DEF Init, StackInit, LoaderInit, StackInv, Guest

LEMMA StackLoad ==
    ASSUME StackInv, phase = "start", Load, UNCHANGED <<phase, stackvars, envvars>>
    PROVE  StackInv'
<1>1. /\ phase' = "start" /\ cpu' = cpu /\ step \in Loading
      /\ step' \in {"check", "parse", "loaded", "aborted", "terminated"}
  <2>1. phase' = "start" /\ cpu' = cpu
    BY DEF stackvars
  <2>2. CASE check_elf
    BY <2>1, <2>2 DEF check_elf, Loading
  <2>3. CASE parse_program
    BY <2>1, <2>3 DEF parse_program, load_phdr, Loading
  <2>4. CASE Loaded
    BY <2>1, <2>4 DEF Loaded, Loading
  <2> QED
    BY <2>2, <2>3, <2>4 DEF Load
<1> QED
  BY <1>1 DEF StackInv, Guest, Loading

LEMMA StackEnvironment ==
    ASSUME LoadInv, StackInv, phase = "start", CreateEnvironment
    PROVE  StackInv'
<1>1. /\ step = "loaded" /\ phase' = "start" /\ cpu' = NewStack
      /\ envBase' = top /\ offset' = EnvPages * P /\ UNCHANGED <<input, auxv, prog, mem>>
      /\ \/ step' = "aborted"
         \/ step' = "environment" /\ todo' = Plan
  BY DEF CreateEnvironment, Plan, Vector, StackInv, Loading, stackvars
<1>2. CASE step' = "aborted"
  BY <1>1, <1>2 DEF StackInv, Guest, Loading
<1>3. CASE step' = "environment" /\ todo' = Plan
  <2>1. Plan' = Plan
    BY <1>1, PlanUnchanged
  <2>2. Plan \in Seq(Items) /\ top \in Nat /\ Blank(mem, top)
    <3>1. AuxTypes /\ AuxComplete /\ IsInput(input) /\ top \in Nat /\ Blank(mem, top)
      BY <1>1 DEF LoadInv, AuxInv, LoadTypes, Good, Loading
    <3> QED
      BY <3>1, PlanReversed
  <2>3. EnvPages * P \in Nat
    BY LoaderConstants, StartupConstants
  <2>4. Stacked(NewStack, mem, top, EnvPages * P, Plan, Plan, 0)
    BY <2>2, <2>3, StackedFirst
  <2>5. Len(Plan) - Len(Plan) = 0
    BY <2>2
  <2>6. Stacked(cpu', mem', envBase', offset', todo', Plan', Len(Plan') - Len(todo'))
    BY <1>1, <1>3, <2>1, <2>4, <2>5
  <2> QED
    BY <1>1, <1>3, <2>6 DEF StackInv, Guest, Loading
<1> QED
  BY <1>1, <1>2, <1>3

LEMMA StackPush ==
    ASSUME LoadInv, StackInv, phase = "start", Push
    PROVE  StackInv'
<1>1. /\ step = "environment" /\ step' \in {"environment", "aborted", "crashed"}
      /\ todo \in Seq(Items) /\ todo # <<>> /\ todo' = Tail(todo) /\ Head(todo) \in Items
      /\ offset \in Nat /\ envBase \in Nat
  BY PushWrites
<1>2. phase' = "start" /\ UNCHANGED <<input, auxv, prog, envBase>>
  BY DEF Push
<1>3. CASE step' # "environment"
  BY <1>1, <1>2, <1>3 DEF StackInv, Guest, Loading
<1>4. CASE step' = "environment"
  <2> DEFINE k == Len(Plan) - Len(todo)
             x == Head(todo)
  <2>1. Stacked(cpu, mem, envBase, offset, todo, Plan, k)
    BY <1>1 DEF StackInv
  <2>2. Plan' = Plan
    BY <1>2, PlanUnchanged
  <2>3. Plan \in Seq(Items)
    <3>1. AuxTypes /\ AuxComplete /\ IsInput(input)
      BY <1>1 DEF LoadInv, AuxInv, Good
    <3> QED
      BY <3>1, PlanReversed
  <2>4. \A a \in Nat : envBase <= a /\ a < envBase + offset => ByteOf(mem, a) \in Unused
    BY <2>1 DEF Stacked
  <2>5. PICK w : /\ Pushed(w) /\ x.kind # "wild"
                 /\ \/ x.kind = "num" /\ w = Num(x.val) /\ mem' = mem /\ offset' = offset
                    \/ x.kind = "type" /\ w = <<"type", x.val>> /\ mem' = mem /\ offset' = offset
                    \/ x.kind = "str" /\ w = <<"ptr", offset'>>
    BY <1>1, <1>4 DEF Push
  <2>6. cpu' = push(cpu, w) /\ ~cpu'.aborted
    BY <1>4, <2>5 DEF Pushed
  <2>7. /\ offset' \in Nat
        /\ IsIn(mem', envBase, w, x) /\ Above(w, x, offset')
        /\ \A v : \A y \in Items : IsIn(mem, envBase, v, y) /\ Above(v, y, offset) =>
                                       IsIn(mem', envBase, v, y) /\ Above(v, y, offset')
        /\ \A a \in Nat : envBase <= a /\ a < envBase + offset' => ByteOf(mem', a) \in Unused
    <3>1. CASE x.kind = "str"
      <4>1. CASE mem' = mem /\ offset' = offset
        <5>1. x.val \in Str /\ x.val.len \in Nat
          BY <1>1, <3>1 DEF Items, Str
        <5>2. offset' = offset - x.val.len - 1
          BY <1>1, <1>4, <3>1 DEF Push, write_str
        <5>3. \A o, l \in Nat : o # o - l - 1
          OBVIOUS
        <5> QED
          BY <1>1, <4>1, <5>1, <5>2, <5>3
      <4>2. CASE /\ x.val.len \in Nat
                 /\ offset' = offset - x.val.len - 1 /\ offset' \in Nat
                 /\ \A a \in Nat : ByteOf(mem', a) =
                        IF envBase + offset' <= a /\ a < envBase + offset' + x.val.len
                        THEN <<x.val.name, a - envBase - offset' + 1>>
                        ELSE ByteOf(mem, a)
        <5>1. w = <<"ptr", offset'>>
          BY <2>5, <3>1
        <5> HIDE DEF x
        <5>2. x \in Items
          BY <1>1 DEF x
        <5>3. WithString(mem, mem', envBase, offset', x) /\ Blanks(mem, envBase, offset)
          BY <2>4, <4>2 DEF WithString, Blanks
        <5>4. /\ IsIn(mem', envBase, w, x) /\ Above(w, x, offset')
              /\ Blanks(mem', envBase, offset') /\ Keeps(mem, mem', envBase, offset, offset')
          <6>1. offset' \in Nat /\ offset' = offset - x.val.len - 1 /\ x.val.len \in Nat
            BY <4>2
          <6> QED
            BY ONLY <1>1, <3>1, <5>1, <5>2, <5>3, <6>1, StringWritten
        <5> QED
          BY <4>2, <5>1, <5>4 DEF Blanks, Keeps
      <4> QED
        BY <4>1, <4>2, PushWrites
    <3>2. CASE x.kind # "str"
      <4>1. mem' = mem /\ offset' = offset
        BY <2>5, <3>2
      <4>2. IsIn(mem, envBase, w, x) /\ Above(w, x, offset)
        BY <2>5, <3>2 DEF IsIn, Above
      <4> QED
        BY <1>1, <2>4, <4>1, <4>2
    <3> QED
      BY <3>1, <3>2
  <2>8. Stacked(cpu', mem', envBase, offset', Tail(todo), Plan, k + 1)
    <3> HIDE DEF k
    <3> QED
      BY <1>1, <2>1, <2>3, <2>5, <2>6, <2>7, StackedPush
  <2>9. k + 1 = Len(Plan) - Len(todo')
    BY <1>1, <2>3, HeadTailProperties
  <2>10. Stacked(cpu', mem', envBase', offset', todo', Plan', Len(Plan') - Len(todo'))
    <3> HIDE DEF k
    <3> QED
      BY <1>1, <1>2, <2>2, <2>8, <2>9
  <2> QED
    BY <1>2, <1>4, <2>10 DEF StackInv, Guest, Loading
<1> QED
  BY <1>3, <1>4

LEMMA StackSetup ==
    ASSUME LoadInv, StackInv, phase = "start", setup_proxy_os,
           phase' = IF step' = "ready" THEN "run" ELSE phase, UNCHANGED <<stackvars, envvars>>
    PROVE  StackInv'
<1>1. /\ step = "setup" /\ step' \in {"aborted", "ready"}
      /\ UNCHANGED <<cpu, userRsp, input, auxv, prog, mem, envBase>>
  BY DEF setup_proxy_os, stackvars, envvars
<1>2. CASE step' = "aborted"
  BY <1>1, <1>2 DEF StackInv, Guest, Loading
<1>3. CASE step' = "ready"
  <2>1. phase' = "run"
    BY <1>3
  <2>2. NewProgram' = NewProgram
    BY <1>1, PlanUnchanged
  <2>3. AuxTypes /\ AuxComplete /\ IsInput(input)
    BY <1>1 DEF LoadInv, AuxInv, Good
  <2>4. Stacked(cpu, mem, envBase, offset, <<>>, Plan, Len(Plan) - Len(<<>>))
    BY <1>1 DEF StackInv
  <2>5. /\ IsCpu(cpu)
        /\ \A i \in DOMAIN NewProgram :
               i \in Nat /\ InPlace(cpu, cpu.rsp, mem, envBase, NewProgram[i], i)
    BY <2>3, <2>4, StackedDone
  <2>6. cpu.rsp \in Int
    BY <2>5, CpuParts
  <2>7. UserRsp' = cpu.rsp
    BY <1>1, <2>1 DEF UserRsp
  <2> QED
    BY <1>1, <1>3, <2>1, <2>2, <2>5, <2>6, <2>7 DEF StackInv, Guest, Loading
<1> QED
  BY <1>1, <1>2, <1>3

\* A step of the guest or of the monitor leaves the program's words alone, if it
\* leaves the words from the base to the kernel's stack alone.
LEMMA StackKept ==
    ASSUME StackInv, phase \in Guest, UNCHANGED <<loadvars, envvars>>, phase' # "start",
           phase' \in Guest => /\ IsCpu(cpu') /\ UserRsp' = UserRsp
                               /\ phase' = "interrupt" => cpu'.rsp >= KernelTop - 7
                               /\ cpu'.base <= cpu.base
                               /\ \A a \in DOMAIN cpu.word : cpu.base <= a /\ a < KernelTop - 7 =>
                                      a \in DOMAIN cpu'.word /\ cpu'.word[a] = cpu.word[a]
    PROVE  StackInv'
<1>1. step = "ready" /\ UNCHANGED <<step, mem, auxv, prog, input, envBase>>
  BY DEF StackInv, Guest, loadvars, envvars
<1>2. CASE phase' \notin Guest
  BY <1>1, <1>2 DEF StackInv, Loading
<1>3. CASE phase' \in Guest
  <2>1. NewProgram' = NewProgram
    BY <1>1, PlanUnchanged
  <2>2. /\ IsCpu(cpu) /\ UserRsp \in Int
        /\ \A i \in DOMAIN NewProgram :
               i \in Nat /\ InPlace(cpu, UserRsp, mem, envBase, NewProgram[i], i)
    BY DEF StackInv
  <2>3. IsCpu(cpu') /\ UserRsp' = UserRsp /\ (phase' = "interrupt" => cpu'.rsp >= KernelTop - 7)
    BY <1>3
  <2>4. ASSUME NEW i \in DOMAIN NewProgram
        PROVE  i \in Nat /\ InPlace(cpu', UserRsp, mem, envBase, NewProgram[i], i)
    BY <1>3, <2>2, <2>3, InPlaceKept
  <2> QED
    BY <1>1, <1>3, <2>1, <2>2, <2>3, <2>4 DEF StackInv, Loading
<1> QED
  BY <1>2, <1>3

LEMMA FrameLength == ASSUME NEW v PROVE Len(Frame(v)) \in {6, 7}
BY DEF Frame

LEMMA StackInterrupt ==
    ASSUME StackInv, phase = "run", NEW v, Interrupt(v), UNCHANGED <<loadvars, envvars>>
    PROVE  StackInv'
<1> DEFINE f == Frame(v)
           low == KernelTop - Len(f)
           w == [a \in DOMAIN cpu.word |-> IF a >= low THEN f[a - low + 1] ELSE cpu.word[a]]
<1>1. cpu' = SetFrame(cpu, low, w) /\ userRsp' = cpu.rsp /\ phase' = "interrupt"
  BY DEF Interrupt, SetFrame
<1>2. IsCpu(cpu)
  BY DEF StackInv, Guest
<1>3. low \in Int /\ low >= KernelTop - 7
  <2>1. Len(f) \in {6, 7}
    BY FrameLength
  <2>2. KernelTop \in Nat
    BY StackConstants
  <2>3. \A t \in Nat, l \in {6, 7} : t - l \in Int /\ t - l >= t - 7
    OBVIOUS
  <2> HIDE DEF f
  <2> QED
    BY <2>1, <2>2, <2>3
<1>4. IsFcn(w) /\ DOMAIN w = DOMAIN cpu.word
  BY DEF IsFcn
<1>5. DOMAIN cpu.word \subseteq Int /\ cpu.base \in Int
  BY <1>2, CpuParts
<1> HIDE DEF f, low
<1>6. \A a \in DOMAIN cpu.word : a < KernelTop - 7 => w[a] = cpu.word[a]
  BY <1>3, <1>5, StackConstants
<1> HIDE DEF w
<1>7. IsCpu(cpu') /\ cpu'.base = cpu.base /\ cpu'.rsp = low /\ cpu'.word = w
  BY <1>1, <1>2, <1>3, <1>4, <1>5, WithFrame
<1>8. UserRsp' = UserRsp
  BY <1>1 DEF UserRsp
<1>9. phase \in Guest /\ phase' # "start"
  BY <1>1 DEF Guest
<1> QED
  BY <1>1, <1>3, <1>4, <1>5, <1>6, <1>7, <1>8, <1>9, StackKept

LEMMA StackGuest ==
    ASSUME StackInv, GuestRuns, UNCHANGED <<loadvars, envvars>>
    PROVE  StackInv'
<1>1. CASE \E a \in Touches : Touch(a)
  <2>1. PICK a \in Touches : Touch(a)
    BY <1>1
  <2>2. phase = "run" /\ (UNCHANGED <<phase, cpu, userRsp>> \/ Interrupt("page_fault"))
    BY <2>1 DEF Touch
  <2>3. CASE UNCHANGED <<phase, cpu, userRsp>>
    <3>1. IsCpu(cpu') /\ cpu'.base <= cpu.base
      <4>1. IsCpu(cpu)
        BY <2>2 DEF StackInv, Guest
      <4> QED
        BY <2>3, <4>1, CpuParts
    <3>2. UserRsp' = UserRsp
      BY <2>3 DEF UserRsp
    <3> QED
      BY <2>2, <2>3, <3>1, <3>2, StackKept DEF Guest
  <2> QED
    BY <2>2, <2>3, StackInterrupt
<1>2. CASE \E v \in Vectors \ {"page_fault"} : Trap(v)
  BY <1>2, StackInterrupt DEF Trap
<1>3. CASE \E a \in Mappable : MapPage(a)
  <2>1. PICK a \in Mappable : MapPage(a)
    BY <1>3
  <2> DEFINE w == [b \in DOMAIN cpu.word \cup Page(a) |->
                     IF b \in Page(a) THEN <<"guest">> ELSE cpu.word[b]]
  <2>2. phase = "run" /\ phase' = "run" /\ \A b \in Page(a) : b \notin DOMAIN cpu.word
    BY <2>1 DEF MapPage, Mapped
  <2>3. cpu' = SetOnlyWord(cpu, w)
    BY <2>1 DEF MapPage, SetOnlyWord
  <2>4. IsCpu(cpu) /\ DOMAIN cpu.word \subseteq Int /\ cpu.base \in Int
    <3>1. IsCpu(cpu)
      BY <2>2 DEF StackInv, Guest
    <3> QED
      BY <3>1, CpuParts
  <2>5. Page(a) \subseteq Int
    BY StackConstants DEF Page
  <2>6. IsFcn(w) /\ DOMAIN w \subseteq Int
    BY <2>4, <2>5 DEF IsFcn
  <2>7. \A b \in DOMAIN cpu.word : b \in DOMAIN w /\ w[b] = cpu.word[b]
    BY <2>2
  <2> HIDE DEF w
  <2>8. IsCpu(cpu') /\ cpu'.base = cpu.base /\ cpu'.rsp = cpu.rsp /\ cpu'.word = w
    BY <2>3, <2>4, <2>6, WithOnlyWord
  <2>9. UserRsp' = UserRsp
    BY <2>2, <2>8 DEF UserRsp
  <2> QED
    BY <2>2, <2>4, <2>7, <2>8, <2>9, StackKept DEF Guest
<1> QED
  BY <1>1, <1>2, <1>3 DEF GuestRuns

LEMMA StackServed ==
    ASSUME StackInv, Served, UNCHANGED <<loadvars, envvars>>
    PROVE  StackInv'
<1>0. phase \in {"interrupt", "iret"} /\ userRsp' = userRsp
  BY DEF Served, handle_interrupt, Iret
<1>1. IsCpu(cpu) /\ UserRsp = userRsp /\ userRsp \in Int /\ phase \in Guest
  BY <1>0 DEF StackInv, Guest, UserRsp
<1>2. cpu.base \in Int /\ DOMAIN cpu.word \subseteq Int /\ cpu.rsp \in Int /\ KernelTop \in Int
  BY <1>1, CpuParts, StackConstants
<1>3. CASE Iret
  <2>1. phase' \in {"run", "lost"} /\ cpu' = SetRsp(cpu, userRsp)
    BY <1>3 DEF Iret, SetRsp
  <2>2. IsCpu(cpu') /\ cpu'.base = cpu.base /\ cpu'.rsp = userRsp /\ cpu'.word = cpu.word
    BY <1>1, <2>1, WithRsp
  <2>3. phase' \in Guest => phase' = "run" /\ UserRsp' = UserRsp
    BY <1>1, <2>1, <2>2 DEF Guest, UserRsp
  <2> QED
    BY <1>1, <1>2, <2>1, <2>2, <2>3, StackKept
<1>4. CASE handle_interrupt
  <2> DEFINE b == pop(cpu)
             c == pop(b)
  <2>1. cpu.rsp >= KernelTop - 7
    BY <1>4 DEF handle_interrupt, StackInv, Guest
  <2>2. IsCpu(b) /\ b.base = cpu.base /\ b.word = cpu.word /\ (~b.aborted => b.rsp = cpu.rsp + 1)
    BY <1>1, PopFacts
  <2>3. IsCpu(c) /\ c.base = cpu.base /\ c.word = cpu.word /\ (~c.aborted => c.rsp = cpu.rsp + 2)
    <3> HIDE DEF b
    <3>1. /\ IsCpu(c) /\ c.base = b.base /\ c.word = b.word /\ (~c.aborted => c.rsp = b.rsp + 1)
          /\ (b.aborted => c.aborted)
      BY <2>2, PopFacts
    <3> QED
      BY <1>2, <2>2, <3>1
  <2>4. /\ phase' # "start" /\ phase' # "interrupt" /\ phase' # "run"
        /\ phase' \in Guest => \/ \E v : cpu' = push(c, v) /\ ~cpu'.aborted
                               \/ cpu' = expand(c) /\ ~cpu'.aborted
    <3> HIDE DEF c
    <3>1. \/ \E v : handle_debug_trap(c, v)
          \/ handle_page_fault(c)
          \/ cpu' = c /\ phase' = "stopped"
      BY <1>4 DEF handle_interrupt, c
    <3>2. CASE \E v : handle_debug_trap(c, v)
      BY <3>2 DEF handle_debug_trap, GoesOn, Guest
    <3>3. CASE handle_page_fault(c)
      BY <3>3 DEF handle_page_fault, GoesOn, Guest
    <3> QED
      BY <3>1, <3>2, <3>3 DEF Guest
  <2> HIDE DEF b, c
  <2>5. ASSUME phase' \in Guest
        PROVE  /\ IsCpu(cpu') /\ cpu'.base <= cpu.base
               /\ \A a \in DOMAIN cpu.word : cpu.base <= a /\ a < KernelTop - 7 =>
                      a \in DOMAIN cpu'.word /\ cpu'.word[a] = cpu.word[a]
    <3>1. CASE \E v : cpu' = push(c, v) /\ ~cpu'.aborted
      <4>1. PICK v : cpu' = push(c, v) /\ ~cpu'.aborted
        BY <3>1
      <4>2. /\ IsCpu(cpu') /\ cpu'.base <= c.base /\ ~c.aborted
            /\ \A a \in DOMAIN c.word : a >= c.base /\ a # c.rsp - 1 =>
                   a \in DOMAIN cpu'.word /\ cpu'.word[a] = c.word[a]
        BY <2>3, <4>1, PushFacts
      <4>3. c.rsp - 1 >= KernelTop - 7 /\ c.rsp - 1 \in Int
        BY <1>2, <2>1, <2>3, <4>2
      <4>4. \A a \in DOMAIN cpu.word : cpu.base <= a /\ a < KernelTop - 7 => a >= cpu.base /\ a # c.rsp - 1
        BY <1>2, <4>3
      <4> QED
        BY <2>3, <4>2, <4>4
    <3>2. CASE cpu' = expand(c) /\ ~cpu'.aborted
      <4>1. c.memory # 0
        <5>1. ASSUME c.memory = 0 PROVE FALSE
          <6>1. cpu' = [c EXCEPT !.aborted = TRUE]
            BY <3>2, <5>1 DEF expand
          <6> QED
            BY <2>3, <3>2, <6>1, Aborted
        <5> QED
          BY <5>1
      <4>2. /\ IsCpu(cpu') /\ cpu'.base = c.base - Grow
            /\ \A a \in DOMAIN c.word :
                   a \in DOMAIN cpu'.word /\ (a >= c.base => cpu'.word[a] = c.word[a])
        BY <2>3, <3>2, <4>1, ExpandFacts
      <4>3. cpu'.base <= cpu.base
        BY <1>2, <2>3, <4>2, StackConstants
      <4>4. \A a \in DOMAIN cpu.word : cpu.base <= a => a >= cpu.base
        BY <1>2
      <4> QED
        BY <2>3, <4>2, <4>3, <4>4
    <3> QED
      BY <2>4, <2>5, <3>1, <3>2
  <2>6. phase' \in Guest => UserRsp' = UserRsp
    BY <1>0, <1>1, <2>4 DEF UserRsp
  <2> QED
    BY <1>1, <2>4, <2>5, <2>6, StackKept
<1> QED
  BY <1>3, <1>4 DEF Served

LEMMA StackNext == LoadInv /\ StackInv /\ [Next]_startvars => StackInv'
<1> SUFFICES ASSUME LoadInv, StackInv, [Next]_startvars PROVE StackInv'
  OBVIOUS
<1>1. CASE Setup
  <2>1. phase = "start"
    BY <1>1 DEF Setup
  <2>2. CASE Load /\ UNCHANGED <<phase, stackvars, envvars>>
    BY <2>1, <2>2, StackLoad
  <2>3. CASE CreateEnvironment
    BY <2>1, <2>3, StackEnvironment
  <2>4. CASE Push
    BY <2>1, <2>4, StackPush
  <2>5. CASE Created
    <3>1. /\ step = "environment" /\ step' = "setup" /\ todo = <<>>
          /\ UNCHANGED <<phase, cpu, mem, envBase, offset, todo, input, auxv, prog>>
      BY <2>5 DEF Created, stackvars, envvars
    <3>2. Plan' = Plan
      BY <3>1, PlanUnchanged
    <3>3. Stacked(cpu, mem, envBase, offset, todo, Plan, Len(Plan) - Len(todo))
      BY <3>1 DEF StackInv
    <3>4. Stacked(cpu', mem', envBase', offset', todo', Plan', Len(Plan') - Len(todo'))
      BY <3>1, <3>2, <3>3
    <3> QED
      BY <2>1, <3>1, <3>4 DEF StackInv, Guest, Loading
  <2>6. CASE /\ setup_proxy_os
             /\ phase' = IF step' = "ready" THEN "run" ELSE phase
             /\ UNCHANGED <<stackvars, envvars>>
    BY <2>1, <2>6, StackSetup
  <2> QED
    BY <1>1, <2>2, <2>3, <2>4, <2>5, <2>6 DEF Setup
<1>2. CASE GuestRuns /\ UNCHANGED <<loadvars, envvars>>
  BY <1>2, StackGuest
<1>3. CASE Served /\ UNCHANGED <<loadvars, envvars>>
  BY <1>3, StackServed
<1>4. CASE UNCHANGED startvars
  <2>1. UNCHANGED <<phase, cpu, userRsp, step, mem, envBase, offset, todo, input, auxv, prog>>
    BY <1>4 DEF startvars, stackvars, loadvars, envvars
  <2>2. Plan' = Plan /\ NewProgram' = NewProgram
    BY <2>1, PlanUnchanged
  <2>3. UserRsp' = UserRsp
    BY <2>1 DEF UserRsp
  <2> QED
    BY <2>1, <2>2, <2>3 DEF StackInv
<1> QED
  BY <1>1, <1>2, <1>3, <1>4 DEF Next

\* The guest runs with the stack of a new program as far as Environment writes it,
\* for every input, program and size of the stack's parts: the vectors are pushed
\* in the right order, with the values that the headers of a dynamically linked
\* program say, EnvRegion::write_str keeps every string whole and leaves a byte
\* behind it alone, and neither Stack::expand nor an interrupt of the guest
\* overwrites any of it.  That the bytes and the word which are left alone are
\* null is not claimed: posix_memalign does not promise it.
THEOREM InitialStackTheorem == Spec => []InitialStack
<1>1. StackInv => InitialStack
  <2> SUFFICES ASSUME StackInv, phase = "run", NEW i \in DOMAIN NewProgram
               PROVE  Mapped(cpu, cpu.rsp + i - 1) /\ Is(cpu.word[cpu.rsp + i - 1], NewProgram[i])
    BY DEF InitialStack
  <2>1. InPlace(cpu, cpu.rsp, mem, envBase, NewProgram[i], i)
    BY DEF StackInv, Guest, UserRsp
  <2> DEFINE x == NewProgram[i]
             w == cpu.word[cpu.rsp + i - 1]
  <2>2. cpu.rsp + i - 1 \in DOMAIN cpu.word /\ IsIn(mem, envBase, w, x)
    BY <2>1 DEF InPlace
  <2> HIDE DEF x, w
  <2>3. Is(w, x)
    BY <2>2 DEF Is, IsIn, Byte, ByteOf
  <2> QED
    BY <2>2, <2>3 DEF Mapped, x, w
<1> QED
  BY <1>1, LoadInit, LoadNext, StackInitially, StackNext, PTL DEF Spec
===============================================================================
