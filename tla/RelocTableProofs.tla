--------------------------- MODULE RelocTableProofs ----------------------------
(***************************************************************************)
(* The linker reads the relocations that the assembler wrote, for every    *)
(* program whose relocated statements come in the order of their places,   *)
(* every number of statements and of relocations in one of them, the first *)
(* byte of the segment included, and every size of byte.  That the relocations of such a      *)
(* program lie in rising order is what makes the distances fit; that the   *)
(* reader is in step with the writer is shown by the places in the file at *)
(* which the writer began a skip or an entry.                              *)
(***************************************************************************)
EXTENDS RelocTable, Sums, WellFoundedInduction, TLAPS

\* A set of numbers has a least one: the induction of the proofs below.
LEMMA FirstIn ==
  ASSUME NEW S, S \subseteq Nat, S # {}
  PROVE  \E i \in S : \A j \in S : i <= j
<1> DEFINE R == {p \in Nat \X Nat : p[1] < p[2]}
<1>1. IsWellFoundedOn(R, Nat)
  BY NatLessThanWellFounded DEF OpToRel
<1>2. \A i, j \in Nat : <<j, i>> \in R <=> j < i
  OBVIOUS
<1> HIDE DEF R
<1>3. \E i \in S : \A j \in S : ~(<<j, i>> \in R)
  BY <1>1, WFMin
<1>4. \A i, j \in S : ~(<<j, i>> \in R) => i <= j
  BY <1>2
<1> QED BY <1>3, <1>4

-----------------------------------------------------------------------------
\* The sum of a list of numbers, which Sums computes from the left
IsTotals(t, f, m) == t = [k \in 0 .. m |-> IF k = 0 THEN 0 ELSE t[k - 1] + f[k]]

LEMMA TotalsExist ==
  ASSUME NEW f, NEW m \in Nat
  PROVE  \E t : IsTotals(t, f, m)
<1> DEFINE Bad == {n \in Nat : ~ \E t : IsTotals(t, f, n)}
<1>1. SUFFICES ASSUME Bad # {} PROVE FALSE
  OBVIOUS
<1>2. PICK n \in Bad : \A k \in Bad : n <= k
  <2> HIDE DEF Bad
  <2>1. Bad \subseteq Nat
    BY DEF Bad
  <2> QED BY <1>1, <2>1, FirstIn
<1>3. n # 0
  <2>1. IsTotals([k \in 0 .. 0 |-> 0], f, 0)
    BY DEF IsTotals
  <2> QED BY <2>1
<1>4. PICK t : IsTotals(t, f, n - 1)
  <2>1. n - 1 \in Nat /\ ~(n <= n - 1)
    BY <1>3
  <2> QED BY <1>2, <2>1
<1> DEFINE entry(g, k) == IF k = 0 THEN 0 ELSE g[k - 1] + f[k]
           more == [k \in 0 .. n |-> IF k < n THEN t[k] ELSE entry(t, n)]
<1>5. \A k \in 0 .. n - 1 : t[k] = entry(t, k)
  BY <1>4 DEF IsTotals
<1>6. \A k \in 0 .. n : more[k] = entry(more, k)
  <2> TAKE k \in 0 .. n
  <2>1. k # 0 => more[k - 1] = t[k - 1]
    <3> HIDE DEF entry
    <3> QED OBVIOUS
  <2>2. entry(more, k) = entry(t, k)
    <3> HIDE DEF more
    <3> QED BY <2>1
  <2>3. more[k] = entry(t, k)
    <3> HIDE DEF entry
    <3> QED BY <1>5
  <2> QED BY <2>2, <2>3
<1>7. IsTotals(more, f, n)
  <2>1. more = [k \in 0 .. n |-> more[k]]
    OBVIOUS
  <2>2. [k \in 0 .. n |-> entry(more, k)] = [k \in 0 .. n |-> more[k]]
    <3> HIDE DEF more, entry
    <3> QED BY <1>6
  <2> HIDE DEF more
  <2> QED BY <2>1, <2>2 DEF IsTotals
<1> QED BY <1>7

LEMMA TotalsLaw ==
  ASSUME NEW f, NEW n \in Nat
  PROVE  /\ Totals(f, n)[0] = 0
         /\ \A k \in 1 .. n : Totals(f, n)[k] = Totals(f, n)[k - 1] + f[k]
<1> DEFINE t == CHOOSE g : IsTotals(g, f, n)
<1>1. IsTotals(t, f, n)
  <2>1. \E g : IsTotals(g, f, n)
    BY TotalsExist
  <2> QED BY <2>1
<1>2. Totals(f, n) = t
  BY DEF Totals, IsTotals
<1> HIDE DEF t
<1> QED BY <1>1, <1>2 DEF IsTotals

\* The sum of two lists is no more than that of a third that is no less anywhere.
LEMMA TotalsAdd ==
  ASSUME NEW n \in Nat, NEW f \in [1 .. n -> Nat], NEW g \in [1 .. n -> Nat],
         NEW h \in [1 .. n -> Nat], \A k \in 1 .. n : f[k] + g[k] <= h[k]
  PROVE  /\ Total(f, n) \in Nat /\ Total(g, n) \in Nat /\ Total(h, n) \in Nat
         /\ Total(f, n) + Total(g, n) <= Total(h, n)
<1> DEFINE F(k) == Totals(f, n)[k]
           G(k) == Totals(g, n)[k]
           H(k) == Totals(h, n)[k]
           Good(k) == F(k) \in Nat /\ G(k) \in Nat /\ H(k) \in Nat /\ F(k) + G(k) <= H(k)
           Bad == {k \in 0 .. n : ~Good(k)}
<1>1. /\ F(0) = 0 /\ G(0) = 0 /\ H(0) = 0
      /\ \A k \in 1 .. n : /\ F(k) = F(k - 1) + f[k] /\ G(k) = G(k - 1) + g[k]
                           /\ H(k) = H(k - 1) + h[k]
  BY TotalsLaw
<1> HIDE DEF F, G, H
<1>2. Bad = {}
  <2> SUFFICES ASSUME Bad # {} PROVE FALSE
    OBVIOUS
  <2>1. PICK k \in Bad : \A j \in Bad : k <= j
    <3> HIDE DEF Good
    <3>1. Bad \subseteq Nat
      OBVIOUS
    <3> HIDE DEF Bad
    <3> QED BY <3>1, FirstIn
  <2>2. k \in 1 .. n
    BY <1>1
  <2>3. Good(k - 1)
    <3> HIDE DEF Good
    <3> QED BY <2>1, <2>2
  <2>4. f[k] \in Nat /\ g[k] \in Nat /\ h[k] \in Nat /\ f[k] + g[k] <= h[k]
    BY <2>2
  <2>5. /\ F(k) = F(k - 1) + f[k] /\ G(k) = G(k - 1) + g[k] /\ H(k) = H(k - 1) + h[k]
    BY <1>1, <2>2
  <2>6. \A a, b, c, u, v, w \in Nat :
          a + b <= c /\ u + v <= w => (a + u) + (b + v) <= c + w
    OBVIOUS
  <2>7. (F(k - 1) + f[k]) + (G(k - 1) + g[k]) <= H(k - 1) + h[k]
    BY <2>3, <2>4, <2>6
  <2>8. F(k) \in Nat /\ G(k) \in Nat /\ H(k) \in Nat
    <3>1. \A a, b \in Nat : a + b \in Nat
      OBVIOUS
    <3> QED BY <2>3, <2>4, <2>5, <3>1, Zenon
  <2>9. F(k) + G(k) <= H(k)
    <3> HIDE DEF Good
    <3> QED BY <2>5, <2>7, Zenon
  <2> QED BY <2>8, <2>9
<1>3. n \in 0 .. n
  OBVIOUS
<1>4. Good(n)
  <2> HIDE DEF Good
  <2> QED BY <1>2, <1>3
<1> QED BY <1>4 DEF Total, F, G, H

\* Each of the numbers is part of the sum.
LEMMA TotalHas ==
  ASSUME NEW n \in Nat, NEW f \in [1 .. n -> Nat], NEW i \in 1 .. n
  PROVE  Total(f, n) \in Nat /\ f[i] <= Total(f, n)
<1> DEFINE F(k) == Totals(f, n)[k]
           Good(k) == F(k) \in Nat /\ (i <= k => f[i] <= F(k))
           Bad == {k \in 0 .. n : ~Good(k)}
<1>1. F(0) = 0 /\ \A k \in 1 .. n : F(k) = F(k - 1) + f[k]
  BY TotalsLaw
<1> HIDE DEF F
<1>2. Bad = {}
  <2> SUFFICES ASSUME Bad # {} PROVE FALSE
    OBVIOUS
  <2>1. PICK k \in Bad : \A j \in Bad : k <= j
    <3> HIDE DEF Good
    <3>1. Bad \subseteq Nat
      OBVIOUS
    <3> HIDE DEF Bad
    <3> QED BY <3>1, FirstIn
  <2>2. k \in 1 .. n
    BY <1>1
  <2>3. Good(k - 1)
    <3> HIDE DEF Good
    <3> QED BY <2>1, <2>2
  <2>4. f[k] \in Nat /\ f[i] \in Nat /\ F(k) = F(k - 1) + f[k]
    BY <1>1, <2>2
  <2>5. i <= k => i <= k - 1 \/ i = k
    BY <2>2
  <2>6. Good(k)
    BY <2>3, <2>4, <2>5
  <2> QED BY <2>6
<1>3. Good(n)
  <2>1. n \in 0 .. n
    OBVIOUS
  <2> HIDE DEF Good
  <2> QED BY <1>2, <2>1
<1> QED BY <1>3 DEF Total, F

RelocKinds == {"word", "half", "import"}

LEMMA ProgramShape ==
  ASSUME prog \in Programs
  PROVE  /\ prog \in Seq(Statements) /\ Len(prog) \in Nat /\ DOMAIN prog = 1 .. Len(prog)
         /\ \A n \in DOMAIN prog : prog[n] \in Statements /\ prog[n].size \in Nat
<1>1. prog \in Seq(Statements)
  BY ProgramsAssumption
<1>2. /\ Len(prog) \in Nat /\ DOMAIN prog = 1 .. Len(prog)
      /\ \A n \in DOMAIN prog : prog[n] \in Statements
  BY <1>1
<1>3. \A st \in Statements : st.size \in Nat
  BY DEF Statements
<1> QED BY <1>1, <1>2, <1>3

\* The sites of a statement.
LEMMA SitesShape ==
  ASSUME prog \in Programs, NEW n \in DOMAIN prog, NEW s, s = prog[n].sites
  PROVE  /\ s \in Seq(Sites) /\ Len(s) \in Nat /\ DOMAIN s = 1 .. Len(s)
         /\ \A k \in 1 .. Len(s) :
              /\ s[k].at \in Nat /\ s[k].kind \in RelocKinds /\ s[k].at < prog[n].size
              /\ \A j \in 1 .. Len(s) : j < k => s[j].at < s[k].at
<1>1. \A st \in Statements : st.sites \in Seq(Sites)
  BY DEF Statements
<1>2. s \in Seq(Sites)
  BY <1>1, ProgramShape
<1>3. Len(s) \in Nat /\ DOMAIN s = 1 .. Len(s) /\ \A k \in 1 .. Len(s) : s[k] \in Sites
  BY <1>2
<1>4. \A x \in Sites : x.at \in Nat /\ x.kind \in RelocKinds
  BY DEF Sites, RelocKinds
<1>5. \A k \in DOMAIN s : /\ s[k].at < prog[n].size
                          /\ \A j \in DOMAIN s : j < k => s[j].at < s[k].at
  BY ProgramsAssumption
<1> QED BY <1>2, <1>3, <1>4, <1>5

-----------------------------------------------------------------------------
(* Offsets *)

SizesIn(S) == [n \in DOMAIN prog |-> IF n \in S THEN prog[n].size ELSE 0]

LEMMA SizesTyped ==
  ASSUME prog \in Programs, NEW S
  PROVE  SizesIn(S) \in [1 .. Len(prog) -> Nat] /\ SizeOfAll(S) = Total(SizesIn(S), Len(prog))
<1>1. \A n \in DOMAIN prog : (IF n \in S THEN prog[n].size ELSE 0) \in Nat
  BY ProgramShape
<1>2. SizesIn(S) \in [1 .. Len(prog) -> Nat]
  BY <1>1, ProgramShape DEF SizesIn
<1> QED BY <1>2 DEF SizeOfAll, SizesIn

\* Statements apart from each other and inside a third set take no more room.
LEMMA SizesAdd ==
  ASSUME prog \in Programs, NEW S, NEW T, NEW U,
         \A n \in DOMAIN prog : /\ ~(n \in S /\ n \in T)
                                /\ n \in S \/ n \in T => n \in U
  PROVE  /\ SizeOfAll(S) \in Nat /\ SizeOfAll(T) \in Nat /\ SizeOfAll(U) \in Nat
         /\ SizeOfAll(S) + SizeOfAll(T) <= SizeOfAll(U)
<1> DEFINE f == SizesIn(S)
           g == SizesIn(T)
           h == SizesIn(U)
<1>1. /\ f \in [1 .. Len(prog) -> Nat] /\ g \in [1 .. Len(prog) -> Nat]
      /\ h \in [1 .. Len(prog) -> Nat] /\ Len(prog) \in Nat
  BY SizesTyped, ProgramShape
<1>2. \A n \in 1 .. Len(prog) : f[n] + g[n] <= h[n]
  <2> TAKE n \in 1 .. Len(prog)
  <2>1. n \in DOMAIN prog /\ prog[n].size \in Nat
    BY ProgramShape
  <2>2. /\ f[n] = (IF n \in S THEN prog[n].size ELSE 0)
        /\ g[n] = (IF n \in T THEN prog[n].size ELSE 0)
        /\ h[n] = (IF n \in U THEN prog[n].size ELSE 0)
    BY <2>1 DEF SizesIn
  <2> HIDE DEF f, g, h
  <2> QED BY <2>1, <2>2
<1> HIDE DEF f, g, h
<1>3. /\ Total(f, Len(prog)) \in Nat /\ Total(g, Len(prog)) \in Nat /\ Total(h, Len(prog)) \in Nat
      /\ Total(f, Len(prog)) + Total(g, Len(prog)) <= Total(h, Len(prog))
  BY <1>1, <1>2, TotalsAdd
<1> QED BY <1>3, SizesTyped DEF f, g, h

LEMMA SizeNat ==
  ASSUME prog \in Programs, NEW S PROVE SizeOfAll(S) \in Nat
<1> DEFINE T == {}
<1>1. \A n \in DOMAIN prog : ~(n \in S /\ n \in T) /\ (n \in S \/ n \in T => n \in S)
  OBVIOUS
<1> HIDE DEF T
<1> QED BY <1>1, SizesAdd

LEMMA SizesHave ==
  ASSUME prog \in Programs, NEW S, NEW n \in DOMAIN prog, n \in S
  PROVE  SizeOfAll(S) \in Nat /\ prog[n].size <= SizeOfAll(S)
<1> DEFINE f == SizesIn(S)
<1>1. f \in [1 .. Len(prog) -> Nat] /\ Len(prog) \in Nat /\ n \in 1 .. Len(prog)
  BY SizesTyped, ProgramShape
<1>2. f[n] = prog[n].size
  BY DEF SizesIn
<1> HIDE DEF f
<1>3. Total(f, Len(prog)) \in Nat /\ f[n] <= Total(f, Len(prog))
  BY <1>1, TotalHas
<1> QED BY <1>2, <1>3, SizesTyped DEF f

Before(n) == {m \in 1 .. n - 1 : prog[m].seg = prog[n].seg}
Ahead(s) == {n \in DOMAIN prog : FirstOf(prog[n].seg) < FirstOf(s)}

LEMMA OffsetParts ==
  ASSUME prog \in Programs, NEW n \in DOMAIN prog
  PROVE  /\ PackedBase(prog[n].seg) = SizeOfAll(Ahead(prog[n].seg))
         /\ Offset(n) = SizeOfAll(Ahead(prog[n].seg)) + SizeOfAll(Before(n))
         /\ SizeOfAll(Ahead(prog[n].seg)) \in Nat /\ SizeOfAll(Before(n)) \in Nat
         /\ Offset(n) \in Nat
<1>1. \A S : SizeOfAll(S) \in Nat
  BY SizeNat
<1>2. /\ PackedBase(prog[n].seg) = SizeOfAll(Ahead(prog[n].seg))
      /\ Offset(n) = SizeOfAll(Ahead(prog[n].seg)) + SizeOfAll(Before(n))
  BY DEF Offset, PackedBase, Ahead, Before
<1> QED BY <1>1, <1>2

\* Where a segment has its first statement.
LEMMA FirstIsOf ==
  ASSUME prog \in Programs, NEW n \in DOMAIN prog
  PROVE  FirstOf(prog[n].seg) \in DOMAIN prog /\ prog[FirstOf(prog[n].seg)].seg = prog[n].seg
<1> DEFINE S == {m \in DOMAIN prog : prog[m].seg = prog[n].seg}
<1>1. S \subseteq Nat /\ n \in S
  BY ProgramShape
<1>2. FirstOf(prog[n].seg) = CHOOSE x \in S : \A y \in S : x <= y
  BY DEF FirstOf, Min
<1>3. \E x \in S : \A y \in S : x <= y
  <2> HIDE DEF S
  <2> QED BY <1>1, FirstIn
<1>4. FirstOf(prog[n].seg) \in S
  <2> HIDE DEF S
  <2> QED BY <1>2, <1>3
<1> QED BY <1>4

LEMMA AfterInSegment ==
  ASSUME prog \in Programs, NEW n \in DOMAIN prog, NEW m \in DOMAIN prog, n < m,
         prog[n].seg = prog[m].seg
  PROVE  Offset(n) + prog[n].size <= Offset(m)
<1>1. SizeOfAll(Before(n)) + SizeOfAll({n}) <= SizeOfAll(Before(m))
  <2>1. \A k \in DOMAIN prog : /\ ~(k \in Before(n) /\ k \in {n})
                               /\ k \in Before(n) \/ k \in {n} => k \in Before(m)
    BY ProgramShape DEF Before
  <2> QED BY <2>1, SizesAdd
<1>2. prog[n].size <= SizeOfAll({n}) /\ SizeOfAll({n}) \in Nat /\ prog[n].size \in Nat
  BY SizesHave, ProgramShape
<1>3. /\ Offset(n) = SizeOfAll(Ahead(prog[n].seg)) + SizeOfAll(Before(n))
      /\ Offset(m) = SizeOfAll(Ahead(prog[n].seg)) + SizeOfAll(Before(m))
      /\ SizeOfAll(Ahead(prog[n].seg)) \in Nat /\ SizeOfAll(Before(n)) \in Nat
      /\ SizeOfAll(Before(m)) \in Nat
  BY OffsetParts
<1> QED BY <1>1, <1>2, <1>3

LEMMA AfterSegment ==
  ASSUME prog \in Programs, NEW n \in DOMAIN prog, NEW m \in DOMAIN prog,
         FirstOf(prog[n].seg) < FirstOf(prog[m].seg)
  PROVE  Offset(n) + prog[n].size <= Offset(m)
<1> DEFINE A == Ahead(prog[n].seg)
           B == Before(n)
           C == Ahead(prog[m].seg)
<1>0. \A k \in DOMAIN prog : FirstOf(prog[k].seg) \in Int
  BY FirstIsOf, ProgramShape
<1>1. SizeOfAll(A) + SizeOfAll(B) <= SizeOfAll(A \cup B)
  <2>1. \A k \in DOMAIN prog : ~(k \in A /\ k \in B)
    BY <1>0 DEF Ahead, Before
  <2> HIDE DEF A, B
  <2> QED BY <2>1, SizesAdd
<1>2. SizeOfAll(A \cup B) + SizeOfAll({n}) <= SizeOfAll(C)
  <2>1. \A k \in DOMAIN prog : /\ ~(k \in A \cup B /\ k \in {n})
                               /\ k \in A \cup B \/ k \in {n} => k \in C
    <3> TAKE k \in DOMAIN prog
    <3>1. n \notin A /\ n \notin B
      BY <1>0, ProgramShape DEF Ahead, Before
    <3>2. k \in A => k \in C
      BY <1>0 DEF Ahead
    <3>3. k \in B => k \in C
      BY <1>0 DEF Ahead, Before
    <3>4. n \in C
      BY DEF Ahead
    <3> QED BY <3>1, <3>2, <3>3, <3>4
  <2> HIDE DEF A, B, C
  <2> QED BY <2>1, SizesAdd
<1>3. prog[n].size <= SizeOfAll({n}) /\ SizeOfAll({n}) \in Nat /\ prog[n].size \in Nat
  BY SizesHave, ProgramShape
<1>4. SizeOfAll(A \cup B) \in Nat
  BY SizeNat
<1>5. /\ Offset(n) = SizeOfAll(A) + SizeOfAll(B) /\ SizeOfAll(A) \in Nat /\ SizeOfAll(B) \in Nat
      /\ Offset(m) = SizeOfAll(C) + SizeOfAll(Before(m))
      /\ SizeOfAll(C) \in Nat /\ SizeOfAll(Before(m)) \in Nat
  BY OffsetParts
<1> HIDE DEF A, B, C
<1> QED BY <1>1, <1>2, <1>3, <1>4, <1>5

\* In such a program a relocated statement lies behind the earlier ones.
LEMMA OffsetsRise ==
  ASSUME prog \in Programs, InOrder, NEW n \in DOMAIN prog, NEW m \in DOMAIN prog, n < m,
         prog[n].sites # <<>>, prog[m].sites # <<>>
  PROVE  Offset(n) + prog[n].size <= Offset(m)
<1>1. /\ prog[n].size \in Nat /\ prog[m].size \in Nat
      /\ Offset(n) \in Nat /\ Offset(m) \in Nat /\ Offset(n) <= Offset(m)
  BY ProgramShape, OffsetParts DEF InOrder
<1>2. prog[m].size > 0
  <2>1. PICK s : s = prog[m].sites
    OBVIOUS
  <2>2. s \in Seq(Sites) /\ s # <<>>
    BY <2>1, SitesShape
  <2>3. 1 \in 1 .. Len(s)
    BY <2>2
  <2>4. s[1].at \in Nat /\ s[1].at < prog[m].size
    BY <2>1, <2>3, SitesShape
  <2> QED BY <1>1, <2>4
<1>3. CASE prog[n].seg = prog[m].seg
  BY <1>3, AfterInSegment
<1>4. CASE prog[n].seg # prog[m].seg
  <2>1. /\ FirstOf(prog[n].seg) # FirstOf(prog[m].seg)
        /\ FirstOf(prog[n].seg) \in Nat /\ FirstOf(prog[m].seg) \in Nat
    BY <1>4, FirstIsOf, ProgramShape
  <2>2. FirstOf(prog[n].seg) < FirstOf(prog[m].seg) \/ FirstOf(prog[m].seg) < FirstOf(prog[n].seg)
    BY <2>1
  <2>3. ASSUME FirstOf(prog[n].seg) < FirstOf(prog[m].seg) PROVE Offset(n) + prog[n].size <= Offset(m)
    BY <2>3, AfterSegment
  <2>4. ASSUME FirstOf(prog[m].seg) < FirstOf(prog[n].seg) PROVE FALSE
    <3>1. Offset(m) + prog[m].size <= Offset(n)
      BY <2>4, AfterSegment
    <3> QED BY <1>1, <1>2, <3>1
  <2> QED BY <2>2, <2>3, <2>4
<1> QED BY <1>3, <1>4

-----------------------------------------------------------------------------
(* Types *)

Relocs == [offset: Nat, kind: RelocKinds]

LEMMA FieldsTyped ==
  ASSUME NEW k \in RelocKinds
  PROVE  /\ Fields(k) \in Seq(0 .. Byte - 1)
         /\ Len(Fields(k)) = (IF k = "import" THEN 4 ELSE IF k = "half" THEN 3 ELSE 2)
         /\ \A i \in 1 .. Len(Fields(k)) : Fields(k)[i] \in 0 .. Byte - 1
<1> DEFINE B == 0 .. Byte - 1
<1>1. 0 \in B /\ 1 \in B /\ 2 \in B
  BY ByteAssumption
<1> HIDE DEF B
<1>2. CASE k = "import"
  <2>1. Fields(k) = <<1, 0, 0, 0>>
    BY <1>2 DEF Fields
  <2>2. <<1, 0, 0, 0>> \in Seq(B) /\ Len(<<1, 0, 0, 0>>) = 4
    BY <1>1
  <2>3. \A i \in 1 .. Len(Fields(k)) : Fields(k)[i] \in B
    BY <2>1, <2>2
  <2> QED BY <1>2, <2>1, <2>2, <2>3 DEF B
<1>3. CASE k = "half"
  <2>1. Fields(k) = <<2, 2, 1>>
    BY <1>3 DEF Fields
  <2>2. <<2, 2, 1>> \in Seq(B) /\ Len(<<2, 2, 1>>) = 3
    BY <1>1
  <2>3. \A i \in 1 .. Len(Fields(k)) : Fields(k)[i] \in B
    BY <2>1, <2>2
  <2> QED BY <1>3, <2>1, <2>2, <2>3 DEF B
<1>4. CASE k = "word"
  <2>1. Fields(k) = <<1, 2>>
    BY <1>4 DEF Fields
  <2>2. <<1, 2>> \in Seq(B) /\ Len(<<1, 2>>) = 2
    BY <1>1
  <2>3. \A i \in 1 .. Len(Fields(k)) : Fields(k)[i] \in B
    BY <2>1, <2>2
  <2> QED BY <1>4, <2>1, <2>2, <2>3 DEF B
<1> QED BY <1>2, <1>3, <1>4 DEF RelocKinds, B

\* What one statement appends: its sites, in order, inside the statement.
LEMMA NewRelocs ==
  ASSUME prog \in Programs, NEW n \in DOMAIN prog
  PROVE  /\ SitesOf(n) \in Seq(Relocs) /\ Len(SitesOf(n)) \in Nat
         /\ Len(SitesOf(n)) = 0 <=> prog[n].sites = <<>>
         /\ \A k \in 1 .. Len(SitesOf(n)) :
              /\ SitesOf(n)[k].offset \in Nat
              /\ Offset(n) <= SitesOf(n)[k].offset
              /\ SitesOf(n)[k].offset < Offset(n) + prog[n].size
              /\ \A j \in 1 .. Len(SitesOf(n)) : j < k => SitesOf(n)[j].offset < SitesOf(n)[k].offset
<1>1. PICK s : s = prog[n].sites
  OBVIOUS
<1>2. /\ s \in Seq(Sites) /\ Len(s) \in Nat /\ DOMAIN s = 1 .. Len(s)
      /\ \A k \in 1 .. Len(s) :
           /\ s[k].at \in Nat /\ s[k].kind \in RelocKinds /\ s[k].at < prog[n].size
           /\ \A j \in 1 .. Len(s) : j < k => s[j].at < s[k].at
  BY <1>1, SitesShape
<1>3. Offset(n) \in Nat /\ prog[n].size \in Nat
  BY OffsetParts, ProgramShape
<1> DEFINE x == Offset(n)
           t == [k \in 1 .. Len(s) |-> [offset |-> x + s[k].at, kind |-> s[k].kind]]
<1>4. SitesOf(n) = t
  BY <1>1, <1>2 DEF SitesOf
<1>5. x \in Nat /\ x = Offset(n)
  BY <1>3
<1> HIDE DEF x
<1>6. \A k \in 1 .. Len(s) : t[k] \in Relocs /\ t[k].offset = x + s[k].at
  BY <1>2, <1>5 DEF Relocs
<1>7. t \in Seq(Relocs) /\ Len(t) = Len(s)
  <2> HIDE DEF x
  <2>1. t = [k \in 1 .. Len(s) |-> t[k]]
    OBVIOUS
  <2> HIDE DEF t
  <2>2. t \in [1 .. Len(s) -> Relocs]
    BY <1>6, <2>1
  <2> QED BY <1>2, <2>2
<1> HIDE DEF t
<1>8. Len(s) = 0 <=> s = <<>>
  BY <1>2
<1>9. \A k \in 1 .. Len(s) :
        /\ t[k].offset \in Nat /\ x <= t[k].offset /\ t[k].offset < x + prog[n].size
        /\ \A j \in 1 .. Len(s) : j < k => t[j].offset < t[k].offset
  <2> TAKE k \in 1 .. Len(s)
  <2>1. /\ s[k].at \in Nat /\ s[k].at < prog[n].size /\ t[k].offset = x + s[k].at
        /\ x \in Nat /\ prog[n].size \in Nat
    BY <1>2, <1>3, <1>5, <1>6
  <2>2. t[k].offset \in Nat /\ x <= t[k].offset /\ t[k].offset < x + prog[n].size
    BY <2>1
  <2>3. ASSUME NEW j \in 1 .. Len(s), j < k PROVE t[j].offset < t[k].offset
    <3>1. s[j].at \in Nat /\ s[j].at < s[k].at /\ t[j].offset = x + s[j].at
      BY <1>2, <1>6, <2>3
    <3> QED BY <2>1, <3>1
  <2> QED BY <2>2, <2>3
<1> QED BY <1>1, <1>2, <1>4, <1>5, <1>7, <1>8, <1>9

LEMMA TypeInit == Init => TypeOK
BY DEF Init, BeforeFirst, TypeOK

LEMMA TypeStep ==
  ASSUME TypeOK, [Next]_vars PROVE TypeOK'
<1>0. prog \in Programs /\ prog' = prog
  BY DEF TypeOK, Next, vars, Emit, EndEmit, WriteSkip, WriteEntry, WriteEnd, ReadSkip, ReadEntry,
         ReadEnd, ReadFail
<1>1. /\ at \in Nat \ {0} /\ relocs \in Seq(Relocs) /\ prev \in Int
      /\ file \in Seq(0 .. Byte - 1) /\ pos \in 0 .. Len(file)
      /\ Byte \in Nat /\ Byte >= 4
  BY ByteAssumption DEF TypeOK, Relocs, RelocKinds
<1>2. CASE Emit
  <2>1. at \in DOMAIN prog /\ SitesOf(at) \in Seq(Relocs)
    BY <1>0, <1>2, NewRelocs DEF Emit
  <2>2. relocs' \in Seq(Relocs) /\ at' = at + 1 /\ UNCHANGED <<phase, prev, file, pos, items>>
    BY <1>1, <1>2, <2>1 DEF Emit
  <2> QED BY <1>0, <1>1, <2>2 DEF TypeOK, Relocs, RelocKinds
<1>3. CASE EndEmit
  BY <1>0, <1>3 DEF EndEmit, TypeOK
<1>4. CASE WriteSkip
  <2>1. file' \in Seq(0 .. Byte - 1) /\ Len(file') = Len(file) + 1 /\ prev' \in Int
    BY <1>1, <1>4 DEF WriteSkip
  <2> QED BY <1>0, <1>1, <1>4, <2>1 DEF WriteSkip, TypeOK
<1>5. CASE WriteEntry
  <2>1. at \in DOMAIN relocs /\ relocs[at] \in Relocs
    BY <1>1, <1>5 DEF WriteEntry
  <2>2. relocs[at].offset \in Int /\ relocs[at].kind \in RelocKinds
    BY <2>1 DEF Relocs
  <2>3. DeltaByte \in 0 .. Byte - 1
    BY <1>1, <2>2, SMTT(60) DEF DeltaByte, Delta
  <2>4. <<DeltaByte>> \in Seq(0 .. Byte - 1)
    BY <2>3
  <2>5. Fields(relocs[at].kind) \in Seq(0 .. Byte - 1)
    BY <2>2, FieldsTyped
  <2>6. /\ file' = file \o <<DeltaByte>> \o Fields(relocs[at].kind)
        /\ prev' = relocs[at].offset /\ at' = at + 1 /\ UNCHANGED <<phase, relocs, pos, items>>
    BY <1>5 DEF WriteEntry
  <2>7. file' \in Seq(0 .. Byte - 1) /\ Len(file) <= Len(file')
    BY <1>1, <2>4, <2>5, <2>6
  <2>8. pos' \in 0 .. Len(file')
    BY <1>1, <2>6, <2>7
  <2> QED BY <1>0, <1>1, <2>2, <2>6, <2>7, <2>8 DEF TypeOK
<1>6. CASE WriteEnd
  <2>1. file' \in Seq(0 .. Byte - 1) /\ Len(file') = Len(file) + 1
    BY <1>1, <1>6 DEF WriteEnd
  <2> QED BY <1>0, <1>1, <1>6, <2>1 DEF WriteEnd, BeforeFirst, TypeOK
<1>7. CASE ReadSkip
  <2>1. pos' \in 0 .. Len(file) /\ prev' \in Int
    BY <1>1, <1>7 DEF ReadSkip, More
  <2> QED BY <1>0, <1>7, <2>1 DEF ReadSkip, TypeOK
<1>8. CASE ReadEntry
  <2>1. EntrySize \in Nat /\ pos + EntrySize <= Len(file)
    BY <1>8 DEF ReadEntry, More, EntrySize
  <2>2. pos + 1 \in 1 .. Len(file)
    BY <1>1, <1>8 DEF ReadEntry, More
  <2>3. Field(1) \in Int
    BY <1>1, <2>2 DEF Field
  <2>4. [offset |-> prev + Field(1), kind |-> KindRead]
          \in [offset: Int, kind: {"word", "half", "import"}]
    BY <1>1, <2>3 DEF KindRead
  <2>5. items' \in Seq([offset: Int, kind: {"word", "half", "import"}])
    BY <1>8, <2>4 DEF ReadEntry, TypeOK
  <2>6. pos' \in 0 .. Len(file) /\ prev' \in Int
    BY <1>1, <1>8, <2>1, <2>3 DEF ReadEntry
  <2> QED BY <1>0, <1>8, <2>5, <2>6 DEF ReadEntry, TypeOK
<1>9. CASE ReadEnd
  <2>1. pos' \in 0 .. Len(file)
    BY <1>1, <1>9 DEF ReadEnd, More
  <2> QED BY <1>0, <1>9, <2>1 DEF ReadEnd, TypeOK
<1>10. CASE ReadFail
  BY <1>0, <1>10 DEF ReadFail, TypeOK
<1>11. CASE UNCHANGED vars
  BY <1>11 DEF vars, TypeOK
<1> QED BY <1>2, <1>3, <1>4, <1>5, <1>6, <1>7, <1>8, <1>9, <1>10, <1>11 DEF Next

-----------------------------------------------------------------------------
(* Places in the file.  A place is <<pos, prev, n>>: how much of the file   *)
(* is behind it, the offset reached, and how many relocations.              *)

Places == Nat \X Int \X Nat
Width(r) == 1 + Len(Fields(r.kind))
SkipAt(rs, f, b) == b[3] < Len(rs) /\ b[1] < Len(f) /\ f[b[1] + 1] = Byte - 1
EntryOf(rs, f, b, r) ==
  /\ r.offset - b[2] \in 1 .. Byte - 2
  /\ b[1] + Width(r) <= Len(f)
  /\ f[b[1] + 1] = r.offset - b[2]
  /\ \A k \in 1 .. Len(Fields(r.kind)) : f[b[1] + 1 + k] = Fields(r.kind)[k]
EntryAt(rs, f, b) == b[3] < Len(rs) /\ EntryOf(rs, f, b, rs[b[3] + 1])
EndAt(rs, f, b) == b[3] = Len(rs) /\ Len(f) = b[1] + 1 /\ f[b[1] + 1] = 0
AfterSkip(b) == <<b[1] + 1, b[2] + Byte - 2, b[3]>>
AfterEntry(rs, b) == <<b[1] + Width(rs[b[3] + 1]), rs[b[3] + 1].offset, b[3] + 1>>

\* A skip or an entry is at b, and the place behind it is in B.
Follows(rs, f, b, B) == \/ SkipAt(rs, f, b) /\ AfterSkip(b) \in B
                        \/ EntryAt(rs, f, b) /\ AfterEntry(rs, b) \in B

\* The places the writer has come through, up to where it is, and those the
\* reader will come through, up to the end.
Here == <<Len(file), prev, at - 1>>
Written(B) == /\ B \subseteq Places /\ <<0, -1, 0>> \in B /\ Here \in B
              /\ \A b \in B : b = Here \/ Follows(relocs, file, b, B)
There == <<pos, prev, Len(items)>>
Ready(B) == /\ B \subseteq Places /\ There \in B
            /\ \A b \in B : EndAt(relocs, file, b) \/ Follows(relocs, file, b, B)

EmitInv ==
  phase = "emit" =>
    /\ prev = -1 /\ file = <<>>
    /\ \A k \in DOMAIN relocs : \E n \in DOMAIN prog :
         n < at /\ prog[n].sites # <<>> /\ relocs[k].offset < Offset(n) + prog[n].size
RisingInv == \A j, k \in DOMAIN relocs : j < k => relocs[j].offset < relocs[k].offset
WriteInv ==
  phase = "write" =>
    /\ at <= Len(relocs) + 1
    /\ at \in DOMAIN relocs => prev < relocs[at].offset
    /\ \E B : Written(B)
ReadInv == phase = "read" => \E B : Ready(B)
PrefixInv ==
  /\ Len(items) <= Len(relocs) /\ \A k \in 1 .. Len(items) : items[k] = relocs[k]
  /\ phase \in {"emit", "write"} => pos = 0 /\ items = <<>>
EndInv == /\ phase = "done" => Len(items) = Len(relocs) /\ pos = Len(file)
          /\ phase # "eof"

IInv == EmitInv /\ RisingInv /\ WriteInv /\ ReadInv /\ PrefixInv /\ EndInv
OrderInv == InOrder => IInv

LEMMA Starts == Init => OrderInv
<1> SUFFICES ASSUME Init PROVE IInv
  BY DEF OrderInv
<1>1. /\ phase = "emit" /\ at = 1 /\ relocs = <<>> /\ prev = -1 /\ file = <<>>
      /\ pos = 0 /\ items = <<>>
  BY DEF Init, BeforeFirst
<1> QED BY <1>1 DEF IInv, EmitInv, RisingInv, WriteInv, ReadInv, PrefixInv, EndInv

\* What has been written stays as it is.
LEMMA FollowsOn ==
  ASSUME NEW rs, NEW f, NEW h, NEW b \in Places, NEW B, NEW C, Follows(rs, f, b, B), B \subseteq C,
         Len(f) \in Nat, Len(h) \in Nat, Len(f) <= Len(h), \A i \in 1 .. Len(f) : h[i] = f[i]
  PROVE  Follows(rs, h, b, C)
<1>1. b[1] \in Nat
  BY DEF Places
<1>2. ASSUME SkipAt(rs, f, b) PROVE SkipAt(rs, h, b)
  BY <1>1, <1>2 DEF SkipAt
<1>3. ASSUME EntryAt(rs, f, b), Len(Fields(rs[b[3] + 1].kind)) \in Nat PROVE EntryAt(rs, h, b)
  <2> DEFINE r == rs[b[3] + 1]
             n == Len(Fields(r.kind))
  <2>1. /\ b[1] + (1 + n) <= Len(f) /\ f[b[1] + 1] = r.offset - b[2]
        /\ \A k \in 1 .. n : f[b[1] + 1 + k] = Fields(r.kind)[k]
        /\ b[3] < Len(rs) /\ r.offset - b[2] \in 1 .. Byte - 2
    BY <1>3 DEF EntryAt, EntryOf, Width
  <2>2. n \in Nat
    BY <1>3
  <2> HIDE DEF r, n
  <2>6. b[1] + 1 \in 1 .. Len(f) /\ \A k \in 1 .. n : b[1] + 1 + k \in 1 .. Len(f)
    <3>1. \A p, l, m \in Nat : p + (1 + m) <= l =>
            p + 1 \in 1 .. l /\ \A k \in 1 .. m : p + 1 + k \in 1 .. l
      OBVIOUS
    <3>2. b[1] + (1 + n) <= Len(f)
      BY <2>1
    <3> QED BY <1>1, <2>2, <3>1, <3>2
  <2>3. h[b[1] + 1] = f[b[1] + 1]
    BY <2>6
  <2>4. \A k \in 1 .. n : h[b[1] + 1 + k] = f[b[1] + 1 + k]
    BY <2>6
  <2>5. b[1] + (1 + n) <= Len(h)
    BY <1>1, <2>1, <2>2
  <2> QED BY <2>1, <2>3, <2>4, <2>5 DEF EntryAt, EntryOf, Width, r, n
<1>4. \A k : Len(Fields(k)) \in Nat
  BY DEF Fields
<1> QED BY <1>2, <1>3, <1>4 DEF Follows

-----------------------------------------------------------------------------
(* The assembler *)

LEMMA Concatenation ==
  ASSUME NEW S, NEW s \in Seq(S), NEW t \in Seq(S)
  PROVE  /\ s \o t \in Seq(S) /\ Len(s \o t) = Len(s) + Len(t)
         /\ \A i \in 1 .. Len(s) : (s \o t)[i] = s[i]
         /\ \A k \in 1 .. Len(t) : (s \o t)[Len(s) + k] = t[k]
OBVIOUS

LEMMA EmitKeeps ==
  ASSUME TypeOK, InOrder, IInv, Emit PROVE IInv'
<1>1. /\ phase = "emit" /\ phase' = "emit" /\ at \in DOMAIN prog /\ at' = at + 1 /\ prog' = prog
      /\ UNCHANGED <<prev, file, pos, items>>
      /\ relocs \in Seq(Relocs) /\ prog \in Programs /\ relocs' = relocs \o SitesOf(at)
      /\ pos = 0 /\ items = <<>> /\ prev = -1 /\ file = <<>>
  BY DEF Emit, TypeOK, Relocs, RelocKinds, IInv, EmitInv, PrefixInv
<1>2. DOMAIN prog \subseteq Nat /\ \A n \in DOMAIN prog : Offset(n)' = Offset(n)
  BY <1>1, ProgramShape DEF Offset, PackedBase, FirstOf, SizeOfAll
<1> DEFINE t == SitesOf(at)
           m == Len(relocs)
           l == Len(t)
<1>3. /\ t \in Seq(Relocs) /\ l \in Nat /\ (l = 0 <=> prog[at].sites = <<>>)
      /\ \A k \in 1 .. l :
           /\ t[k].offset \in Nat /\ Offset(at) <= t[k].offset
           /\ t[k].offset < Offset(at) + prog[at].size
           /\ \A j \in 1 .. l : j < k => t[j].offset < t[k].offset
  BY <1>1, NewRelocs
<1>4. /\ m \in Nat /\ DOMAIN relocs = 1 .. m /\ relocs' = relocs \o t
      /\ \A k \in 1 .. m : relocs[k] \in Relocs
  BY <1>1
<1> HIDE DEF t
<1>5. /\ Len(relocs') = m + l /\ DOMAIN relocs' = 1 .. m + l
      /\ \A k \in 1 .. m : relocs'[k] = relocs[k]
      /\ \A k \in 1 .. l : relocs'[m + k] = t[k]
  <2>1. PICK V : V = Relocs
    OBVIOUS
  <2>2. relocs \in Seq(V) /\ t \in Seq(V)
    BY <1>1, <1>3, <2>1, Zenon
  <2>3. /\ relocs \o t \in Seq(V) /\ Len(relocs \o t) = m + l
        /\ \A k \in 1 .. m : (relocs \o t)[k] = relocs[k]
        /\ \A k \in 1 .. l : (relocs \o t)[m + k] = t[k]
    BY <2>2, Concatenation
  <2>4. DOMAIN (relocs \o t) = 1 .. Len(relocs \o t)
    BY <2>3
  <2> QED BY <1>4, <2>3, <2>4
<1> HIDE DEF m, l
<1>6. \A k \in 1 .. m + l : k \in 1 .. m \/ (k - m \in 1 .. l /\ relocs'[k] = t[k - m])
  <2> TAKE k \in 1 .. m + l
  <2>1. k \in 1 .. m \/ (k - m \in 1 .. l /\ m + (k - m) = k)
    <3>1. \A a, b \in Nat : \A i \in 1 .. a + b :
            i \in 1 .. a \/ (i - a \in 1 .. b /\ a + (i - a) = i)
      OBVIOUS
    <3>2. m \in Nat /\ l \in Nat
      BY <1>3, <1>4, Zenon
    <3> QED BY <3>1, <3>2, Zenon
  <2> QED BY <1>5, <2>1
<1>7. \A k \in 1 .. m : \E n \in DOMAIN prog :
        n < at /\ prog[n].sites # <<>> /\ relocs[k].offset < Offset(n) + prog[n].size
  BY <1>1, <1>4 DEF IInv, EmitInv
<1>8. \A j \in 1 .. m : \A k \in 1 .. l : relocs[j].offset < t[k].offset
  <2> TAKE j \in 1 .. m
  <2> TAKE k \in 1 .. l
  <2>1. PICK n \in DOMAIN prog :
          n < at /\ prog[n].sites # <<>> /\ relocs[j].offset < Offset(n) + prog[n].size
    BY <1>7
  <2>2. prog[at].sites # <<>>
    BY <1>3
  <2>3. Offset(n) + prog[n].size <= Offset(at)
    BY <1>1, <2>1, <2>2, OffsetsRise
  <2>4. Offset(n) \in Nat /\ prog[n].size \in Nat /\ Offset(at) \in Nat
    BY <1>1, OffsetParts, ProgramShape
  <2>5. relocs[j].offset \in Nat /\ t[k].offset \in Nat /\ Offset(at) <= t[k].offset
    BY <1>3, <1>4 DEF Relocs
  <2> QED BY <2>1, <2>3, <2>4, <2>5
<1>9. EmitInv'
  <2> SUFFICES ASSUME NEW k \in 1 .. m + l
               PROVE  \E n \in DOMAIN prog :
                        /\ n < at + 1 /\ prog[n].sites # <<>>
                        /\ relocs'[k].offset < Offset(n)' + prog[n].size
    BY <1>1, <1>5 DEF EmitInv
  <2>1. CASE k \in 1 .. m
    <3>1. PICK n \in DOMAIN prog :
            n < at /\ prog[n].sites # <<>> /\ relocs[k].offset < Offset(n) + prog[n].size
      BY <1>7, <2>1
    <3>2. n < at + 1
      BY <1>1, <1>2, <3>1
    <3> QED BY <1>2, <1>5, <2>1, <3>1, <3>2
  <2>2. CASE k - m \in 1 .. l /\ relocs'[k] = t[k - m]
    <3>1. prog[at].sites # <<>> /\ t[k - m].offset < Offset(at) + prog[at].size
      BY <1>3, <2>2
    <3>2. at < at + 1
      BY <1>1, <1>2
    <3> QED BY <1>1, <1>2, <2>2, <3>1, <3>2
  <2> QED BY <1>6, <2>1, <2>2
<1>10. RisingInv'
  <2> SUFFICES ASSUME NEW j \in 1 .. m + l, NEW k \in 1 .. m + l, j < k
               PROVE  relocs'[j].offset < relocs'[k].offset
    BY <1>5 DEF RisingInv
  <2>1. CASE j \in 1 .. m /\ k \in 1 .. m
    BY <1>4, <1>5, <2>1 DEF IInv, RisingInv
  <2>2. CASE j \in 1 .. m /\ k \notin 1 .. m
    BY <1>5, <1>6, <1>8, <2>2
  <2>3. CASE j \notin 1 .. m
    <3>1. k \notin 1 .. m
      BY <1>4, <2>3
    <3>2. j - m \in 1 .. l /\ relocs'[j] = t[j - m] /\ k - m \in 1 .. l /\ relocs'[k] = t[k - m]
      BY <1>6, <2>3, <3>1
    <3>3. j - m < k - m
      BY <1>4
    <3> QED BY <1>3, <3>2, <3>3
  <2> QED BY <2>1, <2>2, <2>3
<1>11. PrefixInv'
  <2>1. Len(relocs') \in Nat
    BY <1>3, <1>4, <1>5
  <2> QED BY <1>1, <2>1 DEF PrefixInv
<1> QED BY <1>1, <1>9, <1>10, <1>11 DEF IInv, WriteInv, ReadInv, EndInv

LEMMA EndEmitKeeps ==
  ASSUME TypeOK, InOrder, IInv, EndEmit PROVE IInv'
<1>1. /\ phase = "emit" /\ phase' = "write" /\ at' = 1
      /\ UNCHANGED <<prog, relocs, prev, file, pos, items>>
      /\ relocs \in Seq(Relocs)
      /\ pos = 0 /\ items = <<>> /\ prev = -1 /\ file = <<>>
  BY DEF EndEmit, TypeOK, Relocs, RelocKinds, IInv, EmitInv, PrefixInv
<1>2. at' <= Len(relocs) + 1
  BY <1>1
<1>3. at' \in DOMAIN relocs => prev < relocs[at'].offset
  <2> HAVE at' \in DOMAIN relocs
  <2>1. relocs[1] \in Relocs
    BY <1>1
  <2>2. relocs[1].offset \in Nat
    BY <2>1 DEF Relocs
  <2> QED BY <1>1, <2>2
<1>4. Written({<<0, -1, 0>>})'
  BY <1>1 DEF Written, Here, Places
<1>5. WriteInv'
  BY <1>1, <1>2, <1>3, <1>4 DEF WriteInv
<1> QED BY <1>1, <1>5 DEF IInv, EmitInv, RisingInv, ReadInv, PrefixInv, EndInv

\* The writer comes to a new place, behind what it has added to the file.
LEMMA Further ==
  ASSUME TypeOK, NEW B, Written(B), TypeOK', relocs' = relocs,
         Len(file) <= Len(file'), \A i \in 1 .. Len(file) : file'[i] = file[i],
         Follows(relocs, file', Here, {Here'})
  PROVE  \E C : Written(C)'
<1>0. PICK C : C = B \cup {Here'}
  OBVIOUS
<1>1. /\ Len(file) \in Nat /\ Len(file') \in Nat /\ Here' \in Places
  BY SMTT(60) DEF TypeOK, Here, Places
<1>2. B \subseteq Places /\ <<0, -1, 0>> \in B /\ Here \in B
      /\ \A b \in B : b = Here \/ Follows(relocs, file, b, B)
  BY DEF Written
<1>3. \A b \in B : b # Here => Follows(relocs, file', b, C)
  <2> SUFFICES ASSUME NEW b \in B, b # Here PROVE Follows(relocs, file', b, C)
    OBVIOUS
  <2>1. b \in Places /\ Follows(relocs, file, b, B) /\ B \subseteq C
    BY <1>0, <1>2
  <2> QED BY <1>1, <2>1, FollowsOn
<1>4. Follows(relocs, file', Here, C)
  BY <1>0 DEF Follows
<1>5. \A b \in C : b = Here' \/ Follows(relocs', file', b, C)
  <2> HIDE DEF Here
  <2> QED BY <1>0, <1>3, <1>4
<1>6. C \subseteq Places /\ <<0, -1, 0>> \in C /\ Here' \in C
  BY <1>0, <1>1, <1>2
<1>7. Written(C)'
  BY <1>5, <1>6 DEF Written
<1> QED BY <1>7

LEMMA WriteSkipKeeps ==
  ASSUME TypeOK, InOrder, IInv, WriteSkip, TypeOK' PROVE IInv'
<1>1. /\ phase = "write" /\ phase' = "write" /\ at \in DOMAIN relocs
      /\ relocs[at].offset - prev > Byte - 2
      /\ file' = Append(file, Byte - 1) /\ prev' = prev + Byte - 2
      /\ UNCHANGED <<prog, at, relocs, pos, items>>
      /\ relocs \in Seq(Relocs) /\ prev \in Int /\ file \in Seq(0 .. Byte - 1)
      /\ Byte \in Nat /\ Byte >= 4
  BY ByteAssumption DEF WriteSkip, Delta, TypeOK, Relocs, RelocKinds
<1>2. at \in 1 .. Len(relocs) /\ relocs[at].offset \in Nat
  <2>1. at \in 1 .. Len(relocs) /\ relocs[at] \in Relocs
    BY <1>1
  <2> QED BY <2>1 DEF Relocs
<1>3. prev' < relocs[at].offset
  BY <1>1, <1>2
<1>4. PICK B : Written(B)
  BY <1>1 DEF IInv, WriteInv
<1>5. /\ Len(file') = Len(file) + 1 /\ Len(file) \in Nat /\ file'[Len(file) + 1] = Byte - 1
      /\ \A i \in 1 .. Len(file) : file'[i] = file[i]
  BY <1>1
<1>6. Follows(relocs, file', Here, {Here'})
  <2>1. SkipAt(relocs, file', Here)
    BY <1>2, <1>5 DEF SkipAt, Here
  <2>2. AfterSkip(Here) = Here'
    BY <1>1, <1>5 DEF AfterSkip, Here
  <2> QED BY <2>1, <2>2 DEF Follows
<1>7. \E C : Written(C)'
  BY <1>1, <1>4, <1>5, <1>6, Further
<1>8. WriteInv'
  BY <1>1, <1>2, <1>3, <1>7 DEF WriteInv
<1> QED BY <1>1, <1>8 DEF IInv, EmitInv, RisingInv, ReadInv, PrefixInv, EndInv

LEMMA Remainder ==
  ASSUME NEW b \in Nat, NEW x \in Nat, x < b PROVE x % b = x
OBVIOUS

LEMMA WriteEntryKeeps ==
  ASSUME TypeOK, InOrder, IInv, WriteEntry, TypeOK' PROVE IInv'
<1> DEFINE r == relocs[at]
           d == DeltaByte
           F == Fields(r.kind)
<1>1. /\ phase = "write" /\ phase' = "write" /\ at \in DOMAIN relocs
      /\ r.offset - prev <= Byte - 2
      /\ file' = file \o <<d>> \o F /\ prev' = r.offset /\ at' = at + 1
      /\ UNCHANGED <<prog, relocs, pos, items>>
      /\ relocs \in Seq(Relocs) /\ prev \in Int /\ file \in Seq(0 .. Byte - 1)
      /\ Byte \in Nat /\ Byte >= 4
  BY ByteAssumption DEF WriteEntry, Delta, TypeOK, Relocs, RelocKinds
<1>2. at \in 1 .. Len(relocs) /\ r.offset \in Nat /\ r.kind \in RelocKinds /\ Len(relocs) \in Nat
  <2>1. at \in 1 .. Len(relocs) /\ relocs[at] \in Relocs /\ Len(relocs) \in Nat
    BY <1>1
  <2> QED BY <2>1 DEF Relocs
<1>3. prev < r.offset
  BY <1>1 DEF IInv, WriteInv
<1>4. PICK B : Written(B)
  BY <1>1 DEF IInv, WriteInv
<1>5. d = r.offset - prev /\ d \in 1 .. Byte - 2
  <2>1. d = (r.offset - prev) % Byte
    BY DEF DeltaByte, Delta
  <2>2. \A x \in Nat : x < Byte => x % Byte = x
    BY <1>1, Remainder
  <2>3. r.offset - prev \in Nat /\ r.offset - prev < Byte /\ r.offset - prev >= 1
    BY <1>1, <1>2, <1>3
  <2> QED BY <1>1, <2>1, <2>2, <2>3
<1>6. F \in Seq(0 .. Byte - 1) /\ Len(F) \in Nat
  BY <1>2, FieldsTyped
<1> HIDE DEF r, d, F
<1>7. /\ Len(file') = Len(file) + 1 + Len(F) /\ Len(file) \in Nat /\ file'[Len(file) + 1] = d
      /\ \A i \in 1 .. Len(file) : file'[i] = file[i]
      /\ \A k \in 1 .. Len(F) : file'[Len(file) + 1 + k] = F[k]
  <2>1. <<d>> \in Seq(0 .. Byte - 1)
    BY <1>1, <1>5
  <2> DEFINE g == file \o <<d>>
  <2>2. /\ g \in Seq(0 .. Byte - 1) /\ Len(g) = Len(file) + 1 /\ Len(file) \in Nat
        /\ g[Len(file) + 1] = d /\ \A i \in 1 .. Len(file) : g[i] = file[i]
    BY <1>1, <2>1
  <2>3. file' = g \o F
    BY <1>1
  <2> HIDE DEF g
  <2>4. /\ Len(file') = Len(g) + Len(F) /\ \A i \in 1 .. Len(g) : file'[i] = g[i]
        /\ \A k \in 1 .. Len(F) : file'[Len(g) + k] = F[k]
    <3>1. /\ Len(g \o F) = Len(g) + Len(F) /\ \A i \in 1 .. Len(g) : (g \o F)[i] = g[i]
          /\ \A k \in 1 .. Len(F) : (g \o F)[Len(g) + k] = F[k]
      <4>1. PICK V : V = 0 .. Byte - 1
        OBVIOUS
      <4>2. g \in Seq(V) /\ F \in Seq(V)
        BY <1>6, <2>2, <4>1, Zenon
      <4> QED BY <4>2, Concatenation
    <3> QED BY <2>3, <3>1, Zenon
  <2> QED BY <2>2, <2>4
<1>8. Follows(relocs, file', Here, {Here'})
  <2>1. Here[1] = Len(file) /\ Here[2] = prev /\ Here[3] = at - 1 /\ Here[3] + 1 = at
    BY <1>2 DEF Here
  <2>2. relocs[Here[3] + 1] = r
    BY <2>1 DEF r
  <2>3. EntryOf(relocs, file', Here, r)
    BY <1>5, <1>6, <1>7, <2>1 DEF EntryOf, Width, F
  <2>4. EntryAt(relocs, file', Here)
    BY <1>2, <2>1, <2>2, <2>3 DEF EntryAt
  <2>5. Width(r) = 1 + Len(F)
    BY DEF Width, F
  <2>6. AfterEntry(relocs, Here) = <<Len(file) + (1 + Len(F)), r.offset, at>>
    BY <2>1, <2>2, <2>5 DEF AfterEntry
  <2>7. Here' = <<Len(file'), r.offset, at>>
    BY <1>1, <1>2 DEF Here
  <2>8. Len(file') = Len(file) + (1 + Len(F))
    BY <1>6, <1>7
  <2> QED BY <2>4, <2>6, <2>7, <2>8 DEF Follows
<1>9. \E C : Written(C)'
  <2>1. Len(file) <= Len(file')
    BY <1>6, <1>7
  <2> QED BY <1>1, <1>4, <1>7, <1>8, <2>1, Further
<1>10. at' \in DOMAIN relocs => prev' < relocs[at'].offset
  <2> HAVE at' \in DOMAIN relocs
  <2>1. at < at' /\ at \in DOMAIN relocs
    BY <1>1, <1>2
  <2> QED BY <1>1, <2>1 DEF IInv, RisingInv, r
<1>11. at' <= Len(relocs) + 1
  BY <1>1, <1>2
<1>12. WriteInv'
  BY <1>1, <1>9, <1>10, <1>11 DEF WriteInv
<1> QED BY <1>1, <1>12 DEF IInv, EmitInv, RisingInv, ReadInv, PrefixInv, EndInv

LEMMA WriteEndKeeps ==
  ASSUME TypeOK, InOrder, IInv, WriteEnd, TypeOK' PROVE IInv'
<1>1. /\ phase = "write" /\ phase' = "read" /\ at \notin DOMAIN relocs
      /\ file' = Append(file, 0) /\ prev' = -1
      /\ UNCHANGED <<prog, at, relocs, pos, items>>
      /\ relocs \in Seq(Relocs) /\ file \in Seq(0 .. Byte - 1)
      /\ pos = 0 /\ items = <<>> /\ at \in Nat \ {0}
  BY DEF WriteEnd, BeforeFirst, TypeOK, Relocs, RelocKinds, IInv, PrefixInv
<1>2. at - 1 = Len(relocs)
  BY <1>1, SMTT(60) DEF IInv, WriteInv
<1>3. PICK B : Written(B)
  BY <1>1 DEF IInv, WriteInv
<1>4. /\ Len(file') = Len(file) + 1 /\ Len(file) \in Nat /\ file'[Len(file) + 1] = 0
      /\ \A i \in 1 .. Len(file) : file'[i] = file[i]
  BY <1>1
<1>5. /\ B \subseteq Places /\ <<0, -1, 0>> \in B
      /\ \A b \in B : b = Here \/ Follows(relocs, file, b, B)
  BY <1>3 DEF Written
<1>6. EndAt(relocs, file', Here)
  BY <1>2, <1>4 DEF EndAt, Here
<1>7. \A b \in B : EndAt(relocs', file', b) \/ Follows(relocs', file', b, B)
  <2> TAKE b \in B
  <2>1. CASE b = Here
    BY <1>1, <1>6, <2>1
  <2>2. CASE b # Here
    <3>1. b \in Places /\ Follows(relocs, file, b, B) /\ Len(file) <= Len(file')
          /\ Len(file') \in Nat /\ B \subseteq B
      BY <1>4, <1>5, <2>2
    <3>2. Follows(relocs, file', b, B)
      BY <1>4, <3>1, FollowsOn
    <3> QED BY <1>1, <3>2
  <2> QED BY <2>1, <2>2
<1>8. There' = <<0, -1, 0>>
  BY <1>1 DEF There
<1>9. Ready(B)'
  BY <1>5, <1>7, <1>8 DEF Ready
<1>10. ReadInv'
  BY <1>9 DEF ReadInv
<1> QED BY <1>1, <1>10 DEF IInv, EmitInv, RisingInv, WriteInv, PrefixInv, EndInv

-----------------------------------------------------------------------------
(* The linker *)

\* What the reader sees at a skip, at an entry and at the end.
LEMMA AtSkip ==
  ASSUME TypeOK, SkipAt(relocs, file, There) PROVE Field(1) = Byte - 1 /\ More(1)
<1>1. There[1] = pos /\ pos \in Nat /\ Len(file) \in Nat
  BY DEF There, TypeOK
<1> QED BY <1>1 DEF SkipAt, Field, More

LEMMA AtEntry ==
  ASSUME TypeOK, EntryAt(relocs, file, There),
         NEW r, r = relocs[Len(items) + 1]
  PROVE  /\ Len(items) < Len(relocs) /\ r \in Relocs
         /\ Field(1) = r.offset - prev /\ Field(1) \in 1 .. Byte - 2
         /\ More(1) /\ More(3) /\ More(EntrySize)
         /\ EntrySize = Width(r) /\ KindRead = r.kind
<1>1. /\ There[1] = pos /\ There[2] = prev /\ There[3] = Len(items)
      /\ pos \in Nat /\ Len(file) \in Nat /\ Len(items) \in Nat /\ prev \in Int
      /\ relocs \in Seq(Relocs)
  BY DEF There, TypeOK, Relocs, RelocKinds
<1>2. Len(items) < Len(relocs) /\ EntryOf(relocs, file, There, r)
  BY <1>1 DEF EntryAt
<1>3. r \in Relocs
  BY <1>1, <1>2
<1>4. r.kind \in RelocKinds
  BY <1>3 DEF Relocs
<1> DEFINE F == Fields(r.kind)
<1>5. /\ r.offset - prev \in 1 .. Byte - 2 /\ pos + (1 + Len(F)) <= Len(file)
      /\ file[pos + 1] = r.offset - prev
      /\ \A k \in 1 .. Len(F) : file[pos + 1 + k] = F[k]
  BY <1>1, <1>2 DEF EntryOf, Width
<1>6. Field(1) = r.offset - prev /\ Field(1) \in 1 .. Byte - 2
  BY <1>5 DEF Field
<1>7. ASSUME Len(F) \in {2, 3, 4}
      PROVE  Field(2) = F[1] /\ Field(3) = F[2] /\ More(1) /\ More(3)
  <2>1. file[pos + 1 + 1] = F[1] /\ file[pos + 1 + 2] = F[2]
    BY <1>5, <1>7
  <2>2. pos + 1 + 1 = pos + 2 /\ pos + 1 + 2 = pos + 3
    BY <1>1
  <2>3. More(1) /\ More(3)
    <3>1. pos + (1 + Len(F)) <= Len(file)
      BY <1>5, Zenon
    <3>2. \A n \in {2, 3, 4} : n \in Nat /\ n >= 2
      OBVIOUS
    <3>3. Len(F) \in Nat /\ Len(F) >= 2
      BY <1>7, <3>2, Zenon
    <3> HIDE DEF F
    <3> QED BY <1>1, <3>1, <3>3 DEF More
  <2> QED BY <2>1, <2>2, <2>3 DEF Field
<1>8. /\ Len(F) \in {2, 3, 4} /\ EntrySize = 1 + Len(F) /\ KindRead = r.kind
  <2>1. CASE r.kind = "import"
    <3>1. F = <<1, 0, 0, 0>>
      BY <2>1 DEF Fields
    <3>2. Len(F) = 4 /\ F[1] = 1 /\ F[2] = 0
      BY <3>1
    <3> HIDE DEF F
    <3>3. Field(2) = 1 /\ Field(3) = 0
      BY <1>7, <3>2
    <3> QED BY <2>1, <3>2, <3>3 DEF EntrySize, KindRead
  <2>2. CASE r.kind = "half"
    <3>1. F = <<2, 2, 1>>
      BY <2>2 DEF Fields
    <3>2. Len(F) = 3 /\ F[1] = 2 /\ F[2] = 2
      BY <3>1
    <3> HIDE DEF F
    <3>3. Field(2) = 2 /\ Field(3) = 2
      BY <1>7, <3>2
    <3> QED BY <2>2, <3>2, <3>3 DEF EntrySize, KindRead
  <2>3. CASE r.kind = "word"
    <3>1. F = <<1, 2>>
      BY <2>3 DEF Fields
    <3>2. Len(F) = 2 /\ F[1] = 1 /\ F[2] = 2
      BY <3>1
    <3> HIDE DEF F
    <3>3. Field(2) = 1 /\ Field(3) = 2
      BY <1>7, <3>2
    <3> QED BY <2>3, <3>2, <3>3 DEF EntrySize, KindRead
  <2> QED BY <1>4, <2>1, <2>2, <2>3 DEF RelocKinds
<1>9. More(EntrySize)
  BY <1>5, <1>8 DEF More
<1> QED BY <1>2, <1>3, <1>6, <1>7, <1>8, <1>9 DEF Width

LEMMA AtEnd ==
  ASSUME TypeOK, EndAt(relocs, file, There)
  PROVE  Field(1) = 0 /\ More(1) /\ Len(items) = Len(relocs) /\ Len(file) = pos + 1
<1>1. There[1] = pos /\ There[3] = Len(items) /\ pos \in Nat /\ Len(file) \in Nat
  BY DEF There, TypeOK
<1> QED BY <1>1 DEF EndAt, Field, More

LEMMA Onward ==
  ASSUME NEW B, Ready(B), There' \in B, relocs' = relocs, file' = file
  PROVE  Ready(B)'
BY DEF Ready

LEMMA ReadSkipKeeps ==
  ASSUME TypeOK, InOrder, IInv, ReadSkip PROVE IInv'
<1>1. /\ phase = "read" /\ phase' = "read" /\ Field(1) = Byte - 1
      /\ prev' = prev + Byte - 2 /\ pos' = pos + 1
      /\ UNCHANGED <<prog, at, relocs, file, items>> /\ Byte \in Nat /\ Byte >= 4
  BY ByteAssumption DEF ReadSkip
<1>2. PICK B : Ready(B)
  BY <1>1 DEF IInv, ReadInv
<1>3. EndAt(relocs, file, There) \/ Follows(relocs, file, There, B)
  BY <1>2 DEF Ready
<1>4. ~EndAt(relocs, file, There)
  BY <1>1, AtEnd
<1>5. ~EntryAt(relocs, file, There)
  <2> SUFFICES ASSUME EntryAt(relocs, file, There) PROVE FALSE
    OBVIOUS
  <2>1. Field(1) \in 1 .. Byte - 2
    BY AtEntry
  <2> QED BY <1>1, <2>1
<1>6. AfterSkip(There) \in B
  BY <1>3, <1>4, <1>5 DEF Follows
<1>7. There' = AfterSkip(There)
  BY <1>1 DEF There, AfterSkip
<1>8. Ready(B)'
  BY <1>1, <1>2, <1>6, <1>7, Onward
<1>9. ReadInv'
  BY <1>8 DEF ReadInv
<1> QED BY <1>1, <1>9 DEF IInv, EmitInv, RisingInv, WriteInv, PrefixInv, EndInv

LEMMA ReadEntryKeeps ==
  ASSUME TypeOK, InOrder, IInv, ReadEntry PROVE IInv'
<1> DEFINE r == relocs[Len(items) + 1]
           item == [offset |-> prev + Field(1), kind |-> KindRead]
<1>1. /\ phase = "read" /\ phase' = "read" /\ Field(1) \notin {0, Byte - 1}
      /\ prev' = prev + Field(1) /\ items' = Append(items, item) /\ pos' = pos + EntrySize
      /\ UNCHANGED <<prog, phase, at, relocs, file>>
      /\ prev \in Int /\ relocs \in Seq(Relocs)
      /\ items \in Seq([offset: Int, kind: {"word", "half", "import"}])
  BY DEF ReadEntry, TypeOK, Relocs, RelocKinds
<1>2. PICK B : Ready(B)
  BY <1>1 DEF IInv, ReadInv
<1>3. EndAt(relocs, file, There) \/ Follows(relocs, file, There, B)
  BY <1>2 DEF Ready
<1>4. ~EndAt(relocs, file, There)
  BY <1>1, AtEnd
<1>5. ~SkipAt(relocs, file, There)
  BY <1>1, AtSkip
<1>6. EntryAt(relocs, file, There) /\ AfterEntry(relocs, There) \in B
  BY <1>3, <1>4, <1>5 DEF Follows
<1>7. /\ Len(items) < Len(relocs) /\ r \in Relocs /\ Field(1) = r.offset - prev
      /\ EntrySize = Width(r) /\ KindRead = r.kind
  BY <1>6, AtEntry
<1> HIDE DEF r
<1>8. r.offset \in Nat /\ r = [offset |-> r.offset, kind |-> r.kind]
  BY <1>7 DEF Relocs
<1>9. prev + Field(1) = r.offset
  BY <1>1, <1>7, <1>8
<1>10. item = r
  BY <1>7, <1>8, <1>9
<1> HIDE DEF item
<1>11. /\ Len(items') = Len(items) + 1 /\ Len(items) \in Nat /\ items'[Len(items) + 1] = r
       /\ \A k \in 1 .. Len(items) : items'[k] = items[k]
  BY <1>1, <1>10
<1>12. There' = AfterEntry(relocs, There)
  BY <1>1, <1>7, <1>9, <1>11 DEF There, AfterEntry, r
<1>13. Ready(B)'
  BY <1>1, <1>2, <1>6, <1>12, Onward
<1>14. ReadInv'
  BY <1>13 DEF ReadInv
<1>15. PrefixInv'
  <2>1. Len(relocs) \in Nat
    BY <1>1
  <2>2. Len(items') <= Len(relocs)
    BY <1>7, <1>11, <2>1
  <2>3. \A k \in 1 .. Len(items') : items'[k] = relocs[k]
    <3> TAKE k \in 1 .. Len(items')
    <3>1. k \in 1 .. Len(items) \/ k = Len(items) + 1
      BY <1>11
    <3> QED BY <1>11, <3>1 DEF IInv, PrefixInv, r
  <2> QED BY <1>1, <2>2, <2>3 DEF PrefixInv
<1> QED BY <1>1, <1>14, <1>15 DEF IInv, EmitInv, RisingInv, WriteInv, EndInv

LEMMA ReadEndKeeps ==
  ASSUME TypeOK, InOrder, IInv, ReadEnd PROVE IInv'
<1>1. /\ phase = "read" /\ phase' = "done" /\ Field(1) = 0 /\ pos' = pos + 1
      /\ UNCHANGED <<prog, at, relocs, prev, file, items>> /\ Byte \in Nat /\ Byte >= 4
  BY ByteAssumption DEF ReadEnd
<1>2. PICK B : Ready(B)
  BY <1>1 DEF IInv, ReadInv
<1>3. EndAt(relocs, file, There) \/ Follows(relocs, file, There, B)
  BY <1>2 DEF Ready
<1>4. ~SkipAt(relocs, file, There)
  BY <1>1, AtSkip
<1>5. ~EntryAt(relocs, file, There)
  <2> SUFFICES ASSUME EntryAt(relocs, file, There) PROVE FALSE
    OBVIOUS
  <2>1. Field(1) \in 1 .. Byte - 2
    BY AtEntry
  <2> QED BY <1>1, <2>1
<1>6. Len(items) = Len(relocs) /\ Len(file) = pos + 1
  BY <1>3, <1>4, <1>5, AtEnd DEF Follows
<1> QED BY <1>1, <1>6 DEF IInv, EmitInv, RisingInv, WriteInv, ReadInv, PrefixInv, EndInv

LEMMA NeverTruncated ==
  ASSUME TypeOK, InOrder, IInv, phase = "read" PROVE ~Truncated
<1>1. PICK B : Ready(B)
  BY DEF IInv, ReadInv
<1>2. EndAt(relocs, file, There) \/ Follows(relocs, file, There, B)
  BY <1>1 DEF Ready
<1>3. CASE EndAt(relocs, file, There)
  BY <1>3, AtEnd DEF Truncated, WholeEntry
<1>4. CASE SkipAt(relocs, file, There)
  BY <1>4, AtSkip DEF Truncated, WholeEntry
<1>5. CASE EntryAt(relocs, file, There)
  BY <1>5, AtEntry DEF Truncated, WholeEntry
<1> QED BY <1>2, <1>3, <1>4, <1>5 DEF Follows

LEMMA StepKeeps ==
  ASSUME TypeOK, OrderInv, [Next]_vars PROVE OrderInv'
<1>1. prog' = prog
  BY DEF Next, vars, Emit, EndEmit, WriteSkip, WriteEntry, WriteEnd, ReadSkip, ReadEntry,
         ReadEnd, ReadFail
<1>2. InOrder' = InOrder
  BY <1>1 DEF InOrder, Offset, PackedBase, FirstOf, SizeOfAll
<1> SUFFICES ASSUME InOrder PROVE IInv'
  BY <1>2 DEF OrderInv
<1>3. IInv /\ TypeOK'
  BY TypeStep DEF OrderInv
<1>4. CASE Emit
  BY <1>3, <1>4, EmitKeeps
<1>5. CASE EndEmit
  BY <1>3, <1>5, EndEmitKeeps
<1>6. CASE WriteSkip
  BY <1>3, <1>6, WriteSkipKeeps
<1>7. CASE WriteEntry
  BY <1>3, <1>7, WriteEntryKeeps
<1>8. CASE WriteEnd
  BY <1>3, <1>8, WriteEndKeeps
<1>9. CASE ReadSkip
  BY <1>3, <1>9, ReadSkipKeeps
<1>10. CASE ReadEntry
  BY <1>3, <1>10, ReadEntryKeeps
<1>11. CASE ReadEnd
  BY <1>3, <1>11, ReadEndKeeps
<1>12. CASE ReadFail
  BY <1>3, <1>12, NeverTruncated DEF ReadFail
<1>13. CASE UNCHANGED vars
  <2>1. UNCHANGED <<prog, phase, at, relocs, prev, file, pos, items>>
    BY <1>13 DEF vars
  <2>2. \A n : Offset(n)' = Offset(n)
    BY <2>1 DEF Offset, PackedBase, FirstOf, SizeOfAll
  <2>3. EmitInv'
    BY <1>3, <2>1, <2>2 DEF IInv, EmitInv
  <2>4. WriteInv' /\ ReadInv'
    BY <1>3, <2>1 DEF IInv, WriteInv, ReadInv, Written, Here, Ready, There
  <2> QED BY <1>3, <2>1, <2>3, <2>4 DEF IInv, RisingInv, PrefixInv, EndInv
<1> QED
  BY <1>4, <1>5, <1>6, <1>7, <1>8, <1>9, <1>10, <1>11, <1>12, <1>13 DEF Next

LEMMA InStep == ASSUME TypeOK, OrderInv PROVE ReadsBack
<1> SUFFICES ASSUME InOrder
             PROVE  /\ IsPrefix(items, relocs)
                    /\ phase = "done" => items = relocs /\ pos = Len(file)
                    /\ phase # "eof"
  BY DEF ReadsBack
<1>1. IInv
  BY DEF OrderInv
<1>2. /\ items \in Seq([offset: Int, kind: {"word", "half", "import"}])
      /\ relocs \in Seq(Relocs) /\ Len(items) \in Nat /\ Len(relocs) \in Nat
  BY DEF TypeOK, Relocs, RelocKinds
<1>3. Len(items) <= Len(relocs) /\ \A k \in 1 .. Len(items) : items[k] = relocs[k]
  BY <1>1 DEF IInv, PrefixInv
<1>4. IsPrefix(items, relocs)
  <2>1. SubSeq(items, 1, Len(items)) = [k \in 1 .. Len(items) |-> items[k]]
    BY <1>2
  <2>2. SubSeq(relocs, 1, Len(items)) = [k \in 1 .. Len(items) |-> relocs[k]]
    BY <1>2, <1>3
  <2> QED BY <1>3, <2>1, <2>2 DEF IsPrefix
<1>5. phase = "done" => items = relocs /\ pos = Len(file)
  BY <1>1, <1>2, <1>3 DEF IInv, EndInv
<1> QED BY <1>1, <1>4, <1>5 DEF IInv, EndInv

-----------------------------------------------------------------------------
\* The list, the file and what is read of it hold numbers and kinds the C
\* variables and bytes can hold, whatever the program
\* (o65.c, write_reloc_table; n65ld_input.c, parse_reloc_table_old).
THEOREM RelocTyped == Spec => []TypeOK
<1>1. TypeOK /\ [Next]_vars => TypeOK'
  BY TypeStep
<1> QED BY <1>1, TypeInit, PTL DEF Spec

\* The linker reads the relocations that the assembler recorded, in their
\* order, and comes to the end of the table with all of them, if the relocated
\* statements of the program come in the order of their places: whatever there is
\* between them, from the first byte of the segment on (o65.c, write_reloc_table;
\* n65ld_input.c, parse_reloc_table_old).
THEOREM TableReadsBack == Spec => []ReadsBack
<1>1. Spec => []TypeOK
  BY RelocTyped
<1>2. TypeOK /\ OrderInv /\ [Next]_vars => OrderInv'
  BY StepKeeps
<1>3. TypeOK /\ OrderInv => ReadsBack
  BY InStep
<1> QED BY <1>1, <1>2, <1>3, Starts, PTL DEF Spec
================================================================================
