---------------------------- MODULE LinkLayoutProofs ----------------------------
(***************************************************************************)
(* What the linker places does not overlap; it fails exactly when a region *)
(* is full; every reference in the image is the address of its label; the  *)
(* start-up code that walks the tables the linker wrote stays in the data; *)
(* and main finds its memory as the objects describe it.  For any          *)
(* configuration of separate regions and any objects.                      *)
(***************************************************************************)
EXTENDS Startup, Sums, WellFoundedInduction, TLAPS, FiniteSetTheorems

\* A set of numbers has a least one: the induction of the proofs below.
LEMMA FirstIn ==
  ASSUME NEW S, S \subseteq Nat, S # {}
  PROVE  \E i \in S : \A j \in S : i <= j
<1> DEFINE R == {p \in Nat \X Nat : p[1] < p[2]}
<1>1. IsWellFoundedOn(R, Nat)
  BY NatLessThanWellFounded DEF OpToRel
<1>2. \A i, j \in Nat : <<j, i>> \in R <=> j < i
  OBVIOUS
<1> HIDE DEF R
<1>3. \E i \in S : \A j \in S : ~(<<j, i>> \in R)
  BY <1>1, WFMin
<1>4. \A i, j \in S : ~(<<j, i>> \in R) => i <= j
  BY <1>2
<1> QED BY <1>3, <1>4

-----------------------------------------------------------------------------
\* The sum of a list of numbers, which Sums computes from the left
IsTotals(t, f, m) == t = [k \in 0 .. m |-> IF k = 0 THEN 0 ELSE t[k - 1] + f[k]]

\* The running totals exist,
LEMMA TotalsExist ==
  ASSUME NEW f, NEW m \in Nat
  PROVE  \E t : IsTotals(t, f, m)
<1> DEFINE Bad == {n \in Nat : ~ \E t : IsTotals(t, f, n)}
<1>1. SUFFICES ASSUME Bad # {} PROVE FALSE
  OBVIOUS
<1>2. PICK n \in Bad : \A k \in Bad : n <= k
  <2> HIDE DEF Bad
  <2>1. Bad \subseteq Nat
    BY DEF Bad
  <2> QED BY <1>1, <2>1, FirstIn
<1>3. n # 0
  <2>1. IsTotals([k \in 0 .. 0 |-> 0], f, 0)
    BY DEF IsTotals
  <2> QED BY <2>1
<1>4. PICK t : IsTotals(t, f, n - 1)
  <2>1. n - 1 \in Nat /\ ~(n <= n - 1)
    BY <1>3
  <2> QED BY <1>2, <2>1
<1> DEFINE entry(g, k) == IF k = 0 THEN 0 ELSE g[k - 1] + f[k]
           more == [k \in 0 .. n |-> IF k < n THEN t[k] ELSE entry(t, n)]
<1>5. \A k \in 0 .. n - 1 : t[k] = entry(t, k)
  BY <1>4 DEF IsTotals
<1>6. \A k \in 0 .. n : more[k] = entry(more, k)
  <2> TAKE k \in 0 .. n
  <2>1. k # 0 => more[k - 1] = t[k - 1]
    <3> HIDE DEF entry
    <3> QED OBVIOUS
  <2>2. entry(more, k) = entry(t, k)
    <3> HIDE DEF more
    <3> QED BY <2>1
  <2>3. more[k] = entry(t, k)
    <3> HIDE DEF entry
    <3> QED BY <1>5
  <2> QED BY <2>2, <2>3
<1>7. IsTotals(more, f, n)
  <2>1. more = [k \in 0 .. n |-> more[k]]
    OBVIOUS
  <2>2. [k \in 0 .. n |-> entry(more, k)] = [k \in 0 .. n |-> more[k]]
    <3> HIDE DEF more, entry
    <3> QED BY <1>6
  <2> HIDE DEF more
  <2> QED BY <2>1, <2>2 DEF IsTotals
<1> QED BY <1>7

\* and Sums computes them.
LEMMA TotalsLaw ==
  ASSUME NEW f, NEW n \in Nat
  PROVE  /\ Totals(f, n)[0] = 0
         /\ \A k \in 1 .. n : Totals(f, n)[k] = Totals(f, n)[k - 1] + f[k]
<1> DEFINE t == CHOOSE g : IsTotals(g, f, n)
<1>1. IsTotals(t, f, n)
  <2>1. \E g : IsTotals(g, f, n)
    BY TotalsExist
  <2> QED BY <2>1
<1>2. Totals(f, n) = t
  BY DEF Totals, IsTotals
<1> HIDE DEF t
<1> QED BY <1>1, <1>2 DEF IsTotals

\* The sum grows from number to number.
LEMMA TotalsRise ==
  ASSUME NEW n \in Nat, NEW f \in [1 .. n -> Nat], NEW i \in 0 .. n
  PROVE  /\ Totals(f, n)[i] \in Nat /\ Total(f, n) \in Nat
         /\ Totals(f, n)[i] <= Total(f, n)
<1> DEFINE F(k) == Totals(f, n)[k]
           Good(k) == F(k) \in Nat /\ (i <= k => F(i) \in Nat /\ F(i) <= F(k))
           Bad == {k \in 0 .. n : ~Good(k)}
<1>1. F(0) = 0 /\ \A k \in 1 .. n : F(k) = F(k - 1) + f[k]
  BY TotalsLaw
<1> HIDE DEF F
<1>2. Bad = {}
  <2> SUFFICES ASSUME Bad # {} PROVE FALSE
    OBVIOUS
  <2>1. PICK k \in Bad : \A j \in Bad : k <= j
    <3> HIDE DEF Good
    <3>1. Bad \subseteq Nat
      OBVIOUS
    <3> HIDE DEF Bad
    <3> QED BY <3>1, FirstIn
  <2>2. k \in 1 .. n
    BY <1>1
  <2>3. Good(k - 1)
    <3> HIDE DEF Good
    <3> QED BY <2>1, <2>2
  <2>4. f[k] \in Nat /\ F(k) = F(k - 1) + f[k]
    BY <1>1, <2>2
  <2>5. i <= k => i <= k - 1 \/ i = k
    BY <2>2
  <2>6. Good(k)
    BY <2>3, <2>4, <2>5
  <2> QED BY <2>6
<1>3. Good(n) /\ Good(i) /\ i <= n
  <2>1. n \in 0 .. n
    OBVIOUS
  <2>2. i <= n
    OBVIOUS
  <2> HIDE DEF Good
  <2> QED BY <1>2, <2>1, <2>2
<1> QED BY <1>3 DEF Total, F

-----------------------------------------------------------------------------
\* Address arithmetic: there is room for the vectors, and nothing wraps below.
LEMMA SpaceNat == Space \in Nat /\ Space >= 9 /\ VectorTable \in Nat /\ VectorTable < Space
<1>1. Byte \in Nat /\ Byte >= 3
  BY ByteAssumption
<1>2. Byte * Byte >= 3 * Byte
  BY <1>1
<1> QED BY <1>1, <1>2 DEF Space, VectorTable

\* Remainders: of what is small, and in general.
LEMMA ModSmall ==
  ASSUME NEW S \in Nat, NEW x \in 0 .. S - 1
  PROVE  x % S = x
OBVIOUS

\* A remainder is below the divisor.
LEMMA ModRange ==
  ASSUME NEW S \in Nat \ {0}, NEW x \in Int
  PROVE  x % S \in Nat
OBVIOUS

-----------------------------------------------------------------------------
\* The buffers of an object file are sequences: FlattenSeq has a value for
\* sequences of every length, by least counterexample.
Joined(joined, seqs, n) ==
  joined = [i \in 1 .. n |-> IF i = 1 THEN seqs[i] ELSE joined[i - 1] \o seqs[i]]

\* The lists joined from the left exist.
LEMMA JoinedExists ==
  ASSUME NEW seqs, NEW len \in Nat
  PROVE  \E joined : Joined(joined, seqs, len)
<1> DEFINE Bad == {n \in Nat : ~ \E joined : Joined(joined, seqs, n)}
<1>1. SUFFICES ASSUME Bad # {} PROVE FALSE
  OBVIOUS
<1>2. PICK n \in Bad : \A m \in Bad : n <= m
  <2> HIDE DEF Bad
  <2>1. Bad \subseteq Nat
    BY DEF Bad
  <2> QED BY <1>1, <2>1, FirstIn
<1>3. n # 0
  <2>1. Joined([i \in 1 .. 0 |-> seqs], seqs, 0)
    BY DEF Joined
  <2> QED BY <2>1
<1>4. PICK joined : Joined(joined, seqs, n - 1)
  <2>1. n - 1 \in Nat /\ ~(n <= n - 1)
    BY <1>3
  <2> QED BY <1>2, <2>1
<1> DEFINE more == [i \in 1 .. n |-> IF i < n THEN joined[i]
                      ELSE IF i = 1 THEN seqs[i] ELSE joined[i - 1] \o seqs[i]]
<1>5. \A i \in 1 .. n - 1 : joined[i] = IF i = 1 THEN seqs[i] ELSE joined[i - 1] \o seqs[i]
  BY <1>4 DEF Joined
<1>6. \A i \in 1 .. n : more[i] = IF i = 1 THEN seqs[i] ELSE more[i - 1] \o seqs[i]
  <2> TAKE i \in 1 .. n
  <2>1. CASE i < n
    <3>1. i \in 1 .. n - 1 /\ more[i] = joined[i] /\ (i # 1 => more[i - 1] = joined[i - 1])
      BY <2>1
    <3> HIDE DEF more
    <3> QED BY <3>1, <1>5
  <2>2. CASE i = n
    <3>1. more[i] = (IF i = 1 THEN seqs[i] ELSE joined[i - 1] \o seqs[i])
      BY <2>2
    <3>2. i # 1 => more[i - 1] = joined[i - 1]
      BY <2>2, <1>3
    <3> HIDE DEF more
    <3> QED BY <3>1, <3>2
  <2> QED BY <2>1, <2>2
<1>7. more = [i \in 1 .. n |-> more[i]]
  OBVIOUS
<1>8. Joined(more, seqs, n)
  <2> HIDE DEF more
  <2> DEFINE rhs == [i \in 1 .. n |-> IF i = 1 THEN seqs[i] ELSE more[i - 1] \o seqs[i]]
  <2>1. rhs = [i \in 1 .. n |-> more[i]]
    BY <1>6
  <2> QED BY <2>1, <1>7 DEF Joined
<1> QED BY <1>8

\* It is a sequence of what the parts hold.
LEMMA JoinedSeq ==
  ASSUME NEW S, NEW seqs \in Seq(Seq(S)), NEW joined, Joined(joined, seqs, Len(seqs))
  PROVE  \A i \in 1 .. Len(seqs) : joined[i] \in Seq(S)
<1> DEFINE Bad == {i \in 1 .. Len(seqs) : joined[i] \notin Seq(S)}
<1>1. SUFFICES ASSUME Bad # {} PROVE FALSE
  OBVIOUS
<1>2. PICK i \in Bad : \A j \in Bad : i <= j
  <2> HIDE DEF Bad
  <2>1. Bad \subseteq Nat
    BY DEF Bad
  <2> QED BY <1>1, <2>1, FirstIn
<1>3. joined[i] = IF i = 1 THEN seqs[i] ELSE joined[i - 1] \o seqs[i]
  BY <1>2 DEF Joined
<1>4. i # 1 => joined[i - 1] \in Seq(S)
  BY <1>2
<1>5. seqs[i] \in Seq(S)
  BY <1>2
<1>6. joined[i] \in Seq(S)
  BY <1>3, <1>4, <1>5
<1> QED BY <1>2, <1>6

\* So is FlattenSeq.
LEMMA FlattenIsSeq ==
  ASSUME NEW S, NEW seqs \in Seq(Seq(S))
  PROVE  FlattenSeq(seqs) \in Seq(S)
<1> DEFINE joined == CHOOSE f : Joined(f, seqs, Len(seqs))
<1>1. Joined(joined, seqs, Len(seqs))
  <2>1. Len(seqs) \in Nat
    OBVIOUS
  <2>2. \E f : Joined(f, seqs, Len(seqs))
    BY <2>1, JoinedExists
  <2> QED BY <2>2
<1>2. FlattenSeq(seqs) = IF Len(seqs) = 0 THEN seqs ELSE joined[Len(seqs)]
  BY DEF FlattenSeq, Joined
<1> HIDE DEF joined
<1>3. CASE Len(seqs) = 0
  <2>1. seqs = <<>>
    BY <1>3
  <2> QED BY <1>2, <1>3, <2>1
<1>4. CASE Len(seqs) # 0
  <2>1. Len(seqs) \in 1 .. Len(seqs)
    BY <1>4
  <2> QED BY <1>1, <1>2, <1>4, <2>1, JoinedSeq
<1> QED BY <1>3, <1>4

\* The buffers of an object file are sequences of bytes.
LEMMA BufferIsSeq ==
  ASSUME NEW segs \in Seq(Segments), NEW b
  PROVE  Buffer(segs, b) \in Seq(0 .. Byte - 1)
<1> DEFINE bytes == [k \in DOMAIN segs |-> IF ImageSeg(segs[k]) = b THEN segs[k].bytes ELSE <<>>]
<1>1. \A k \in DOMAIN segs : segs[k] \in Segments
  OBVIOUS
<1>2. \A k \in DOMAIN segs : segs[k].bytes \in Seq(0 .. Byte - 1)
  BY <1>1 DEF Segments
<1>3. bytes \in Seq(Seq(0 .. Byte - 1))
  <2>1. DOMAIN segs = 1 .. Len(segs) /\ Len(segs) \in Nat
    OBVIOUS
  <2>2. \A k \in 1 .. Len(segs) : bytes[k] \in Seq(0 .. Byte - 1)
    <3>1. <<>> \in Seq(0 .. Byte - 1)
      OBVIOUS
    <3>2. \A k \in 1 .. Len(segs) :
            bytes[k] = IF ImageSeg(segs[k]) = b THEN segs[k].bytes ELSE <<>>
      BY <2>1
    <3> HIDE DEF bytes
    <3> QED BY <1>2, <2>1, <3>1, <3>2
  <2>3. bytes = [k \in 1 .. Len(segs) |-> bytes[k]]
    BY <2>1
  <2> HIDE DEF bytes
  <2> QED BY <2>1, <2>2, <2>3
<1>4. Buffer(segs, b) = FlattenSeq(bytes)
  BY DEF Buffer
<1> HIDE DEF bytes
<1> QED BY <1>3, <1>4, FlattenIsSeq

\* The length of a buffer is a number.
LEMMA LengthNat ==
  ASSUME NEW segs \in Seq(Segments), NEW b
  PROVE  Length(segs, b) \in Nat
<1>1. Buffer(segs, b) \in Seq(0 .. Byte - 1)
  BY BufferIsSeq
<1> QED BY <1>1 DEF Length

-----------------------------------------------------------------------------
\* What alloc_from_region keeps, region by region: the cursor stays inside, and what
\* has been placed lies below it without overlaps.
Regions(mem) ==
  \A r \in DOMAIN mem : /\ mem[r].start \in Nat /\ mem[r].size \in Nat
                        /\ mem[r].start <= Space - 1
                        /\ r # "ROM" => mem[r].start + mem[r].size <= VectorTable

RoomIn(mem, c, r, n) ==
  /\ r \in DOMAIN mem
  /\ c[r] + n <= Space
  /\ c[r] + n <= mem[r].start + mem[r].size
  /\ r = "ROM" => c[r] + n <= VectorTable

Cursors(mem, c) ==
  /\ c \in [DOMAIN mem -> 0 .. Space - 1]
  /\ \A r \in DOMAIN mem : /\ mem[r].start <= c[r]
                           /\ c[r] <= mem[r].start + mem[r].size
                           /\ r = "ROM" => c[r] <= VectorTable \/ c[r] = mem[r].start

Apart(b, d) == b.from + b.size <= d.from \/ d.from + d.size <= b.from
Packed(D, mem, c) ==
  /\ \A b \in D : /\ b.region \in DOMAIN mem /\ b.from \in Nat /\ b.size \in Nat
                  /\ mem[b.region].start <= b.from /\ b.from + b.size <= c[b.region]
                  /\ b.region = "ROM" => c["ROM"] <= VectorTable
  /\ \A b, d \in D : b # d /\ b.region = d.region => Apart(b, d)

\* The 16-bit cursor does not wrap.
LEMMA AdvanceKeeps ==
  ASSUME NEW mem, NEW c, NEW r, NEW n \in Nat,
         Regions(mem), Cursors(mem, c), RoomIn(mem, c, r, n)
  PROVE  /\ Advance(c, r, n) = [c EXCEPT ![r] = c[r] + n]
         /\ Cursors(mem, Advance(c, r, n))
<1>1. c \in [DOMAIN mem -> 0 .. Space - 1] /\ c[r] \in 0 .. Space - 1 /\ r \in DOMAIN mem
  BY DEF Cursors, RoomIn
<1>2. Space \in Nat /\ VectorTable \in Nat /\ VectorTable < Space
  BY SpaceNat
<1>3. c[r] + n <= VectorTable /\ c[r] + n <= mem[r].start + mem[r].size /\ mem[r].start <= c[r]
      /\ mem[r].start \in Nat /\ mem[r].size \in Nat
  BY <1>1, <1>2 DEF Regions, RoomIn, Cursors
<1>4. c[r] + n \in 0 .. Space - 1
  BY <1>1, <1>2, <1>3
<1>5. (c[r] + n) % Space = c[r] + n
  BY <1>2, <1>4, ModSmall
<1>6. Advance(c, r, n) = [c EXCEPT ![r] = c[r] + n]
  BY <1>5 DEF Advance
<1> DEFINE d == [c EXCEPT ![r] = c[r] + n]
<1>7. d \in [DOMAIN mem -> 0 .. Space - 1]
  BY <1>1, <1>4
<1>8. d[r] = c[r] + n /\ \A q \in DOMAIN mem \ {r} : d[q] = c[q]
  BY <1>1
<1> HIDE DEF d
<1>9. mem[r].start <= d[r] /\ d[r] <= mem[r].start + mem[r].size /\ d[r] <= VectorTable
  BY <1>1, <1>2, <1>3, <1>8
<1>10. Cursors(mem, d)
  BY <1>7, <1>8, <1>9 DEF Cursors
<1> QED BY <1>6, <1>10 DEF d

\* A block at the cursor packs with those below it.
LEMMA PackMore ==
  ASSUME NEW mem, NEW c, NEW r, NEW n \in Nat, NEW D, NEW id,
         Regions(mem), Cursors(mem, c), RoomIn(mem, c, r, n), Packed(D, mem, c)
  PROVE  Packed(D \cup {Block(id, r, c[r], n)}, mem, Advance(c, r, n))
<1> DEFINE b == Block(id, r, c[r], n)
           to == Advance(c, r, n)
<1>1. b.region = r /\ b.from = c[r] /\ b.size = n
  BY DEF Block
<1>2. c \in [DOMAIN mem -> 0 .. Space - 1] /\ r \in DOMAIN mem /\ Space \in Nat
      /\ mem[r].start <= c[r]
  BY SpaceNat DEF Cursors, RoomIn
<1>3. to = [c EXCEPT ![r] = c[r] + n]
  BY AdvanceKeeps
<1>4. to[r] = c[r] + n /\ \A q \in DOMAIN mem \ {r} : to[q] = c[q]
  BY <1>2, <1>3
<1> HIDE DEF b, to
<1>5. \A q \in DOMAIN mem : c[q] \in Nat /\ c[q] <= to[q]
  BY <1>2, <1>4
<1>6. \A d \in D : /\ d.region \in DOMAIN mem /\ d.from \in Nat /\ d.size \in Nat
                   /\ mem[d.region].start <= d.from /\ d.from + d.size <= c[d.region]
  BY DEF Packed
<1>7. \A d \in D : d.from + d.size <= to[d.region]
  <2> TAKE d \in D
  <2>1. d.from + d.size <= c[d.region] /\ c[d.region] \in Nat /\ c[d.region] <= to[d.region]
        /\ d.from \in Nat /\ d.size \in Nat
    BY <1>5, <1>6
  <2>2. to[d.region] \in Int
    BY <1>2, <1>4, <1>5, <1>6
  <2> QED BY <2>1, <2>2
<1>8. b.region \in DOMAIN mem /\ b.from \in Nat /\ b.size \in Nat
      /\ mem[b.region].start <= b.from /\ b.from + b.size <= to[b.region]
  BY <1>1, <1>2, <1>4, <1>5
<1>9. \A d \in D : d.region = r => Apart(d, b) /\ Apart(b, d)
  BY <1>1, <1>6 DEF Apart
<1>10. \A d, e \in D : d # e /\ d.region = e.region => Apart(d, e)
  BY DEF Packed
<1>11. \A d, e \in D \cup {b} : d # e /\ d.region = e.region => Apart(d, e)
  BY <1>1, <1>9, <1>10
<1>12. \A d \in D \cup {b} : d.region = "ROM" => to["ROM"] <= VectorTable
  <2>1. r = "ROM" => to["ROM"] <= VectorTable
    BY <1>4 DEF RoomIn
  <2>2. r # "ROM" => \A d \in D : d.region = "ROM" => to["ROM"] <= VectorTable
    BY <1>4, <1>6 DEF Packed
  <2> QED BY <1>1, <2>1, <2>2
<1>13. Packed(D \cup {b}, mem, to)
  <2> DEFINE E == D \cup {b}
  <2>1. \A d \in E : /\ d.region \in DOMAIN mem /\ d.from \in Nat /\ d.size \in Nat
                     /\ mem[d.region].start <= d.from /\ d.from + d.size <= to[d.region]
    BY <1>6, <1>7, <1>8
  <2>2. \A d, e \in E : d # e /\ d.region = e.region => Apart(d, e)
    BY <1>11
  <2>3. \A d \in E : d.region = "ROM" => to["ROM"] <= VectorTable
    BY <1>12
  <2> HIDE DEF E
  <2>4. Packed(E, mem, to)
    BY <2>1, <2>2, <2>3 DEF Packed
  <2> QED BY <2>4 DEF E
<1> QED BY <1>13 DEF b, to

\* Fewer blocks pack as well.
LEMMA PackFewer ==
  ASSUME NEW mem, NEW c, NEW D, NEW E, E \subseteq D, Packed(D, mem, c)
  PROVE  Packed(E, mem, c)
BY DEF Packed

\* Separate regions are ones the cursors can run in.
LEMMA SeparateRegions ==
  ASSUME NEW l \in Links, Separate(l)
  PROVE  Regions(l.mem) /\ \A r \in DOMAIN l.mem : l.mem[r].size > 0
<1>1. WellFormed(l)
  BY LinksAssumption
<1>2. \A r \in DOMAIN l.mem : l.mem[r].start \in 0 .. Space - 1 /\ l.mem[r].size \in 0 .. Space - 1
  BY <1>1 DEF WellFormed
<1>3. \A r \in DOMAIN l.mem : r # "ROM" => l.mem[r].start + l.mem[r].size <= VectorTable
  BY DEF Separate
<1>4. \A r \in DOMAIN l.mem : /\ l.mem[r].start \in Nat /\ l.mem[r].size \in Nat
                              /\ l.mem[r].start <= Space - 1
  BY <1>2, SpaceNat
<1>5. Regions(l.mem)
  BY <1>3, <1>4 DEF Regions
<1>6. \A r \in DOMAIN l.mem : l.mem[r].size > 0
  BY DEF Separate
<1> QED BY <1>5, <1>6

-----------------------------------------------------------------------------
\* What layout_objects has placed so far.
HeadPlaced(i) == i < at \/ (i = at /\ lay # 0)
SegmentPlaced(p) == p[1] < at \/ (p[1] = at /\ p[2] < lay)
TextBlock(i) == Block(<<"text", i>>, link.code_load, text_load[i], Length(SegsOf(i), "TEXT"))
DataBlock(i) == Block(<<"data", i>>, link.data_load, data_load[i], Length(SegsOf(i), "DATA"))
RunBlock(p) == Block(<<"run", p>>, RunRegion(Segment(p)), run_addr[p], Segment(p).size)
Running == {p \in Places : Segment(p).segid # "TEXT"}
SoFar ==
  {TextBlock(i) : i \in {j \in Objs : HeadPlaced(j)}}
  \cup {DataBlock(i) : i \in {j \in Objs : HeadPlaced(j)}}
  \cup {RunBlock(p) : p \in {q \in Running : SegmentPlaced(q)}}

\* The invariant: the placed blocks pack under the cursors, from the first object to
\* the tables; after that nothing moves.
Working == phase \in {"config", "place"}
Position ==
  Working =>
    /\ at \in 1 .. Len(link.objects) + 1 /\ lay \in Nat
    /\ at \in Objs => lay <= Len(SegsOf(at))
    /\ at \notin Objs => \A i \in Objs : i < at
    /\ phase = "config" => at = 1 /\ lay = 0
    /\ at \notin Objs => lay = 0
Addresses ==
  /\ text_load \in [Objs -> Int] /\ data_load \in [Objs -> Int]
  /\ run_addr = [p \in Places |-> run_addr[p]]
RulesNamed == phase = "place" \/ Placed => link.run["DATA"] \in DOMAIN link.mem
IsSeq(s) == Len(s) \in Nat /\ s = [k \in 1 .. Len(s) |-> s[k]]
Records == IsSeq(copy_records) /\ IsSeq(zero_records)
Packing ==
  /\ Working \/ Placed => Cursors(link.mem, cur)
  /\ Working => Packed(SoFar, link.mem, cur)
  /\ Placed => Packed(Blocks, link.mem, cur) /\ stack = ArenaOf(cur)
IInv ==
  /\ link \in Links
  /\ phase \in {"config", "place", "write", "overflow", "unmapped", "linked"}
  /\ Position /\ RulesNamed /\ Records
  /\ Separate(link) => Addresses /\ Packing

-----------------------------------------------------------------------------
\* The objects of a link, as far as the placement looks at them.
LEMMA ObjectsTyped ==
  ASSUME NEW l \in Links
  PROVE  /\ Len(l.objects) \in Nat /\ DOMAIN l.objects = 1 .. Len(l.objects)
         /\ \A i \in DOMAIN l.objects :
              /\ l.objects[i].segs \in Seq(Segments)
              /\ Len(l.objects[i].segs) \in Nat \ {0}
              /\ DOMAIN l.objects[i].segs = 1 .. Len(l.objects[i].segs)
              /\ \A k \in DOMAIN l.objects[i].segs : l.objects[i].segs[k].size \in Nat
              /\ \A b : Length(l.objects[i].segs, b) \in Nat
<1> DEFINE Object == [segs: Seq(Segments) \ {<<>>}, refs: Seq(References)]
<1>1. l.objects \in Seq(Object)
  BY LinksAssumption DEF WellFormed
<1>2. Len(l.objects) \in Nat /\ DOMAIN l.objects = 1 .. Len(l.objects)
      /\ \A i \in DOMAIN l.objects : l.objects[i] \in Object
  <2> HIDE DEF Object
  <2> QED BY <1>1
<1>3. ASSUME NEW i \in DOMAIN l.objects
      PROVE  /\ l.objects[i].segs \in Seq(Segments)
             /\ Len(l.objects[i].segs) \in Nat \ {0}
             /\ DOMAIN l.objects[i].segs = 1 .. Len(l.objects[i].segs)
             /\ \A k \in DOMAIN l.objects[i].segs : l.objects[i].segs[k].size \in Nat
             /\ \A b : Length(l.objects[i].segs, b) \in Nat
  <2> DEFINE segs == l.objects[i].segs
  <2>1. segs \in Seq(Segments) /\ segs # <<>>
    BY <1>2
  <2> HIDE DEF segs
  <2>2. Len(segs) \in Nat \ {0} /\ DOMAIN segs = 1 .. Len(segs)
    BY <2>1
  <2>3. \A k \in DOMAIN segs : segs[k] \in Segments
    BY <2>1
  <2>4. \A k \in DOMAIN segs : segs[k].size \in Nat
    BY <2>3 DEF Segments
  <2>5. \A b : Length(segs, b) \in Nat
    BY <2>1, LengthNat
  <2> QED BY <2>1, <2>2, <2>4, <2>5 DEF segs
<1> QED BY <1>2, <1>3

\* A place is an object and one of its segments.
LEMMA PlacesAre ==
  ASSUME link \in Links
  PROVE  \A p \in Places : /\ p = <<p[1], p[2]>> /\ p[1] \in Objs
                           /\ p[2] \in 1 .. Len(SegsOf(p[1])) /\ p[1] \in Nat /\ p[2] \in Nat \ {0}
                           /\ Segment(p).size \in Nat
<1> TAKE p \in Places
<1>1. PICK i \in Objs : p \in {<<i, k>> : k \in DOMAIN SegsOf(i)}
  BY DEF Places
<1>2. PICK k \in DOMAIN SegsOf(i) : p = <<i, k>>
  BY <1>1
<1>3. DOMAIN SegsOf(i) = 1 .. Len(SegsOf(i)) /\ Len(SegsOf(i)) \in Nat /\ i \in Nat
      /\ SegsOf(i)[k].size \in Nat
  BY <1>1, <1>2, ObjectsTyped DEF Objs, SegsOf
<1> QED BY <1>1, <1>2, <1>3 DEF Segment

\* The list of records grows by one.
LEMMA IsSeqAppend ==
  ASSUME NEW s, IsSeq(s), NEW e
  PROVE  IsSeq(Append(s, e))
<1> DEFINE S == {s[k] : k \in 1 .. Len(s)} \cup {e}
<1>1. s \in Seq(S)
  <2>1. Len(s) \in Nat /\ s = [k \in 1 .. Len(s) |-> s[k]] /\ \A k \in 1 .. Len(s) : s[k] \in S
    BY DEF IsSeq
  <2> HIDE DEF S
  <2> QED BY <2>1
<1> HIDE DEF S
<1> DEFINE T == S \cup {e}
           t == Append(s, e)
<1>2. t \in Seq(T)
  BY <1>1
<1> HIDE DEF T, t
<1>3. Len(t) \in Nat /\ t = [k \in 1 .. Len(t) |-> t[k]]
  BY <1>2
<1> QED BY <1>3 DEF IsSeq, t

\* alloc_from_region of a well-formed configuration.
LEMMA RoomIsRoomIn ==
  ASSUME NEW c, NEW r, NEW n
  PROVE  Room(c, r, n) <=> RoomIn(link.mem, c, r, n)
BY DEF Room, RoomIn, EndOf

-----------------------------------------------------------------------------
\* At first nothing is placed.
LEMMA InitKeeps == Init => IInv
<1> SUFFICES ASSUME Init PROVE IInv
  OBVIOUS
<1>1. link \in Links /\ phase = "config" /\ at = 1 /\ lay = 0
  BY DEF Init
<1>2. Len(link.objects) \in Nat /\ Objs = 1 .. Len(link.objects)
      /\ \A i \in Objs : Len(SegsOf(i)) \in Nat
  BY <1>1, ObjectsTyped DEF Objs, SegsOf
<1>3. Position
  BY <1>1, <1>2 DEF Position
<1>4. RulesNamed /\ Records
  BY <1>1 DEF RulesNamed, Placed, Init, Records, IsSeq
<1>5. ASSUME Separate(link)
      PROVE  Addresses /\ Packing
  <2>1. Addresses
    BY DEF Init, Addresses
  <2>2. Regions(link.mem)
    BY <1>1, <1>5, SeparateRegions
  <2>3. Cursors(link.mem, cur)
    <3>1. cur = [r \in DOMAIN link.mem |-> link.mem[r].start]
      BY DEF Init
    <3>2. \A r \in DOMAIN link.mem : /\ link.mem[r].start \in Nat /\ link.mem[r].size \in Nat
                                     /\ link.mem[r].start <= Space - 1
      BY <2>2 DEF Regions
    <3> QED BY <3>1, <3>2, SpaceNat DEF Cursors
  <2>4. SoFar = {}
    <3>1. \A i \in Objs : ~HeadPlaced(i)
      BY <1>1, <1>2 DEF HeadPlaced
    <3>2. \A p \in Running : ~SegmentPlaced(p)
      BY <1>1, PlacesAre, <1>2 DEF SegmentPlaced, Running
    <3> QED BY <3>1, <3>2 DEF SoFar
  <2>5. Packed(SoFar, link.mem, cur)
    BY <2>4 DEF Packed
  <2> QED BY <1>1, <2>1, <2>3, <2>5 DEF Packing, Placed
<1> QED BY <1>1, <1>3, <1>4, <1>5 DEF IInv

\* A link that fails keeps the invariant.
LEMMA Overflows ==
  ASSUME IInv, link' = link, phase' = "overflow",
         UNCHANGED <<text_load, data_load, run_addr, copy_records, zero_records>>
  PROVE  IInv'
<1>1. Position' /\ RulesNamed' /\ Records'
  BY DEF IInv, Position, RulesNamed, Records, Working, Placed
<1>2. Packing'
  BY DEF Packing, Working, Placed
<1>3. Addresses => Addresses'
  BY DEF Addresses, Objs, Places, SegsOf
<1> QED BY <1>1, <1>2, <1>3 DEF IInv

\* The check of the rules places nothing.
LEMMA ConfigKeeps == IInv /\ CheckConfig => IInv'
<1> SUFFICES ASSUME IInv, CheckConfig PROVE IInv'
  OBVIOUS
<1>1. /\ phase = "config" /\ link' = link
      /\ UNCHANGED <<at, lay, cur, text_load, data_load, run_addr, copy_records, zero_records>>
  BY DEF CheckConfig
<1>2. CASE phase' = "overflow"
  BY <1>1, <1>2, Overflows
<1>3. CASE phase' = "place" /\ link.run["DATA"] \in DOMAIN link.mem
  <2>1. Position'
    BY <1>1, <1>3 DEF IInv, Position, Working, Objs, SegsOf
  <2>2. RulesNamed' /\ Records'
    BY <1>1, <1>3 DEF IInv, RulesNamed, Records
  <2>3. SoFar' = SoFar
    BY <1>1 DEF SoFar, TextBlock, DataBlock, RunBlock, Running, Segment, HeadPlaced, SegmentPlaced,
                Objs, Places, SegsOf, RunRegion
  <2>4. Packing => Packing'
    BY <1>1, <1>3, <2>3 DEF Packing, Working, Placed
  <2>5. Addresses => Addresses'
    BY <1>1 DEF Addresses, Objs, Places, SegsOf
  <2> QED BY <1>1, <1>3, <2>1, <2>2, <2>4, <2>5 DEF IInv
<1> QED BY <1>2, <1>3 DEF CheckConfig

\* A step that leaves the layout alone.
LEMMA StillPlaced ==
  ASSUME IInv, Placed, phase' \in {"write", "unmapped", "linked"},
         UNCHANGED <<link, cur, text_load, data_load, run_addr, copy_records, zero_records,
                     table, stack>>
  PROVE  IInv'
<1>1. Position' /\ RulesNamed' /\ Records'
  BY DEF IInv, Position, RulesNamed, Records, Working, Placed
<1>2. Blocks' = Blocks /\ ArenaOf(cur)' = ArenaOf(cur)
  BY DEF Blocks, Objs, Places, SegsOf, RunRegion, CopyTableSize, ZeroTableSize, InitTableSize,
         ArenaOf, EndOf
<1>3. Packing => Packing'
  BY <1>2 DEF Packing, Working, Placed
<1>4. Addresses => Addresses'
  BY DEF Addresses, Objs, Places, SegsOf
<1> QED BY <1>1, <1>3, <1>4 DEF IInv

\* The placement of text and load image: two more blocks.
LEMMA ObjectKeeps == IInv /\ PlaceObject => IInv'
<1> SUFFICES ASSUME IInv, PlaceObject PROVE IInv'
  OBVIOUS
<1> DEFINE n == Length(SegsOf(at), "TEXT")
           m == Length(SegsOf(at), "DATA")
           c == Advance(cur, link.code_load, n)
           A == Block(<<"text", at>>, link.code_load, cur[link.code_load], n)
           B == Block(<<"data", at>>, link.data_load, c[link.data_load], m)
<1>1. /\ phase = "place" /\ at \in Objs /\ lay = 0 /\ link' = link
      /\ at' = at /\ link \in Links
      /\ UNCHANGED <<run_addr, copy_records, zero_records>>
  BY DEF PlaceObject, IInv
<1>2. CASE phase' = "overflow" /\ UNCHANGED <<text_load, data_load>>
  BY <1>1, <1>2, Overflows
<1>3. CASE /\ Room(cur, link.code_load, n) /\ Room(c, link.data_load, m)
           /\ text_load' = [text_load EXCEPT ![at] = cur[link.code_load]]
           /\ data_load' = [data_load EXCEPT ![at] = c[link.data_load]]
           /\ cur' = Advance(c, link.data_load, m)
           /\ lay' = 1 /\ phase' = phase
  <2>1. n \in Nat /\ m \in Nat /\ Len(SegsOf(at)) \in Nat \ {0}
    BY <1>1, ObjectsTyped DEF Objs, SegsOf
  <2>2. Position'
    <3>1. (SegsOf(at))' = SegsOf(at) /\ Objs' = Objs
      BY <1>1 DEF SegsOf, Objs
    <3>2. at \in 1 .. Len(link.objects) + 1
      BY <1>1 DEF IInv, Position, Working
    <3> QED BY <1>1, <1>3, <2>1, <3>1, <3>2 DEF Position, Working
  <2>3. RulesNamed' /\ Records'
    BY <1>1, <1>3 DEF IInv, RulesNamed, Records, Placed
  <2>4. ASSUME Separate(link)
        PROVE  Addresses' /\ Packing'
    <3>1. /\ text_load \in [Objs -> Int] /\ data_load \in [Objs -> Int]
          /\ Addresses /\ Cursors(link.mem, cur) /\ Packed(SoFar, link.mem, cur)
      BY <1>1, <2>4 DEF IInv, Addresses, Packing, Working
    <3>2. Regions(link.mem)
      BY <1>1, <2>4, SeparateRegions
    <3>3. RoomIn(link.mem, cur, link.code_load, n) /\ RoomIn(link.mem, c, link.data_load, m)
      BY <1>3, RoomIsRoomIn
    <3>4. Packed(SoFar \cup {A}, link.mem, c)
      <4> HIDE DEF n
      <4> QED BY <2>1, <3>1, <3>2, <3>3, PackMore
    <3>5. Cursors(link.mem, c)
      <4> HIDE DEF n
      <4> QED BY <2>1, <3>1, <3>2, <3>3, AdvanceKeeps
    <3>6. cur[link.code_load] \in Int /\ c[link.data_load] \in Int
      <4>1. link.code_load \in DOMAIN link.mem /\ link.data_load \in DOMAIN link.mem
        BY <3>3 DEF RoomIn
      <4> HIDE DEF c
      <4> QED BY <3>1, <3>5, <4>1, SpaceNat DEF Cursors
    <3> HIDE DEF c, n, m
    <3>7. Packed(SoFar \cup {A} \cup {B}, link.mem, cur')
      BY <1>3, <2>1, <3>2, <3>3, <3>4, <3>5, PackMore
    <3>8. Cursors(link.mem, cur')
      BY <1>3, <2>1, <3>2, <3>3, <3>5, AdvanceKeeps
    <3>9. SoFar' \subseteq SoFar \cup {A} \cup {B}
      <4> HIDE DEF A, B
      <4>1. Objs' = Objs /\ Running' = Running /\ Places' = Places
        BY <1>1 DEF Objs, Running, Places, Segment, SegsOf
      <4>2. ASSUME NEW i \in Objs, HeadPlaced(i)', i # at
            PROVE  TextBlock(i)' \in SoFar /\ DataBlock(i)' \in SoFar
        <5>1. HeadPlaced(i)
          BY <1>1, <4>2 DEF HeadPlaced
        <5>2. text_load'[i] = text_load[i] /\ data_load'[i] = data_load[i]
          BY <1>3, <3>1, <4>2
        <5>3. TextBlock(i)' = TextBlock(i) /\ DataBlock(i)' = DataBlock(i)
          BY <1>1, <5>2 DEF TextBlock, DataBlock, SegsOf
        <5> QED BY <5>1, <5>3 DEF SoFar
      <4>3. TextBlock(at)' = A /\ DataBlock(at)' = B
        <5>1. text_load'[at] = cur[link.code_load] /\ data_load'[at] = c[link.data_load]
          BY <1>1, <1>3, <3>1
        <5> QED BY <1>1, <5>1 DEF TextBlock, DataBlock, SegsOf, A, B, n, m
      <4>4. ASSUME NEW p \in Running, SegmentPlaced(p)'
            PROVE  RunBlock(p)' \in SoFar
        <5>1. p[2] \in Nat \ {0} /\ p[1] \in Nat
          BY <1>1, PlacesAre DEF Running
        <5>2. SegmentPlaced(p)
          BY <1>1, <1>3, <4>4, <5>1 DEF SegmentPlaced
        <5>3. RunBlock(p)' = RunBlock(p)
          BY <1>1 DEF RunBlock, RunRegion, Segment, SegsOf
        <5> QED BY <5>2, <5>3 DEF SoFar
      <4> QED BY <1>1, <4>1, <4>2, <4>3, <4>4 DEF SoFar
    <3>10. Packed(SoFar', link.mem, cur')
      <4> HIDE DEF A, B
      <4> QED BY <3>7, <3>9, PackFewer
    <3>11. Addresses'
      BY <1>1, <1>3, <3>1, <3>6 DEF Addresses, Objs, Places, SegsOf
    <3>12. Packing'
      BY <1>1, <1>3, <3>8, <3>10 DEF Packing, Working, Placed
    <3> QED BY <3>11, <3>12
  <2> QED BY <1>1, <1>3, <2>2, <2>3, <2>4 DEF IInv
<1> QED BY <1>2, <1>3 DEF PlaceObject

\* The next segment: the one at hand is placed then, and nothing else.
LEMMA Onward ==
  ASSUME IInv, phase = "place", at \in Objs, lay # 0, NextSegment, UNCHANGED <<link, phase>>
  PROVE  /\ Position'
         /\ \A i \in Objs : HeadPlaced(i)' => HeadPlaced(i)
         /\ \A p \in Places : SegmentPlaced(p)' => SegmentPlaced(p) \/ p = <<at, lay>>
<1>1. /\ at \in Nat \ {0} /\ lay \in Nat /\ lay <= Len(SegsOf(at)) /\ link \in Links
  BY DEF IInv, Position, Working
<1>2. /\ Len(link.objects) \in Nat /\ Objs = 1 .. Len(link.objects)
      /\ \A i \in Objs : Len(SegsOf(i)) \in Nat \ {0}
  BY <1>1, ObjectsTyped DEF Objs, SegsOf
<1>3. Objs' = Objs /\ \A i : SegsOf(i)' = SegsOf(i)
  BY DEF Objs, SegsOf
<1>4. CASE lay = Len(SegsOf(at)) /\ at' = at + 1 /\ lay' = 0
  <2>1. Position'
    BY <1>1, <1>2, <1>3, <1>4 DEF Position, Working
  <2>2. \A i \in Objs : HeadPlaced(i)' => HeadPlaced(i)
    BY <1>1, <1>2, <1>4 DEF HeadPlaced
  <2>3. ASSUME NEW p \in Places, SegmentPlaced(p)'
        PROVE  SegmentPlaced(p) \/ p = <<at, lay>>
    <3>1. /\ p = <<p[1], p[2]>> /\ p[1] \in Nat /\ p[2] \in Nat \ {0}
          /\ p[2] \in 1 .. Len(SegsOf(p[1]))
      BY <1>1, <2>3, PlacesAre
    <3>2. p[1] <= at
      BY <1>1, <1>4, <2>3, <3>1 DEF SegmentPlaced
    <3>3. p[1] = at => p[2] <= lay
      BY <1>4, <3>1
    <3> QED BY <1>1, <3>1, <3>2, <3>3 DEF SegmentPlaced
  <2> QED BY <2>1, <2>2, <2>3
<1>5. CASE lay # Len(SegsOf(at)) /\ lay' = lay + 1 /\ at' = at
  <2>1. Position'
    <3>1. (SegsOf(at))' = SegsOf(at)
      BY <1>5 DEF SegsOf
    <3> QED BY <1>1, <1>2, <1>3, <1>5, <3>1 DEF Position, Working
  <2>2. \A i \in Objs : HeadPlaced(i)' => HeadPlaced(i)
    BY <1>1, <1>2, <1>5 DEF HeadPlaced
  <2>3. ASSUME NEW p \in Places, SegmentPlaced(p)'
        PROVE  SegmentPlaced(p) \/ p = <<at, lay>>
    <3>1. /\ p = <<p[1], p[2]>> /\ p[1] \in Nat /\ p[2] \in Nat \ {0}
      BY <1>1, <2>3, PlacesAre
    <3> QED BY <1>1, <1>5, <2>3, <3>1 DEF SegmentPlaced
  <2> QED BY <2>1, <2>2, <2>3
<1> QED BY <1>4, <1>5 DEF NextSegment

\* A TEXT segment was placed with its object.
LEMMA TextKeeps == IInv /\ PlaceText => IInv'
<1> SUFFICES ASSUME IInv, PlaceText PROVE IInv'
  OBVIOUS
<1>1. /\ phase = "place" /\ at \in Objs /\ lay # 0 /\ SegsOf(at)[lay].segid = "TEXT"
      /\ run_addr' = [run_addr EXCEPT ![<<at, lay>>] = LoadAddr(at, lay)]
      /\ NextSegment /\ link \in Links
      /\ UNCHANGED <<link, phase, cur, text_load, data_load, copy_records, zero_records>>
  BY DEF PlaceText, IInv
<1>2. /\ Position'
      /\ \A i \in Objs : HeadPlaced(i)' => HeadPlaced(i)
      /\ \A p \in Places : SegmentPlaced(p)' => SegmentPlaced(p) \/ p = <<at, lay>>
  BY <1>1, Onward
<1>3. RulesNamed' /\ Records'
  BY <1>1 DEF IInv, RulesNamed, Records, Placed
<1>4. ASSUME Separate(link)
      PROVE  Addresses' /\ Packing'
  <2>1. Addresses /\ Cursors(link.mem, cur) /\ Packed(SoFar, link.mem, cur)
    BY <1>1, <1>4 DEF IInv, Packing, Working
  <2>2. SoFar' \subseteq SoFar
    <3>1. Objs' = Objs /\ Running' = Running
      BY <1>1 DEF Objs, Running, Places, Segment, SegsOf
    <3>2. ASSUME NEW i \in Objs, HeadPlaced(i)'
          PROVE  TextBlock(i)' \in SoFar /\ DataBlock(i)' \in SoFar
      <4>1. TextBlock(i)' = TextBlock(i) /\ DataBlock(i)' = DataBlock(i)
        BY <1>1 DEF TextBlock, DataBlock, SegsOf
      <4> QED BY <1>2, <3>2, <4>1 DEF SoFar
    <3>3. ASSUME NEW p \in Running, SegmentPlaced(p)'
          PROVE  RunBlock(p)' \in SoFar
      <4>1. p \in Places /\ Segment(p).segid # "TEXT"
        BY DEF Running
      <4>2. p # <<at, lay>>
        BY <1>1, <4>1 DEF Segment
      <4>3. SegmentPlaced(p)
        BY <1>2, <3>3, <4>1, <4>2
      <4>4. run_addr'[p] = run_addr[p]
        BY <1>1, <2>1, <4>1, <4>2 DEF Addresses
      <4>5. RunBlock(p)' = RunBlock(p)
        BY <1>1, <4>4 DEF RunBlock, RunRegion, Segment, SegsOf
      <4> QED BY <4>3, <4>5 DEF SoFar
    <3> QED BY <3>1, <3>2, <3>3 DEF SoFar
  <2>3. Packed(SoFar', link.mem, cur)
    BY <2>1, <2>2, PackFewer
  <2>4. Packing'
    BY <1>1, <2>1, <2>3 DEF Packing, Working, Placed
  <2>5. Addresses'
    <3>1. Objs' = Objs /\ Places' = Places
      BY <1>1 DEF Objs, Places, SegsOf
    <3>2. run_addr' = [p \in Places |-> run_addr'[p]]
      BY <1>1, <2>1 DEF Addresses
    <3> QED BY <1>1, <2>1, <3>1, <3>2 DEF Addresses
  <2> QED BY <2>4, <2>5
<1> QED BY <1>1, <1>2, <1>3, <1>4 DEF IInv

\* A segment that runs elsewhere: one more block.
LEMMA RunKeeps == IInv /\ PlaceRun => IInv'
<1> SUFFICES ASSUME IInv, PlaceRun PROVE IInv'
  OBVIOUS
<1> DEFINE p0 == <<at, lay>>
           s == Segment(p0)
           r == RunRegion(s)
           B == Block(<<"run", p0>>, r, cur[r], s.size)
<1>1. /\ phase = "place" /\ at \in Objs /\ lay # 0 /\ SegsOf(at)[lay].segid # "TEXT"
      /\ UNCHANGED <<link, text_load, data_load>> /\ link \in Links
  BY DEF PlaceRun, IInv
<1>2. CASE phase' = "overflow" /\ UNCHANGED <<run_addr, copy_records, zero_records>>
  BY <1>1, <1>2, Overflows
<1>3. CASE /\ Room(cur, r, s.size)
           /\ run_addr' = [run_addr EXCEPT ![p0] = cur[r]]
           /\ cur' = Advance(cur, r, s.size)
           /\ copy_records' = copy_records \/ \E e : copy_records' = Append(copy_records, e)
           /\ zero_records' = zero_records \/ \E e : zero_records' = Append(zero_records, e)
           /\ NextSegment /\ phase' = phase
  <2>1. /\ Position'
        /\ \A i \in Objs : HeadPlaced(i)' => HeadPlaced(i)
        /\ \A p \in Places : SegmentPlaced(p)' => SegmentPlaced(p) \/ p = p0
    BY <1>1, <1>3, Onward
  <2>2. p0 \in Places /\ p0[1] = at /\ p0[2] = lay
    <3>1. at \in Nat /\ lay \in Nat \ {0} /\ lay <= Len(SegsOf(at))
      BY <1>1 DEF IInv, Position, Working
    <3>2. lay \in DOMAIN SegsOf(at)
      BY <1>1, <3>1, ObjectsTyped DEF Objs, SegsOf
    <3> QED BY <1>1, <3>2 DEF Places
  <2>3. s.size \in Nat
    BY <1>1, <2>2, PlacesAre
  <2>4. RulesNamed' /\ Records'
    <3>1. RulesNamed'
      BY <1>1, <1>3 DEF IInv, RulesNamed, Placed
    <3>2. IsSeq(copy_records')
      BY <1>3, IsSeqAppend DEF IInv, Records
    <3>3. IsSeq(zero_records')
      BY <1>3, IsSeqAppend DEF IInv, Records
    <3> QED BY <3>1, <3>2, <3>3 DEF Records
  <2>5. ASSUME Separate(link)
        PROVE  Addresses' /\ Packing'
    <3>1. Addresses /\ Cursors(link.mem, cur) /\ Packed(SoFar, link.mem, cur)
      BY <1>1, <2>5 DEF IInv, Packing, Working
    <3>2. Regions(link.mem)
      BY <1>1, <2>5, SeparateRegions
    <3>3. RoomIn(link.mem, cur, r, s.size)
      BY <1>3, RoomIsRoomIn
    <3> HIDE DEF r, s
    <3>4. Packed(SoFar \cup {B}, link.mem, cur')
      BY <1>3, <2>3, <3>1, <3>2, <3>3, PackMore
    <3>5. Cursors(link.mem, cur')
      BY <1>3, <2>3, <3>1, <3>2, <3>3, AdvanceKeeps
    <3>6. Objs' = Objs /\ Running' = Running /\ Places' = Places
      BY <1>1 DEF Objs, Running, Places, Segment, SegsOf
    <3>7. SoFar' \subseteq SoFar \cup {B}
      <4>1. ASSUME NEW i \in Objs, HeadPlaced(i)'
            PROVE  TextBlock(i)' \in SoFar /\ DataBlock(i)' \in SoFar
        <5>1. TextBlock(i)' = TextBlock(i) /\ DataBlock(i)' = DataBlock(i)
          BY <1>1 DEF TextBlock, DataBlock, SegsOf
        <5> QED BY <2>1, <4>1, <5>1 DEF SoFar
      <4>2. ASSUME NEW p \in Running, SegmentPlaced(p)', p # p0
            PROVE  RunBlock(p)' \in SoFar
        <5>1. p \in Places
          BY DEF Running
        <5>2. SegmentPlaced(p)
          BY <2>1, <4>2, <5>1
        <5>3. run_addr'[p] = run_addr[p]
          BY <1>3, <3>1, <4>2, <5>1 DEF Addresses
        <5>4. RunBlock(p)' = RunBlock(p)
          BY <1>1, <5>3 DEF RunBlock, RunRegion, Segment, SegsOf
        <5> QED BY <5>2, <5>4 DEF SoFar
      <4>3. ASSUME NEW p, p = p0
            PROVE  RunBlock(p)' = B
        <5>1. run_addr'[p] = cur[r]
          BY <1>3, <2>2, <3>1, <4>3 DEF Addresses
        <5>2. Segment(p)' = s /\ RunRegion(Segment(p))' = r
          BY <1>1, <4>3 DEF RunRegion, Segment, SegsOf, s, r
        <5> QED BY <4>3, <5>1, <5>2 DEF RunBlock
      <4> HIDE DEF B
      <4> QED BY <3>6, <4>1, <4>2, <4>3 DEF SoFar
    <3>8. Packed(SoFar', link.mem, cur')
      <4> HIDE DEF B
      <4> QED BY <3>4, <3>7, PackFewer
    <3>9. run_addr' = [p \in Places |-> run_addr'[p]]
      BY <1>3, <3>1 DEF Addresses
    <3>10. Addresses'
      BY <1>1, <3>1, <3>6, <3>9 DEF Addresses
    <3>11. Packing'
      BY <1>1, <1>3, <3>5, <3>8 DEF Packing, Working, Placed
    <3> QED BY <3>10, <3>11
  <2> QED BY <1>1, <1>3, <2>1, <2>4, <2>5 DEF IInv
<1> QED BY <1>2, <1>3 DEF PlaceRun, Segment

\* The three tables, and the arena behind everything.
LEMMA TablesKeep == IInv /\ PlaceTables => IInv'
<1> SUFFICES ASSUME IInv, PlaceTables PROVE IInv'
  OBVIOUS
<1> DEFINE r == link.data_load
           x == CopyTableSize
           y == ZeroTableSize
           z == InitTableSize
           c == Advance(cur, r, x)
           d == Advance(c, r, y)
           A == Block(<<"copy">>, r, cur[r], x)
           B == Block(<<"zero">>, r, c[r], y)
           C == Block(<<"init">>, r, d[r], z)
<1>1. /\ phase = "place" /\ at \notin Objs /\ link \in Links
      /\ UNCHANGED <<link, text_load, data_load, run_addr, copy_records, zero_records>>
  BY DEF PlaceTables, IInv
<1>2. CASE phase' = "overflow"
  BY <1>1, <1>2, Overflows
<1>3. CASE /\ Room(cur, r, x) /\ Room(c, r, y) /\ Room(d, r, z)
           /\ table' = [copy |-> cur[r], zero |-> c[r], init |-> d[r]]
           /\ cur' = Advance(d, r, z)
           /\ stack' = ArenaOf(cur')
           /\ phase' = "write"
  <2>1. x \in Nat /\ y \in Nat /\ z \in Nat
    <3>1. Len(copy_records) \in Nat /\ Len(zero_records) \in Nat /\ Len(link.inits) \in Nat
      <4>1. link.inits \in Seq(Labels)
        BY <1>1, LinksAssumption DEF WellFormed
      <4> QED BY <4>1 DEF IInv, Records, IsSeq
    <3> HIDE DEF x, y, z
    <3>2. x \in Nat
      BY <3>1, SpaceNat, ModRange DEF x, CopyTableSize
    <3>3. y \in Nat
      BY <3>1, SpaceNat, ModRange DEF y, ZeroTableSize
    <3>4. z \in Nat
      <4>1. 2 * (Len(link.inits) + 1) \in Int /\ Space \in Nat \ {0}
        BY <3>1, SpaceNat
      <4>2. z = (2 * (Len(link.inits) + 1)) % Space
        BY DEF z, InitTableSize
      <4> QED BY <4>1, <4>2, ModRange
    <3> QED BY <3>2, <3>3, <3>4
  <2>2. Position' /\ RulesNamed' /\ Records'
    BY <1>1, <1>3 DEF IInv, Position, RulesNamed, Records, Working
  <2>3. ASSUME Separate(link)
        PROVE  Addresses' /\ Packing'
    <3>1. Addresses /\ Cursors(link.mem, cur) /\ Packed(SoFar, link.mem, cur)
      BY <1>1, <2>3 DEF IInv, Packing, Working
    <3>2. Regions(link.mem)
      BY <1>1, <2>3, SeparateRegions
    <3>3. RoomIn(link.mem, cur, r, x) /\ RoomIn(link.mem, c, r, y) /\ RoomIn(link.mem, d, r, z)
      BY <1>3, RoomIsRoomIn
    <3>4. x' = x /\ y' = y /\ z' = z
      BY <1>1 DEF CopyTableSize, ZeroTableSize, InitTableSize
    <3> HIDE DEF x, y, z
    <3>5. Packed(SoFar \cup {A}, link.mem, c) /\ Cursors(link.mem, c)
      BY <2>1, <3>1, <3>2, <3>3, PackMore, AdvanceKeeps
    <3> HIDE DEF c
    <3>6. Packed(SoFar \cup {A} \cup {B}, link.mem, d) /\ Cursors(link.mem, d)
      BY <2>1, <3>2, <3>3, <3>5, PackMore, AdvanceKeeps
    <3> HIDE DEF d
    <3>7. Packed(SoFar \cup {A} \cup {B} \cup {C}, link.mem, cur') /\ Cursors(link.mem, cur')
      BY <1>3, <2>1, <3>2, <3>3, <3>6, PackMore, AdvanceKeeps
    <3>8. Blocks' \subseteq SoFar \cup {A} \cup {B} \cup {C}
      <4>1. \A i \in Objs : HeadPlaced(i)
        BY <1>1 DEF IInv, Position, Working, HeadPlaced
      <4>2. \A p \in Places : SegmentPlaced(p)
        <5>1. \A p \in Places : p[1] \in Objs
          BY <1>1, PlacesAre
        <5> QED BY <1>1, <5>1 DEF IInv, Position, Working, SegmentPlaced
      <4>3. {TextBlock(i) : i \in Objs} \cup {DataBlock(i) : i \in Objs}
            \cup {RunBlock(p) : p \in Running} \subseteq SoFar
        BY <4>1, <4>2 DEF SoFar, Running
      <4>4. Blocks' = {TextBlock(i) : i \in Objs} \cup {DataBlock(i) : i \in Objs}
                      \cup {RunBlock(p) : p \in Running} \cup {A, B, C}
        BY <1>1, <1>3, <3>4 DEF Blocks, TextBlock, DataBlock, RunBlock, Running, Segment,
           Objs, Places, SegsOf, RunRegion, x, y, z
      <4> HIDE DEF A, B, C
      <4> QED BY <4>3, <4>4
    <3>9. Packed(Blocks', link.mem, cur')
      <4> HIDE DEF A, B, C
      <4> QED BY <3>7, <3>8, PackFewer
    <3>10. stack' = ArenaOf(cur)'
      BY <1>1, <1>3 DEF ArenaOf, EndOf
    <3>11. Packing'
      BY <1>1, <1>3, <3>7, <3>9, <3>10 DEF Packing, Working
    <3>12. Addresses'
      BY <1>1, <3>1 DEF Addresses, Objs, Places, SegsOf
    <3> QED BY <3>11, <3>12
  <2> QED BY <1>1, <1>3, <2>2, <2>3 DEF IInv
<1> QED BY <1>2, <1>3 DEF PlaceTables

\* Relocation and the writing of the image move nothing.
LEMMA WritingKeeps == IInv /\ (WriteObject \/ WriteTables) => IInv'
<1> SUFFICES ASSUME IInv, WriteObject \/ WriteTables PROVE IInv'
  OBVIOUS
<1>1. /\ Placed /\ phase' \in {"write", "unmapped", "linked"}
      /\ UNCHANGED <<link, cur, text_load, data_load, run_addr, copy_records, zero_records,
                     table, stack>>
  BY DEF WriteObject, WriteTables, Placed
<1> QED BY <1>1, StillPlaced

\* Nor does what changes no variable.
LEMMA StutterKeeps == IInv /\ UNCHANGED vars => IInv'
<1> SUFFICES ASSUME IInv, UNCHANGED vars PROVE IInv'
  OBVIOUS
<1>1. Position' /\ RulesNamed' /\ Records'
  BY DEF vars, IInv, Position, RulesNamed, Records, Working, Placed, Objs, SegsOf
<1>2. SoFar' = SoFar
  BY DEF vars, SoFar, TextBlock, DataBlock, RunBlock, Running, Segment, HeadPlaced, SegmentPlaced,
         Objs, Places, SegsOf, RunRegion
<1>3. Blocks' = Blocks /\ ArenaOf(cur)' = ArenaOf(cur)
  BY DEF vars, Blocks, Objs, Places, SegsOf, RunRegion, CopyTableSize, ZeroTableSize,
         InitTableSize, ArenaOf, EndOf
<1>4. Packing => Packing'
  BY <1>2, <1>3 DEF vars, Packing, Working, Placed
<1>5. Addresses => Addresses'
  BY DEF vars, Addresses, Objs, Places, SegsOf
<1> QED BY <1>1, <1>4, <1>5 DEF IInv, vars

\* The placed blocks pack, whatever is linked.
THEOREM Invariant == Spec => []IInv
<1>1. IInv /\ [LinkNext]_vars => IInv'
  BY ConfigKeeps, ObjectKeeps, TextKeeps, RunKeeps, TablesKeep, WritingKeeps, StutterKeeps
     DEF LinkNext
<1> QED BY <1>1, InitKeeps, PTL DEF Spec

\* What packs region by region does not overlap, when the regions are separate, nor
\* does it reach the vectors or the arena.
LEMMA PackedIsDisjoint == IInv => BlocksDisjoint
<1> SUFFICES ASSUME IInv, Separate(link), Placed
    PROVE  LET r == link.run["DATA"] IN
    /\ \A b \in Blocks : b.size > 0 =>
         /\ link.mem[b.region].start <= b.from
         /\ b.from + b.size <= EndOf(b.region) /\ b.from + b.size <= VectorTable
         /\ Arena \cap (b.from .. b.from + b.size - 1) = {}
         /\ \A c \in Blocks \ {b} : c.size > 0 => \/ b.from + b.size <= c.from
                                                  \/ c.from + c.size <= b.from
    /\ Arena \subseteq link.mem[r].start .. EndOf(r) - 1
    /\ stack.top = (EndOf(r) - 1) % Space
  BY DEF BlocksDisjoint
<1> DEFINE r == link.run["DATA"]
<1>1. /\ Packed(Blocks, link.mem, cur) /\ stack = ArenaOf(cur) /\ Cursors(link.mem, cur)
      /\ r \in DOMAIN link.mem /\ link \in Links
  BY DEF IInv, Packing, RulesNamed
<1>2. Regions(link.mem) /\ \A q \in DOMAIN link.mem : link.mem[q].size > 0
  BY <1>1, SeparateRegions
<1>3. stack.start = cur[r] /\ stack.top = (EndOf(r) - 1) % Space
  BY <1>1 DEF ArenaOf
<1>4. \A q \in DOMAIN link.mem : /\ cur[q] \in Nat /\ link.mem[q].start \in Nat
                                 /\ link.mem[q].size \in Nat /\ EndOf(q) \in 1 .. Space
                                 /\ link.mem[q].start <= cur[q] /\ cur[q] <= EndOf(q)
  <2>1. TAKE q \in DOMAIN link.mem
  <2>2. cur[q] \in Nat /\ link.mem[q].start <= cur[q]
        /\ cur[q] <= link.mem[q].start + link.mem[q].size
    BY <1>1, SpaceNat DEF Cursors
  <2>3. link.mem[q].start \in Nat /\ link.mem[q].size \in Nat /\ link.mem[q].size > 0
    BY <1>2 DEF Regions
  <2>4. link.mem[q].start + link.mem[q].size <= Space
    <3>1. CASE q = "ROM"
      BY <3>1 DEF Separate
    <3>2. CASE q # "ROM"
      BY <1>2, <2>3, <3>2, SpaceNat DEF Regions
    <3> QED BY <3>1, <3>2
  <2> QED BY <2>2, <2>3, <2>4, SpaceNat DEF EndOf
<1>5. stack.top = EndOf(r) - 1
  <2>1. EndOf(r) - 1 \in 0 .. Space - 1
    BY <1>1, <1>4, SpaceNat
  <2> QED BY <1>3, <2>1, SpaceNat, ModSmall
<1>6. Arena = cur[r] .. EndOf(r) - 1
  BY <1>3, <1>5 DEF Arena
<1>7. ASSUME NEW b \in Blocks, b.size > 0
      PROVE  /\ b.region \in DOMAIN link.mem /\ b.from \in Nat /\ b.size \in Nat
             /\ link.mem[b.region].start <= b.from /\ b.from + b.size <= cur[b.region]
             /\ b.from + b.size <= EndOf(b.region) /\ b.from + b.size <= VectorTable
  <2>1. /\ b.region \in DOMAIN link.mem /\ b.from \in Nat /\ b.size \in Nat
        /\ link.mem[b.region].start <= b.from /\ b.from + b.size <= cur[b.region]
    BY <1>1 DEF Packed
  <2>2. cur[b.region] \in Nat /\ cur[b.region] <= EndOf(b.region) /\ EndOf(b.region) \in Nat
    BY <1>4, <2>1
  <2>3. b.from + b.size <= EndOf(b.region)
    BY <2>1, <2>2
  <2>4. b.from + b.size <= VectorTable
    <3>1. CASE b.region # "ROM"
      <4>1. EndOf(b.region) <= VectorTable
        BY <1>2, <2>1, <3>1 DEF Regions, EndOf
      <4> QED BY <2>1, <2>2, <2>3, <4>1, SpaceNat
    <3>2. CASE b.region = "ROM"
      <4>1. cur[b.region] <= VectorTable \/ cur[b.region] = link.mem[b.region].start
        BY <1>1, <2>1, <3>2 DEF Cursors
      <4>2. link.mem[b.region].start \in Nat
        BY <1>4, <2>1
      <4> QED BY <1>7, <2>1, <2>2, <4>1, <4>2, SpaceNat
    <3> QED BY <3>1, <3>2
  <2> QED BY <2>1, <2>3, <2>4
<1>8. \A p, q \in DOMAIN link.mem : p # q => \/ EndOf(p) <= link.mem[q].start
                                             \/ EndOf(q) <= link.mem[p].start
  BY DEF Separate, EndOf
<1>9. ASSUME NEW b \in Blocks, b.size > 0
      PROVE  Arena \cap (b.from .. b.from + b.size - 1) = {}
  <2>1. CASE b.region = r
    BY <1>1, <1>4, <1>6, <1>7, <1>9, <2>1
  <2>2. CASE b.region # r
    <3>1. /\ b.region \in DOMAIN link.mem /\ b.from \in Nat /\ b.size \in Nat
          /\ link.mem[b.region].start <= b.from /\ b.from + b.size <= EndOf(b.region)
      BY <1>7, <1>9
    <3>2. EndOf(r) <= link.mem[b.region].start \/ EndOf(b.region) <= link.mem[r].start
      BY <1>1, <1>8, <2>2, <3>1
    <3>3. /\ cur[r] \in Nat /\ EndOf(r) \in Nat /\ link.mem[r].start \in Nat
          /\ link.mem[r].start <= cur[r]
          /\ EndOf(b.region) \in Nat /\ link.mem[b.region].start \in Nat
      BY <1>1, <1>4, <3>1
    <3>4. ASSUME NEW a \in Arena, a \in b.from .. b.from + b.size - 1
          PROVE  FALSE
      <4>1. a \in Int /\ cur[r] <= a /\ a <= EndOf(r) - 1
        BY <1>6, <3>3, <3>4
      <4>2. b.from <= a /\ a <= b.from + b.size - 1
        BY <3>1, <3>4
      <4> QED BY <3>1, <3>2, <3>3, <4>1, <4>2
    <3> QED BY <3>4
  <2> QED BY <2>1, <2>2
<1>10. ASSUME NEW b \in Blocks, NEW c \in Blocks, b # c, b.size > 0, c.size > 0
       PROVE  b.from + b.size <= c.from \/ c.from + c.size <= b.from
  <2>1. CASE b.region = c.region
    BY <1>1, <1>10, <2>1 DEF Packed, Apart
  <2>2. CASE b.region # c.region
    <3>1. /\ b.region \in DOMAIN link.mem /\ b.from \in Nat /\ b.size \in Nat
          /\ link.mem[b.region].start <= b.from /\ b.from + b.size <= EndOf(b.region)
      BY <1>7, <1>10
    <3>2. /\ c.region \in DOMAIN link.mem /\ c.from \in Nat /\ c.size \in Nat
          /\ link.mem[c.region].start <= c.from /\ c.from + c.size <= EndOf(c.region)
      BY <1>7, <1>10
    <3>3. EndOf(c.region) <= link.mem[b.region].start \/ EndOf(b.region) <= link.mem[c.region].start
      BY <1>8, <2>2, <3>1, <3>2
    <3>4. EndOf(b.region) \in Nat /\ EndOf(c.region) \in Nat
          /\ link.mem[b.region].start \in Nat /\ link.mem[c.region].start \in Nat
      BY <1>4, <3>1, <3>2
    <3> QED BY <3>1, <3>2, <3>3, <3>4
  <2> QED BY <2>1, <2>2
<1>11. Arena \subseteq link.mem[r].start .. EndOf(r) - 1
  BY <1>1, <1>4, <1>6
<1> QED BY <1>3, <1>7, <1>9, <1>10, <1>11

\* The linker never places two things on top of each other, under the vectors or in
\* the arena of the stack.
THEOREM PlacesApart == Spec => []BlocksDisjoint
BY Invariant, PackedIsDisjoint, PTL

-----------------------------------------------------------------------------
\* How full the regions are.  What has been put into a region is the sum over the
\* objects and segments in front of the place where layout_objects is.
Before(f, i, k) ==
  Totals(RowSums(f), Len(link.objects))[i - 1]
  + (IF k = 0 THEN 0 ELSE Totals(Row(f, i), Len(SegsOf(i)))[k - 1])
Heads(r, i, k) == Totals(HeadNeed(r), Len(link.objects))[IF k = 0 THEN i - 1 ELSE i]
Held(r, i, k) == Heads(r, i, k) + Before(RunNeed(r), i, k)
Copies(i, k) == Before(CopyNeed, i, k)
Zeros(i, k) == Before(ZeroNeed, i, k)

Counts ==
  /\ Working =>
       /\ \A r \in DOMAIN link.mem : cur[r] = link.mem[r].start + Held(r, at, lay)
       /\ Len(copy_records) = Copies(at, lay)
       /\ Len(zero_records) = Zeros(at, lay)
  /\ Placed /\ TablesCounted =>
       \A r \in DOMAIN link.mem : cur[r] = link.mem[r].start + Demand(r)
  /\ phase = "overflow" => ~Fits \/ ~(Rules \subseteq DOMAIN link.mem)
CountInv == Separate(link) => Counts

\* The lists that are summed up.
LEMMA NeedsTyped ==
  ASSUME link \in Links
  PROVE  /\ \A r : HeadNeed(r) \in [1 .. Len(link.objects) -> Nat]
         /\ \A r : RunNeed(r) \in [Places -> Nat]
         /\ CopyNeed \in [Places -> Nat] /\ ZeroNeed \in [Places -> Nat]
<1>1. Len(link.objects) \in Nat /\ Objs = 1 .. Len(link.objects)
      /\ \A i \in Objs : \A b : Length(SegsOf(i), b) \in Nat
  BY ObjectsTyped DEF Objs, SegsOf
<1>2. ASSUME NEW r
      PROVE  HeadNeed(r) \in [1 .. Len(link.objects) -> Nat]
  <2>1. \A i \in Objs : (IF link.code_load = r THEN Length(SegsOf(i), "TEXT") ELSE 0)
                        + (IF link.data_load = r THEN Length(SegsOf(i), "DATA") ELSE 0) \in Nat
    BY <1>1
  <2> QED BY <1>1, <2>1 DEF HeadNeed
<1>3. \A p \in Places : Segment(p).size \in Nat
  BY PlacesAre
<1>4. \A r : RunNeed(r) \in [Places -> Nat]
  BY <1>3 DEF RunNeed
<1>5. CopyNeed \in [Places -> Nat]
  BY DEF CopyNeed
<1>6. ZeroNeed \in [Places -> Nat]
  BY DEF ZeroNeed
<1> QED BY <1>2, <1>4, <1>5, <1>6

\* Sums over the segments, row by row.
LEMMA RowsTyped ==
  ASSUME link \in Links, NEW f \in [Places -> Nat]
  PROVE  /\ RowSums(f) \in [1 .. Len(link.objects) -> Nat]
         /\ \A i \in Objs : /\ Row(f, i) \in [1 .. Len(SegsOf(i)) -> Nat]
                            /\ \A k \in 1 .. Len(SegsOf(i)) : Row(f, i)[k] = f[<<i, k>>]
                            /\ RowSums(f)[i] = Total(Row(f, i), Len(SegsOf(i)))
<1>1. Len(link.objects) \in Nat /\ Objs = 1 .. Len(link.objects)
      /\ \A i \in Objs : Len(SegsOf(i)) \in Nat /\ DOMAIN SegsOf(i) = 1 .. Len(SegsOf(i))
  BY ObjectsTyped DEF Objs, SegsOf
<1>2. \A i \in Objs : \A k \in 1 .. Len(SegsOf(i)) : <<i, k>> \in Places
  BY <1>1 DEF Places
<1>3. ASSUME NEW i \in Objs
      PROVE  /\ Row(f, i) \in [1 .. Len(SegsOf(i)) -> Nat]
             /\ \A k \in 1 .. Len(SegsOf(i)) : Row(f, i)[k] = f[<<i, k>>]
             /\ RowSums(f)[i] = Total(Row(f, i), Len(SegsOf(i)))
  <2>1. Row(f, i) = [k \in 1 .. Len(SegsOf(i)) |-> f[<<i, k>>]]
    BY <1>1, <1>3 DEF Row
  <2>2. \A k \in 1 .. Len(SegsOf(i)) : f[<<i, k>>] \in Nat
    BY <1>2, <1>3
  <2>3. RowSums(f)[i] = Total(Row(f, i), Len(SegsOf(i)))
    BY <1>3 DEF RowSums
  <2> QED BY <2>1, <2>2, <2>3
<1>4. \A i \in Objs : Total(Row(f, i), Len(SegsOf(i))) \in Nat
  <2> TAKE i \in Objs
  <2>1. PICK n \in Nat : n = Len(SegsOf(i))
    BY <1>1
  <2>2. PICK g \in [1 .. n -> Nat] : g = Row(f, i)
    BY <1>3, <2>1
  <2>3. Total(g, n) \in Nat
    <3>1. 0 \in 0 .. n
      OBVIOUS
    <3> QED BY <3>1, TotalsRise
  <2> QED BY <2>1, <2>2, <2>3
<1>5. RowSums(f) \in [1 .. Len(link.objects) -> Nat]
  BY <1>1, <1>4 DEF RowSums
<1> QED BY <1>3, <1>5

\* From one segment to the next the sum grows by what that segment adds, up to the
\* sum over all of them.
LEMMA WalkSums ==
  ASSUME link \in Links, NEW f \in [Places -> Nat]
  PROVE  /\ Before(f, 1, 0) = 0
         /\ OverSegments(f) \in Nat
         /\ Before(f, Len(link.objects) + 1, 0) = OverSegments(f)
         /\ \A i \in 1 .. Len(link.objects) + 1 :
              Before(f, i, 0) \in Nat /\ Before(f, i, 0) <= OverSegments(f)
         /\ \A i \in Objs : Before(f, i, 1) = Before(f, i, 0)
         /\ \A i \in Objs : \A k \in 1 .. Len(SegsOf(i)) :
              /\ f[<<i, k>>] \in Nat /\ Before(f, i, k) \in Nat
              /\ Before(f, i, k) + f[<<i, k>>] <= OverSegments(f)
              /\ k < Len(SegsOf(i)) => Before(f, i, k + 1) = Before(f, i, k) + f[<<i, k>>]
              /\ k = Len(SegsOf(i)) => Before(f, i + 1, 0) = Before(f, i, k) + f[<<i, k>>]
<1> DEFINE N == Len(link.objects)
           R(i) == Totals(RowSums(f), N)[i]
           C(i, k) == Totals(Row(f, i), Len(SegsOf(i)))[k]
<1>1. N \in Nat /\ Objs = 1 .. N /\ \A i \in Objs : Len(SegsOf(i)) \in Nat \ {0}
  BY ObjectsTyped DEF Objs, SegsOf
<1>2. /\ RowSums(f) \in [1 .. N -> Nat]
      /\ \A i \in Objs : /\ Row(f, i) \in [1 .. Len(SegsOf(i)) -> Nat]
                         /\ \A k \in 1 .. Len(SegsOf(i)) : Row(f, i)[k] = f[<<i, k>>]
                         /\ RowSums(f)[i] = C(i, Len(SegsOf(i)))
  BY RowsTyped DEF Total
<1>3. /\ R(0) = 0 /\ \A i \in 1 .. N : R(i) = R(i - 1) + RowSums(f)[i]
      /\ OverSegments(f) = R(N) /\ OverSegments(f) \in Nat
      /\ \A i \in 0 .. N : R(i) \in Nat /\ R(i) <= OverSegments(f)
  <2>1. PICK n \in Nat : n = N
    BY <1>1
  <2>2. PICK g \in [1 .. n -> Nat] : g = RowSums(f)
    BY <1>2, <2>1
  <2>3. Totals(g, n)[0] = 0 /\ \A i \in 1 .. n : Totals(g, n)[i] = Totals(g, n)[i - 1] + g[i]
    BY TotalsLaw
  <2>4. \A i \in 0 .. n : /\ Totals(g, n)[i] \in Nat /\ Total(g, n) \in Nat
                          /\ Totals(g, n)[i] <= Total(g, n)
    BY TotalsRise
  <2>5. OverSegments(f) = Total(g, n)
    BY <2>1, <2>2 DEF OverSegments
  <2>6. Total(g, n) = Totals(g, n)[n] /\ Total(g, n) \in Nat
    <3>1. 0 \in 0 .. n
      OBVIOUS
    <3> QED BY <2>4, <3>1 DEF Total
  <2> QED BY <2>1, <2>2, <2>3, <2>4, <2>5, <2>6
<1>4. \A i \in Objs :
        /\ C(i, 0) = 0
        /\ \A k \in 1 .. Len(SegsOf(i)) : C(i, k) = C(i, k - 1) + f[<<i, k>>]
        /\ \A k \in 0 .. Len(SegsOf(i)) : C(i, k) \in Nat /\ C(i, k) <= RowSums(f)[i]
  <2> TAKE i \in Objs
  <2>1. PICK n \in Nat : n = Len(SegsOf(i))
    BY <1>1
  <2>2. PICK g \in [1 .. n -> Nat] : g = Row(f, i)
    BY <1>2, <2>1
  <2>3. Totals(g, n)[0] = 0 /\ \A k \in 1 .. n : Totals(g, n)[k] = Totals(g, n)[k - 1] + g[k]
    BY TotalsLaw
  <2>4. \A k \in 0 .. n : Totals(g, n)[k] \in Nat /\ Totals(g, n)[k] <= Total(g, n)
    BY TotalsRise
  <2>5. RowSums(f)[i] = Total(g, n) /\ \A k \in 1 .. n : g[k] = f[<<i, k>>]
    BY <1>2, <2>1, <2>2 DEF Total
  <2> QED BY <2>1, <2>2, <2>3, <2>4, <2>5
<1>5. \A i, k : Before(f, i, k) = R(i - 1) + (IF k = 0 THEN 0 ELSE C(i, k - 1))
  BY DEF Before
<1> HIDE DEF R, C, N
<1>6. \A i \in 1 .. N + 1 : Before(f, i, 0) = R(i - 1)
  <2> TAKE i \in 1 .. N + 1
  <2>1. R(i - 1) \in Nat
    BY <1>1, <1>3
  <2> QED BY <1>5, <2>1
<1>7. Before(f, 1, 0) = 0 /\ Before(f, N + 1, 0) = OverSegments(f)
  <2>1. 1 \in 1 .. N + 1 /\ N + 1 \in 1 .. N + 1 /\ 1 - 1 = 0 /\ (N + 1) - 1 = N
    BY <1>1
  <2> QED BY <1>3, <1>6, <2>1
<1>8. \A i \in 1 .. N + 1 : Before(f, i, 0) \in Nat /\ Before(f, i, 0) <= OverSegments(f)
  <2>1. \A i \in 1 .. N + 1 : i - 1 \in 0 .. N
    BY <1>1
  <2> QED BY <1>3, <1>6, <2>1
<1>9. ASSUME NEW i \in Objs
      PROVE  Before(f, i, 1) = Before(f, i, 0)
  <2>1. i \in 1 .. N + 1 /\ 1 - 1 = 0
    BY <1>1
  <2>2. Before(f, i, 1) = R(i - 1) + C(i, 0)
    BY <1>5, <2>1
  <2>3. C(i, 0) = 0 /\ R(i - 1) \in Nat
    BY <1>1, <1>3, <1>4
  <2> QED BY <1>6, <2>1, <2>2, <2>3
<1>10. ASSUME NEW i \in Objs, NEW k \in 1 .. Len(SegsOf(i))
       PROVE  /\ f[<<i, k>>] \in Nat /\ Before(f, i, k) \in Nat
              /\ Before(f, i, k) + f[<<i, k>>] <= OverSegments(f)
              /\ k < Len(SegsOf(i)) => Before(f, i, k + 1) = Before(f, i, k) + f[<<i, k>>]
              /\ k = Len(SegsOf(i)) => Before(f, i + 1, 0) = Before(f, i, k) + f[<<i, k>>]
  <2>1. Before(f, i, k) = R(i - 1) + C(i, k - 1)
    BY <1>5
  <2>2. C(i, k) = C(i, k - 1) + f[<<i, k>>]
    BY <1>4
  <2>3. i - 1 \in 0 .. N /\ i \in 0 .. N /\ i \in 1 .. N /\ i + 1 \in 1 .. N + 1 /\ (i + 1) - 1 = i
    BY <1>1
  <2>4. k - 1 \in 0 .. Len(SegsOf(i)) /\ k \in 0 .. Len(SegsOf(i))
    BY <1>1
  <2>5. C(i, k - 1) \in Nat /\ C(i, k) \in Nat /\ C(i, k) <= RowSums(f)[i]
    BY <1>4, <2>4
  <2>6. R(i - 1) \in Nat /\ R(i) \in Nat /\ R(i) <= OverSegments(f)
        /\ R(i) = R(i - 1) + RowSums(f)[i] /\ OverSegments(f) \in Nat
    BY <1>3, <2>3
  <2>7. f[<<i, k>>] \in Nat /\ RowSums(f)[i] \in Nat
    <3>1. Row(f, i)[k] \in Nat /\ RowSums(f)[i] \in Nat
      BY <1>2, <1>1
    <3> QED BY <1>2, <3>1
  <2>8. Before(f, i, k) \in Nat /\ Before(f, i, k) + f[<<i, k>>] <= OverSegments(f)
    <3> DEFINE a == R(i - 1)
               b == C(i, k - 1)
               x == f[<<i, k>>]
    <3> HIDE DEF a, b, x
    <3>1. a \in Nat /\ b \in Nat /\ x \in Nat /\ Before(f, i, k) = a + b
      BY <2>1, <2>5, <2>6, <2>7 DEF a, b, x
    <3>2. C(i, k) = b + x /\ R(i) = a + RowSums(f)[i]
      BY <2>2, <2>6 DEF a, b, x
    <3>3. (a + b) + x <= OverSegments(f)
      BY <2>5, <2>6, <2>7, <3>1, <3>2, SMTT(30)
    <3> QED BY <3>1, <3>3 DEF x
  <2>9. k < Len(SegsOf(i)) => Before(f, i, k + 1) = Before(f, i, k) + f[<<i, k>>]
    <3>1. k + 1 # 0 /\ (k + 1) - 1 = k
      BY <2>4
    <3>2. Before(f, i, k + 1) = R(i - 1) + C(i, k)
      BY <1>5, <3>1
    <3> QED BY <2>1, <2>2, <2>5, <2>6, <2>7, <3>2, SMTT(60)
  <2>10. k = Len(SegsOf(i)) => Before(f, i + 1, 0) = Before(f, i, k) + f[<<i, k>>]
    <3>1. Before(f, i + 1, 0) = R(i)
      BY <1>6, <2>3
    <3>2. k = Len(SegsOf(i)) => RowSums(f)[i] = C(i, k)
      BY <1>2
    <3> QED BY <2>1, <2>2, <2>5, <2>6, <2>7, <3>1, <3>2
  <2> QED BY <2>7, <2>8, <2>9, <2>10
<1> QED BY <1>3, <1>7, <1>8, <1>9, <1>10 DEF N

\* The same for the heads of the objects.
LEMMA HeadSums ==
  ASSUME link \in Links, NEW r
  PROVE  /\ Heads(r, 1, 0) = 0
         /\ Heads(r, Len(link.objects) + 1, 0) = Total(HeadNeed(r), Len(link.objects))
         /\ Total(HeadNeed(r), Len(link.objects)) \in Nat
         /\ \A i \in Objs :
              /\ HeadNeed(r)[i] \in Nat /\ Heads(r, i, 0) \in Nat /\ Heads(r, i, 1) \in Nat
              /\ Heads(r, i, 1) = Heads(r, i, 0) + HeadNeed(r)[i]
              /\ Heads(r, i, 1) <= Total(HeadNeed(r), Len(link.objects))
              /\ \A k \in Nat \ {0} : Heads(r, i, k) = Heads(r, i, 1)
              /\ Heads(r, i + 1, 0) = Heads(r, i, 1)
<1>1. PICK n \in Nat : n = Len(link.objects) /\ Objs = 1 .. n
  BY ObjectsTyped DEF Objs
<1>2. PICK g \in [1 .. n -> Nat] : g = HeadNeed(r)
  BY <1>1, NeedsTyped
<1> DEFINE T(i) == Totals(g, n)[i]
<1>3. T(0) = 0 /\ \A i \in 1 .. n : T(i) = T(i - 1) + g[i]
  BY TotalsLaw
<1>4. \A i \in 0 .. n : T(i) \in Nat /\ Total(g, n) \in Nat /\ T(i) <= Total(g, n)
  BY TotalsRise
<1>5. T(n) = Total(g, n) /\ Total(g, n) \in Nat
  <2>1. n \in 0 .. n
    OBVIOUS
  <2> QED BY <1>4, <2>1 DEF Total
<1>6. \A i, k : Heads(r, i, k) = T(IF k = 0 THEN i - 1 ELSE i)
  BY <1>1, <1>2 DEF Heads
<1> HIDE DEF T
<1>7. Heads(r, 1, 0) = 0 /\ Heads(r, n + 1, 0) = Total(g, n)
  <2>1. 1 - 1 = 0 /\ (n + 1) - 1 = n
    OBVIOUS
  <2> QED BY <1>3, <1>5, <1>6, <2>1
<1>8. ASSUME NEW i \in 1 .. n
      PROVE  /\ g[i] \in Nat /\ Heads(r, i, 0) \in Nat /\ Heads(r, i, 1) \in Nat
             /\ Heads(r, i, 1) = Heads(r, i, 0) + g[i]
             /\ Heads(r, i, 1) <= Total(g, n)
             /\ \A k \in Nat \ {0} : Heads(r, i, k) = Heads(r, i, 1)
             /\ Heads(r, i + 1, 0) = Heads(r, i, 1)
  <2>1. i \in 0 .. n /\ i - 1 \in 0 .. n /\ (i + 1) - 1 = i
    OBVIOUS
  <2>2. /\ Heads(r, i, 0) = T(i - 1) /\ Heads(r, i, 1) = T(i) /\ Heads(r, i + 1, 0) = T(i)
        /\ \A k \in Nat \ {0} : Heads(r, i, k) = T(i)
    BY <1>6, <2>1
  <2>3. g[i] \in Nat
    OBVIOUS
  <2> QED BY <1>3, <1>4, <2>1, <2>2, <2>3
<1> QED BY <1>1, <1>2, <1>5, <1>7, <1>8

\* What the tables need.
LEMMA TablesNat ==
  ASSUME link \in Links
  PROVE  TableNeed.copy \in Nat /\ TableNeed.zero \in Nat /\ TableNeed.init \in Nat
<1>1. OverSegments(CopyNeed) \in Nat /\ OverSegments(ZeroNeed) \in Nat
  <2>1. PICK f \in [Places -> Nat] : f = CopyNeed
    BY NeedsTyped
  <2>2. PICK g \in [Places -> Nat] : g = ZeroNeed
    BY NeedsTyped
  <2>3. OverSegments(f) \in Nat /\ OverSegments(g) \in Nat
    BY WalkSums
  <2> QED BY <2>1, <2>2, <2>3
<1>2. Len(link.inits) \in Nat
  <2>1. link.inits \in Seq(Labels)
    BY LinksAssumption DEF WellFormed
  <2> QED BY <2>1
<1>3. /\ TableNeed.copy = 6 * (1 + OverSegments(CopyNeed))
      /\ TableNeed.zero = 4 * (1 + OverSegments(ZeroNeed))
      /\ TableNeed.init = 2 * (1 + Len(link.inits))
  BY DEF TableNeed
<1> QED BY <1>1, <1>2, <1>3

\* What a region holds grows by what is placed, up to what is asked of it.
LEMMA HeldGrows ==
  ASSUME link \in Links, NEW r
  PROVE  /\ Demand(r) \in Nat /\ Held(r, 1, 0) = 0
         /\ Held(r, Len(link.objects) + 1, 0) \in Nat
         /\ Demand(r) = Held(r, Len(link.objects) + 1, 0)
              + (IF link.data_load = r THEN TableNeed.copy + TableNeed.zero + TableNeed.init ELSE 0)
         /\ \A i \in Objs :
              /\ HeadNeed(r)[i] \in Nat /\ Held(r, i, 0) \in Nat
              /\ Held(r, i, 1) = Held(r, i, 0) + HeadNeed(r)[i]
              /\ Held(r, i, 1) <= Demand(r)
              /\ \A k \in 1 .. Len(SegsOf(i)) :
                   /\ RunNeed(r)[<<i, k>>] \in Nat /\ Held(r, i, k) \in Nat
                   /\ Held(r, i, k) + RunNeed(r)[<<i, k>>] <= Demand(r)
                   /\ k < Len(SegsOf(i)) => Held(r, i, k + 1) = Held(r, i, k) + RunNeed(r)[<<i, k>>]
                   /\ k = Len(SegsOf(i)) => Held(r, i + 1, 0) = Held(r, i, k) + RunNeed(r)[<<i, k>>]
<1>1. PICK n \in Nat : n = Len(link.objects) /\ Objs = 1 .. n
  BY ObjectsTyped DEF Objs
<1>2. PICK f \in [Places -> Nat] : f = RunNeed(r)
  BY NeedsTyped
<1>3. PICK h : h = Total(HeadNeed(r), n)
  OBVIOUS
<1>4. PICK s : s = OverSegments(f)
  OBVIOUS
<1>5. PICK t : t = IF link.data_load = r
                   THEN TableNeed.copy + TableNeed.zero + TableNeed.init ELSE 0
  OBVIOUS
<1>6. t \in Nat
  BY <1>5, TablesNat
<1>7. Demand(r) = h + s + t
  BY <1>1, <1>2, <1>3, <1>4, <1>5 DEF Demand
<1>8. h \in Nat /\ Heads(r, 1, 0) = 0 /\ Heads(r, n + 1, 0) = h
  BY <1>1, <1>3, HeadSums
<1>9. ASSUME NEW i \in Objs
      PROVE  /\ HeadNeed(r)[i] \in Nat /\ Heads(r, i, 0) \in Nat /\ Heads(r, i, 1) \in Nat
             /\ Heads(r, i, 1) = Heads(r, i, 0) + HeadNeed(r)[i]
             /\ Heads(r, i, 1) <= h
             /\ \A k \in Nat \ {0} : Heads(r, i, k) = Heads(r, i, 1)
             /\ Heads(r, i + 1, 0) = Heads(r, i, 1)
  BY <1>1, <1>3, HeadSums
<1>10. /\ Before(f, 1, 0) = 0 /\ s \in Nat /\ Before(f, n + 1, 0) = s
       /\ \A i \in 1 .. n + 1 : Before(f, i, 0) \in Nat /\ Before(f, i, 0) <= s
  BY <1>1, <1>4, WalkSums
<1>11. ASSUME NEW i \in Objs
       PROVE  /\ Before(f, i, 1) = Before(f, i, 0)
              /\ \A k \in 1 .. Len(SegsOf(i)) :
                   /\ f[<<i, k>>] \in Nat /\ Before(f, i, k) \in Nat
                   /\ Before(f, i, k) + f[<<i, k>>] <= s
                   /\ k < Len(SegsOf(i)) => Before(f, i, k + 1) = Before(f, i, k) + f[<<i, k>>]
                   /\ k = Len(SegsOf(i)) => Before(f, i + 1, 0) = Before(f, i, k) + f[<<i, k>>]
  BY <1>4, WalkSums
<1>12. \A i, k : Held(r, i, k) = Heads(r, i, k) + Before(f, i, k)
  BY <1>2 DEF Held
<1>13. /\ Demand(r) \in Nat /\ Held(r, 1, 0) = 0 /\ Held(r, n + 1, 0) \in Nat
       /\ Demand(r) = Held(r, n + 1, 0) + t
  BY <1>6, <1>7, <1>8, <1>10, <1>12
<1>14. ASSUME NEW i \in Objs
       PROVE  /\ HeadNeed(r)[i] \in Nat /\ Held(r, i, 0) \in Nat
              /\ Held(r, i, 1) = Held(r, i, 0) + HeadNeed(r)[i]
              /\ Held(r, i, 1) <= Demand(r)
  <2>1. i \in 1 .. n + 1
    BY <1>1
  <2>2. Before(f, i, 0) \in Nat /\ Before(f, i, 0) <= s /\ Before(f, i, 1) = Before(f, i, 0)
    BY <1>10, <1>11, <2>1
  <2>3. /\ HeadNeed(r)[i] \in Nat /\ Heads(r, i, 0) \in Nat /\ Heads(r, i, 1) \in Nat
        /\ Heads(r, i, 1) = Heads(r, i, 0) + HeadNeed(r)[i] /\ Heads(r, i, 1) <= h
    BY <1>9
  <2>4. /\ Held(r, i, 0) = Heads(r, i, 0) + Before(f, i, 0)
        /\ Held(r, i, 1) = Heads(r, i, 1) + Before(f, i, 0)
    BY <1>12, <2>2
  <2> QED BY <1>6, <1>7, <1>8, <1>10, <2>2, <2>3, <2>4
<1>15. ASSUME NEW i \in Objs, NEW k \in 1 .. Len(SegsOf(i))
       PROVE  /\ f[<<i, k>>] \in Nat /\ Held(r, i, k) \in Nat
              /\ Held(r, i, k) + f[<<i, k>>] <= Demand(r)
              /\ k < Len(SegsOf(i)) => Held(r, i, k + 1) = Held(r, i, k) + f[<<i, k>>]
              /\ k = Len(SegsOf(i)) => Held(r, i + 1, 0) = Held(r, i, k) + f[<<i, k>>]
  <2>1. k \in Nat \ {0} /\ k + 1 \in Nat \ {0}
    OBVIOUS
  <2>2. PICK a : a = Heads(r, i, 1)
    OBVIOUS
  <2>3. PICK b : b = Before(f, i, k)
    OBVIOUS
  <2>4. PICK x : x = f[<<i, k>>]
    OBVIOUS
  <2>5. /\ a \in Nat /\ a <= h /\ Heads(r, i, k) = a /\ Heads(r, i, k + 1) = a
        /\ Heads(r, i + 1, 0) = a
    BY <1>9, <2>1, <2>2
  <2>6. /\ x \in Nat /\ b \in Nat /\ b + x <= s
        /\ k < Len(SegsOf(i)) => Before(f, i, k + 1) = b + x
        /\ k = Len(SegsOf(i)) => Before(f, i + 1, 0) = b + x
    BY <1>11, <2>3, <2>4
  <2>7. /\ Held(r, i, k) = a + b
        /\ k < Len(SegsOf(i)) => Held(r, i, k + 1) = a + (b + x)
        /\ k = Len(SegsOf(i)) => Held(r, i + 1, 0) = a + (b + x)
    BY <1>12, <2>3, <2>5, <2>6
  <2>8. (a + b) + x = a + (b + x) /\ a + (b + x) <= h + s + t
    BY <1>6, <1>8, <1>10, <2>5, <2>6
  <2> QED BY <1>7, <2>4, <2>5, <2>6, <2>7, <2>8
<1> QED BY <1>1, <1>2, <1>5, <1>13, <1>14, <1>15

\* As long as everything fits there is room for what comes next.
LEMMA RoomWhenFits ==
  ASSUME link \in Links, Separate(link), Fits, NEW r \in Asked, NEW c, NEW held \in Nat,
         NEW n \in Nat, c[r] = link.mem[r].start + held, held + n <= Demand(r)
  PROVE  Room(c, r, n)
<1>1. r \in DOMAIN link.mem /\ link.mem[r].start + Demand(r) <= Limit(r)
  BY DEF Fits
<1>2. link.mem[r].start \in Nat /\ link.mem[r].size \in Nat
  BY <1>1, SeparateRegions DEF Regions
<1>3. link.mem[r].start + link.mem[r].size <= Space
  <2>1. CASE r = "ROM"
    BY <1>1, <2>1 DEF Separate
  <2>2. CASE r # "ROM"
    <3>1. link.mem[r].start + link.mem[r].size <= VectorTable
      BY <1>1, <2>2 DEF Separate
    <3> QED BY <1>2, <3>1, SpaceNat
  <2> QED BY <2>1, <2>2
<1>4. EndOf(r) \in Nat /\ EndOf(r) <= Space
  BY <1>2, <1>3 DEF EndOf
<1>5. /\ Limit(r) \in Nat /\ Limit(r) <= EndOf(r)
      /\ r = "ROM" => Limit(r) <= VectorTable
  BY <1>4, SpaceNat DEF Limit
<1>6. Demand(r) \in Nat
  BY HeldGrows
<1>7. c[r] + n <= Limit(r) /\ c[r] + n \in Nat
  BY <1>1, <1>2, <1>5, <1>6
<1> QED BY <1>1, <1>4, <1>5, <1>7, SpaceNat DEF Room

\* All of this depends on the link alone.
LEMMA SameLink ==
  ASSUME link' = link
  PROVE  /\ \A r : Demand(r)' = Demand(r)
         /\ \A r : Held(r, at, lay)' = Held(r, at', lay')
         /\ Copies(at, lay)' = Copies(at', lay') /\ Zeros(at, lay)' = Zeros(at', lay')
         /\ Fits' = Fits /\ TablesCounted' = TablesCounted /\ Rules' = Rules
<1>1. Objs' = Objs /\ Places' = Places
  BY DEF Objs, Places, SegsOf
<1>2. \A r : HeadNeed(r)' = HeadNeed(r)
  BY DEF HeadNeed, Objs, SegsOf
<1>3. \A r : RunNeed(r)' = RunNeed(r)
  BY DEF RunNeed, RunsIn, RunRegion, Places, Objs, Segment, SegsOf
<1>4. CopyNeed' = CopyNeed /\ ZeroNeed' = ZeroNeed
  BY DEF CopyNeed, ZeroNeed, Places, Objs, Segment, SegsOf
<1>5. \A f : RowSums(f)' = RowSums(f)
  BY DEF RowSums, Row, Objs, SegsOf
<1>6. \A f : OverSegments(f)' = OverSegments(f)
  BY <1>5 DEF OverSegments
<1>7. TableNeed' = TableNeed
  BY <1>4, <1>6 DEF TableNeed, OverSegments, RowSums, Row, Objs, SegsOf
<1>8. \A r : Demand(r)' = Demand(r)
  BY <1>2, <1>3, <1>7 DEF Demand, OverSegments, RowSums, Row, Objs, SegsOf
<1>9. \A r : Held(r, at, lay)' = Held(r, at', lay')
  BY <1>2, <1>3 DEF Held, Heads, Before, RowSums, Row, Objs, SegsOf
<1>10. Copies(at, lay)' = Copies(at', lay') /\ Zeros(at, lay)' = Zeros(at', lay')
  BY <1>4 DEF Copies, Zeros, Before, RowSums, Row, Objs, SegsOf
<1>11. Asked' = Asked
  BY DEF Asked, RunRegion, Places, Objs, Segment, SegsOf
<1>12. Fits' = Fits
  BY <1>8, <1>11 DEF Fits, Limit, EndOf
<1>13. TablesCounted' = TablesCounted /\ Rules' = Rules
  BY <1>7 DEF TablesCounted, Rules
<1> QED BY <1>8, <1>9, <1>10, <1>12, <1>13

\* While the linker places: what has to be shown of a step.
LEMMA CountNow ==
  ASSUME link' = link, Working', phase' # "overflow",
         \A r \in DOMAIN link.mem : cur'[r] = link.mem[r].start + Held(r, at', lay'),
         Len(copy_records') = Copies(at', lay'), Len(zero_records') = Zeros(at', lay')
  PROVE  CountInv'
<1>1. ~Placed'
  BY DEF Working, Placed
<1>2. /\ \A r : Held(r, at, lay)' = Held(r, at', lay')
      /\ Copies(at, lay)' = Copies(at', lay') /\ Zeros(at, lay)' = Zeros(at', lay')
  BY SameLink
<1>3. \A r \in DOMAIN link.mem : cur'[r] = link.mem[r].start + (Held(r, at, lay))'
  BY <1>2
<1>4. Len(copy_records') = Copies(at, lay)' /\ Len(zero_records') = Zeros(at, lay)'
  BY <1>2
<1> QED BY <1>1, <1>3, <1>4 DEF CountInv, Counts

\* The step that fails.
LEMMA CountFull ==
  ASSUME link' = link, phase' = "overflow",
         Separate(link) => ~Fits \/ ~(Rules \subseteq DOMAIN link.mem)
  PROVE  CountInv'
<1>1. ~Placed' /\ ~Working'
  BY DEF Working, Placed
<1>2. Fits' = Fits /\ Rules' = Rules
  BY SameLink
<1> QED BY <1>1, <1>2 DEF CountInv, Counts

\* A step that places nothing.
LEMMA CountStill ==
  ASSUME CountInv, UNCHANGED <<link, cur, at, lay, copy_records, zero_records>>,
         Working' = Working, Placed' = Placed, (phase = "overflow")' = (phase = "overflow")
  PROVE  CountInv'
<1>1. /\ \A r : Held(r, at, lay)' = Held(r, at', lay')
      /\ Copies(at, lay)' = Copies(at', lay') /\ Zeros(at, lay)' = Zeros(at', lay')
      /\ Fits' = Fits /\ TablesCounted' = TablesCounted /\ Rules' = Rules
      /\ \A r : Demand(r)' = Demand(r)
  BY SameLink
<1> QED BY <1>1 DEF CountInv, Counts

\* Other regions than separate ones are left out.
LEMMA CountSeparate ==
  ASSUME link' = link, ~Separate(link)
  PROVE  CountInv'
BY DEF CountInv

\* Before the first placement there is nothing to count.
LEMMA CountInit == Init => CountInv
<1> SUFFICES ASSUME Init, Separate(link) PROVE Counts
  BY DEF CountInv
<1>1. /\ link \in Links /\ phase = "config" /\ at = 1 /\ lay = 0
      /\ cur = [r \in DOMAIN link.mem |-> link.mem[r].start]
      /\ copy_records = <<>> /\ zero_records = <<>>
  BY DEF Init
<1>2. \A r : Held(r, 1, 0) = 0
  BY <1>1, HeldGrows
<1>3. Copies(1, 0) = 0 /\ Zeros(1, 0) = 0
  <2>1. PICK f \in [Places -> Nat] : f = CopyNeed
    BY <1>1, NeedsTyped
  <2>2. PICK g \in [Places -> Nat] : g = ZeroNeed
    BY <1>1, NeedsTyped
  <2>3. Before(f, 1, 0) = 0 /\ Before(g, 1, 0) = 0
    BY <1>1, WalkSums
  <2> QED BY <2>1, <2>2, <2>3 DEF Copies, Zeros
<1>4. \A r \in DOMAIN link.mem : link.mem[r].start \in Nat
  BY <1>1, SeparateRegions DEF Regions
<1>5. \A r \in DOMAIN link.mem : cur[r] = link.mem[r].start + Held(r, at, lay)
  BY <1>1, <1>2, <1>4
<1>6. Len(copy_records) = Copies(at, lay) /\ Len(zero_records) = Zeros(at, lay)
  BY <1>1, <1>3
<1> QED BY <1>1, <1>5, <1>6 DEF Counts, Placed

\* Checking the configuration places nothing.
LEMMA CountConfig == IInv /\ CountInv /\ CheckConfig => CountInv'
<1> SUFFICES ASSUME IInv, CountInv, CheckConfig PROVE CountInv'
  OBVIOUS
<1>1. /\ phase = "config" /\ UNCHANGED <<link, cur, at, lay, copy_records, zero_records>>
  BY DEF CheckConfig
<1>2. CASE phase' = "place"
  BY <1>1, <1>2, CountStill DEF Working, Placed
<1>3. CASE phase' = "overflow" /\ ~(Rules \subseteq DOMAIN link.mem)
  BY <1>1, <1>3, CountFull
<1> QED BY <1>2, <1>3 DEF CheckConfig, Rules

\* Text and load image of an object.
LEMMA CountObject == IInv /\ CountInv /\ PlaceObject => CountInv'
<1> SUFFICES ASSUME IInv, CountInv, PlaceObject, Separate(link) PROVE CountInv'
  BY CountSeparate DEF PlaceObject
<1> DEFINE n == Length(SegsOf(at), "TEXT")
           m == Length(SegsOf(at), "DATA")
           q == link.code_load
           r == link.data_load
           c == Advance(cur, q, n)
<1>1. /\ phase = "place" /\ at \in Objs /\ lay = 0 /\ link' = link
      /\ at' = at /\ link \in Links
      /\ UNCHANGED <<copy_records, zero_records>>
  BY DEF PlaceObject, IInv
<1>2. n \in Nat /\ m \in Nat
  BY <1>1, ObjectsTyped DEF Objs, SegsOf
<1>3. /\ \A p \in DOMAIN link.mem : cur[p] = link.mem[p].start + Held(p, at, 0)
      /\ Len(copy_records) = Copies(at, 0) /\ Len(zero_records) = Zeros(at, 0)
  BY <1>1 DEF CountInv, Counts, Working
<1>4. \A p : HeadNeed(p)[at] = (IF q = p THEN n ELSE 0) + (IF r = p THEN m ELSE 0)
  BY <1>1 DEF HeadNeed
<1>5. Cursors(link.mem, cur) /\ Regions(link.mem)
  BY <1>1, SeparateRegions DEF IInv, Packing, Working
<1>6. \A p : /\ Held(p, at, 0) \in Nat /\ Held(p, at, 1) = Held(p, at, 0) + HeadNeed(p)[at]
             /\ Held(p, at, 1) <= Demand(p) /\ Demand(p) \in Nat
  BY <1>1, HeldGrows
<1>7. q \in Asked /\ r \in Asked
  BY <1>1 DEF Asked
<1>8. \A p \in DOMAIN link.mem : link.mem[p].start \in Nat
  BY <1>5 DEF Regions
<1> HIDE DEF n, m, q, r
<1>9. Room(cur, q, n) => /\ q \in DOMAIN link.mem
                         /\ c = [cur EXCEPT ![q] = cur[q] + n] /\ Cursors(link.mem, c)
  <2> SUFFICES ASSUME Room(cur, q, n)
               PROVE  /\ q \in DOMAIN link.mem
                      /\ c = [cur EXCEPT ![q] = cur[q] + n] /\ Cursors(link.mem, c)
    OBVIOUS
  <2>1. RoomIn(link.mem, cur, q, n)
    BY RoomIsRoomIn
  <2>2. q \in DOMAIN link.mem
    BY <2>1 DEF RoomIn
  <2> QED BY <1>2, <1>5, <2>1, <2>2, AdvanceKeeps
<1>10. Room(cur, q, n) =>
         \A p \in DOMAIN link.mem :
           c[p] = link.mem[p].start + (Held(p, at, 0) + (IF q = p THEN n ELSE 0))
  <2> SUFFICES ASSUME Room(cur, q, n), NEW p \in DOMAIN link.mem
               PROVE c[p] = link.mem[p].start + (Held(p, at, 0) + (IF q = p THEN n ELSE 0))
    OBVIOUS
  <2>1. cur \in [DOMAIN link.mem -> 0 .. Space - 1]
    BY <1>5 DEF Cursors
  <2>2. c[p] = IF q = p THEN cur[p] + n ELSE cur[p]
    BY <1>9, <2>1
  <2> HIDE DEF c
  <2> QED BY <1>2, <1>3, <1>6, <1>8, <2>2
<1> HIDE DEF c
<1>11. ASSUME Fits
       PROVE  Room(cur, q, n) /\ Room(c, r, m)
  <2>1. q \in DOMAIN link.mem /\ r \in DOMAIN link.mem
    BY <1>7, <1>11 DEF Fits
  <2>2. PICK held : held = Held(q, at, 0)
    OBVIOUS
  <2>3. held \in Nat /\ cur[q] = link.mem[q].start + held /\ held + n <= Demand(q)
    <3>1. HeadNeed(q)[at] = n + (IF r = q THEN m ELSE 0)
      BY <1>2, <1>4
    <3> QED BY <1>2, <1>3, <1>6, <2>1, <2>2, <3>1
  <2>4. Room(cur, q, n)
    BY <1>1, <1>2, <1>7, <1>11, <2>3, RoomWhenFits
  <2>5. PICK more : more = Held(r, at, 0) + (IF q = r THEN n ELSE 0)
    OBVIOUS
  <2>6. more \in Nat /\ c[r] = link.mem[r].start + more /\ more + m <= Demand(r)
    <3>1. HeadNeed(r)[at] = (IF q = r THEN n ELSE 0) + m
      BY <1>2, <1>4
    <3>2. c[r] = link.mem[r].start + more
      BY <1>10, <2>1, <2>4, <2>5
    <3> QED BY <1>2, <1>6, <2>5, <3>1, <3>2
  <2>7. Room(c, r, m)
    BY <1>1, <1>2, <1>7, <1>11, <2>6, RoomWhenFits
  <2> QED BY <2>4, <2>7
<1>12. CASE phase' = "overflow" /\ ~(Room(cur, q, n) /\ Room(c, r, m))
  BY <1>1, <1>11, <1>12, CountFull
<1>13. CASE /\ Room(cur, q, n) /\ Room(c, r, m)
            /\ cur' = Advance(c, r, m)
            /\ lay' = 1 /\ phase' = phase
  <2>1. Cursors(link.mem, c)
    BY <1>9, <1>13
  <2>2. cur' = [c EXCEPT ![r] = c[r] + m] /\ r \in DOMAIN link.mem
    BY <1>2, <1>5, <1>13, <2>1, RoomIsRoomIn, AdvanceKeeps DEF RoomIn
  <2>3. c \in [DOMAIN link.mem -> 0 .. Space - 1]
    BY <2>1 DEF Cursors
  <2>4. \A p \in DOMAIN link.mem : cur'[p] = link.mem[p].start + Held(p, at, 1)
    <3> TAKE p \in DOMAIN link.mem
    <3>1. cur'[p] = IF r = p THEN c[p] + m ELSE c[p]
      BY <2>2, <2>3
    <3>2. c[p] = link.mem[p].start + (Held(p, at, 0) + (IF q = p THEN n ELSE 0))
      BY <1>10, <1>13
    <3>3. Held(p, at, 1) = Held(p, at, 0) + ((IF q = p THEN n ELSE 0) + (IF r = p THEN m ELSE 0))
      BY <1>4, <1>6
    <3> QED BY <1>2, <1>6, <1>8, <3>1, <3>2, <3>3
  <2>5. Copies(at, 1) = Copies(at, 0) /\ Zeros(at, 1) = Zeros(at, 0)
    <3>1. PICK f \in [Places -> Nat] : f = CopyNeed
      BY <1>1, NeedsTyped
    <3>2. PICK g \in [Places -> Nat] : g = ZeroNeed
      BY <1>1, NeedsTyped
    <3>3. Before(f, at, 1) = Before(f, at, 0) /\ Before(g, at, 1) = Before(g, at, 0)
      BY <1>1, WalkSums
    <3> QED BY <3>1, <3>2, <3>3 DEF Copies, Zeros
  <2>6. phase' = "place" /\ Working'
    BY <1>1, <1>13 DEF Working
  <2> QED BY <1>1, <1>3, <1>13, <2>4, <2>5, <2>6, CountNow
<1> QED BY <1>12, <1>13 DEF PlaceObject, n, m, q, r, c

\* Behind a segment there is what it asks for besides what was there.
LEMMA CountOnward ==
  ASSUME IInv, phase = "place", at \in Objs, lay # 0, NextSegment
  PROVE  /\ <<at, lay>> \in Places
         /\ \A r : /\ Held(r, at, lay) \in Nat /\ RunNeed(r)[<<at, lay>>] \in Nat
                   /\ Held(r, at', lay') = Held(r, at, lay) + RunNeed(r)[<<at, lay>>]
                   /\ Held(r, at, lay) + RunNeed(r)[<<at, lay>>] <= Demand(r)
         /\ Copies(at', lay') = Copies(at, lay) + CopyNeed[<<at, lay>>]
         /\ Zeros(at', lay') = Zeros(at, lay) + ZeroNeed[<<at, lay>>]
         /\ Copies(at, lay) \in Nat /\ Zeros(at, lay) \in Nat
<1>1. link \in Links /\ lay \in Nat /\ lay <= Len(SegsOf(at))
  BY DEF IInv, Position, Working
<1>2. Len(SegsOf(at)) \in Nat /\ DOMAIN SegsOf(at) = 1 .. Len(SegsOf(at))
  BY <1>1, ObjectsTyped DEF Objs, SegsOf
<1>3. lay \in 1 .. Len(SegsOf(at))
  BY <1>1, <1>2
<1>4. <<at, lay>> \in Places
  BY <1>2, <1>3 DEF Places
<1>5. \/ lay < Len(SegsOf(at)) /\ at' = at /\ lay' = lay + 1
      \/ lay = Len(SegsOf(at)) /\ at' = at + 1 /\ lay' = 0
  <2>1. lay = Len(SegsOf(at)) \/ lay < Len(SegsOf(at))
    <3>1. \A a, b \in Nat : a <= b => a = b \/ a < b
      OBVIOUS
    <3> QED BY <1>1, <1>2, <3>1, Zenon
  <2>2. \/ lay = Len(SegsOf(at)) /\ at' = at + 1 /\ lay' = 0
        \/ lay # Len(SegsOf(at)) /\ at' = at /\ lay' = lay + 1
    BY DEF NextSegment
  <2> QED BY <2>1, <2>2
<1>6. ASSUME NEW r
      PROVE  /\ Held(r, at, lay) \in Nat /\ RunNeed(r)[<<at, lay>>] \in Nat
             /\ Held(r, at', lay') = Held(r, at, lay) + RunNeed(r)[<<at, lay>>]
             /\ Held(r, at, lay) + RunNeed(r)[<<at, lay>>] <= Demand(r)
  <2>1. /\ RunNeed(r)[<<at, lay>>] \in Nat /\ Held(r, at, lay) \in Nat
        /\ Held(r, at, lay) + RunNeed(r)[<<at, lay>>] <= Demand(r)
        /\ lay < Len(SegsOf(at)) => Held(r, at, lay + 1) = Held(r, at, lay) + RunNeed(r)[<<at, lay>>]
        /\ lay = Len(SegsOf(at)) => Held(r, at + 1, 0) = Held(r, at, lay) + RunNeed(r)[<<at, lay>>]
    BY <1>1, <1>3, HeldGrows
  <2> QED BY <1>5, <2>1
<1>7. ASSUME NEW f \in [Places -> Nat]
      PROVE  Before(f, at', lay') = Before(f, at, lay) + f[<<at, lay>>] /\ Before(f, at, lay) \in Nat
  <2>1. /\ Before(f, at, lay) \in Nat
        /\ lay < Len(SegsOf(at)) => Before(f, at, lay + 1) = Before(f, at, lay) + f[<<at, lay>>]
        /\ lay = Len(SegsOf(at)) => Before(f, at + 1, 0) = Before(f, at, lay) + f[<<at, lay>>]
    BY <1>1, <1>3, WalkSums
  <2> QED BY <1>5, <2>1
<1>8. /\ Copies(at', lay') = Copies(at, lay) + CopyNeed[<<at, lay>>] /\ Copies(at, lay) \in Nat
      /\ Zeros(at', lay') = Zeros(at, lay) + ZeroNeed[<<at, lay>>] /\ Zeros(at, lay) \in Nat
  <2>1. PICK f \in [Places -> Nat] : f = CopyNeed
    BY <1>1, NeedsTyped
  <2>2. PICK g \in [Places -> Nat] : g = ZeroNeed
    BY <1>1, NeedsTyped
  <2> QED BY <1>7, <2>1, <2>2 DEF Copies, Zeros
<1> QED BY <1>4, <1>6, <1>8

\* A placed segment of code adds no record.
LEMMA CountText == IInv /\ CountInv /\ PlaceText => CountInv'
<1> SUFFICES ASSUME IInv, CountInv, PlaceText, Separate(link) PROVE CountInv'
  BY CountSeparate DEF PlaceText
<1>1. /\ phase = "place" /\ at \in Objs /\ lay # 0 /\ SegsOf(at)[lay].segid = "TEXT"
      /\ NextSegment /\ link \in Links
      /\ UNCHANGED <<link, phase, cur, copy_records, zero_records>>
  BY DEF PlaceText, IInv
<1>2. /\ \A r \in DOMAIN link.mem : cur[r] = link.mem[r].start + Held(r, at, lay)
      /\ Len(copy_records) = Copies(at, lay) /\ Len(zero_records) = Zeros(at, lay)
  BY <1>1 DEF CountInv, Counts, Working
<1>3. /\ <<at, lay>> \in Places
      /\ \A r : /\ Held(r, at, lay) \in Nat
                /\ Held(r, at', lay') = Held(r, at, lay) + RunNeed(r)[<<at, lay>>]
      /\ Copies(at', lay') = Copies(at, lay) + CopyNeed[<<at, lay>>]
      /\ Zeros(at', lay') = Zeros(at, lay) + ZeroNeed[<<at, lay>>]
      /\ Copies(at, lay) \in Nat /\ Zeros(at, lay) \in Nat
  BY <1>1, CountOnward
<1>4. /\ \A r : RunNeed(r)[<<at, lay>>] = 0
      /\ CopyNeed[<<at, lay>>] = 0 /\ ZeroNeed[<<at, lay>>] = 0
  BY <1>1, <1>3 DEF RunNeed, RunsIn, CopyNeed, ZeroNeed, Segment
<1>5. /\ \A r : Held(r, at', lay') = Held(r, at, lay)
      /\ Copies(at', lay') = Copies(at, lay) /\ Zeros(at', lay') = Zeros(at, lay)
  BY <1>3, <1>4
<1>6. Working' /\ phase' # "overflow"
  BY <1>1 DEF Working
<1>7. \A r \in DOMAIN link.mem : cur'[r] = link.mem[r].start + Held(r, at', lay')
  BY <1>1, <1>2, <1>5
<1>8. Len(copy_records') = Copies(at', lay') /\ Len(zero_records') = Zeros(at', lay')
  BY <1>1, <1>2, <1>5
<1> QED BY <1>1, <1>6, <1>7, <1>8, CountNow

\* A list that grows is longer by one.
LEMMA LenAppend ==
  ASSUME NEW s, IsSeq(s), NEW e
  PROVE  Len(Append(s, e)) = Len(s) + 1
<1> DEFINE S == {s[k] : k \in 1 .. Len(s)} \cup {e}
<1>1. s \in Seq(S)
  <2>1. Len(s) \in Nat /\ s = [k \in 1 .. Len(s) |-> s[k]] /\ \A k \in 1 .. Len(s) : s[k] \in S
    BY DEF IsSeq
  <2> HIDE DEF S
  <2> QED BY <2>1
<1>2. e \in S
  OBVIOUS
<1> HIDE DEF S
<1> QED BY <1>1, <1>2

\* A segment that runs elsewhere, and its record.
LEMMA CountRun == IInv /\ CountInv /\ PlaceRun => CountInv'
<1> SUFFICES ASSUME IInv, CountInv, PlaceRun, Separate(link) PROVE CountInv'
  BY CountSeparate DEF PlaceRun
<1> DEFINE p0 == <<at, lay>>
           s == Segment(p0)
           r == RunRegion(s)
<1>1. /\ phase = "place" /\ at \in Objs /\ lay # 0 /\ s.segid # "TEXT"
      /\ link' = link /\ link \in Links
  BY DEF PlaceRun, IInv, Segment
<1>2. /\ \A p \in DOMAIN link.mem : cur[p] = link.mem[p].start + Held(p, at, lay)
      /\ Len(copy_records) = Copies(at, lay) /\ Len(zero_records) = Zeros(at, lay)
  BY <1>1 DEF CountInv, Counts, Working
<1>3. p0 \in Places /\ s.size \in Nat /\ Held(r, at, lay) \in Nat
      /\ Held(r, at, lay) + RunNeed(r)[p0] <= Demand(r)
  <2>1. link \in Links /\ lay \in Nat /\ lay <= Len(SegsOf(at))
    BY <1>1 DEF IInv, Position, Working
  <2>2. Len(SegsOf(at)) \in Nat /\ DOMAIN SegsOf(at) = 1 .. Len(SegsOf(at))
    BY <1>1, ObjectsTyped DEF Objs, SegsOf
  <2>3. lay \in 1 .. Len(SegsOf(at))
    BY <1>1, <2>1, <2>2
  <2>4. p0 \in Places
    BY <1>1, <2>2, <2>3 DEF Places
  <2>5. s.size \in Nat
    BY <1>1, <2>4, PlacesAre
  <2>6. Held(r, at, lay) \in Nat /\ Held(r, at, lay) + RunNeed(r)[p0] <= Demand(r)
    <3> HIDE DEF r
    <3> QED BY <1>1, <2>3, HeldGrows
  <2> QED BY <2>4, <2>5, <2>6
<1>4. \A p : RunNeed(p)[p0] = IF r = p THEN s.size ELSE 0
  BY <1>1, <1>3 DEF RunNeed, RunsIn
<1>5. /\ CopyNeed[p0] = IF s.size > 0 /\ ImageSeg(s) = "DATA" THEN 1 ELSE 0
      /\ ZeroNeed[p0] = IF Cleared(s) THEN 1 ELSE 0
  BY <1>1, <1>3 DEF CopyNeed, ZeroNeed, Cleared
<1>6. Cursors(link.mem, cur) /\ Regions(link.mem) /\ Records
  BY <1>1, SeparateRegions DEF IInv, Packing, Working
<1>7. r \in Asked
  BY <1>1, <1>3 DEF Asked
<1> HIDE DEF r
<1>8. ASSUME Fits
      PROVE  Room(cur, r, s.size)
  <2>1. r \in DOMAIN link.mem
    BY <1>7, <1>8 DEF Fits
  <2>2. PICK held \in Nat : held = Held(r, at, lay)
    BY <1>3
  <2>3. cur[r] = link.mem[r].start + held /\ held + s.size <= Demand(r)
    BY <1>2, <1>3, <1>4, <2>1, <2>2
  <2> HIDE DEF s
  <2> QED BY <1>1, <1>3, <1>7, <1>8, <2>3, RoomWhenFits
<1>9. CASE phase' = "overflow" /\ ~Room(cur, r, s.size)
  BY <1>1, <1>8, <1>9, CountFull
<1>10. CASE /\ Room(cur, r, s.size)
            /\ cur' = Advance(cur, r, s.size)
            /\ \/ s.size > 0 /\ ImageSeg(s) = "DATA" /\ \E e : copy_records' = Append(copy_records, e)
               \/ ~(s.size > 0 /\ ImageSeg(s) = "DATA") /\ copy_records' = copy_records
            /\ \/ Cleared(s) /\ \E e : zero_records' = Append(zero_records, e)
               \/ ~Cleared(s) /\ zero_records' = zero_records
            /\ NextSegment /\ phase' = phase
  <2>1. /\ \A p : /\ Held(p, at, lay) \in Nat
                  /\ Held(p, at', lay') = Held(p, at, lay) + RunNeed(p)[p0]
        /\ Copies(at', lay') = Copies(at, lay) + CopyNeed[p0]
        /\ Zeros(at', lay') = Zeros(at, lay) + ZeroNeed[p0]
        /\ Copies(at, lay) \in Nat /\ Zeros(at, lay) \in Nat
    BY <1>1, <1>10, CountOnward
  <2> HIDE DEF s
  <2>2. RoomIn(link.mem, cur, r, s.size)
    BY <1>10, RoomIsRoomIn
  <2>3. cur' = [cur EXCEPT ![r] = cur[r] + s.size] /\ r \in DOMAIN link.mem
    <3>1. Advance(cur, r, s.size) = [cur EXCEPT ![r] = cur[r] + s.size]
      BY <1>3, <1>6, <2>2, AdvanceKeeps
    <3> QED BY <1>10, <2>2, <3>1 DEF RoomIn
  <2>4. \A p \in DOMAIN link.mem : cur'[p] = link.mem[p].start + Held(p, at', lay')
    <3> TAKE p \in DOMAIN link.mem
    <3>1. cur \in [DOMAIN link.mem -> 0 .. Space - 1]
      BY <1>6 DEF Cursors
    <3>2. cur'[p] = IF r = p THEN cur[p] + s.size ELSE cur[p]
      BY <2>3, <3>1
    <3>3. Held(p, at', lay') = Held(p, at, lay) + (IF r = p THEN s.size ELSE 0)
      BY <1>4, <2>1
    <3>4. link.mem[p].start \in Nat /\ Held(p, at, lay) \in Nat
      BY <1>6, <2>1 DEF Regions
    <3> QED BY <1>2, <1>3, <3>2, <3>3, <3>4
  <2>5. Len(copy_records') = Copies(at', lay')
    <3>1. CASE s.size > 0 /\ ImageSeg(s) = "DATA"
      <4>1. Len(copy_records') = Len(copy_records) + 1
        BY <1>6, <1>10, <3>1, LenAppend DEF Records
      <4> QED BY <1>2, <1>5, <2>1, <3>1, <4>1
    <3>2. CASE ~(s.size > 0 /\ ImageSeg(s) = "DATA")
      BY <1>2, <1>5, <1>10, <2>1, <3>2
    <3> QED BY <3>1, <3>2
  <2>6. Len(zero_records') = Zeros(at', lay')
    <3>1. CASE Cleared(s)
      <4>1. Len(zero_records') = Len(zero_records) + 1
        BY <1>6, <1>10, <3>1, LenAppend DEF Records
      <4> QED BY <1>2, <1>5, <2>1, <3>1, <4>1
    <3>2. CASE ~Cleared(s)
      BY <1>2, <1>5, <1>10, <2>1, <3>2
    <3> QED BY <3>1, <3>2
  <2>7. Working' /\ phase' # "overflow"
    BY <1>1, <1>10 DEF Working
  <2> QED BY <1>1, <2>4, <2>5, <2>6, <2>7, CountNow
<1> QED BY <1>9, <1>10 DEF PlaceRun, Segment, r

\* The linker counts a table in 16 bits, so it never counts too much.
LEMMA Counted ==
  ASSUME NEW n \in Nat
  PROVE  n % Space \in Nat /\ n % Space <= n /\ (n < Space => n % Space = n)
<1>1. PICK S \in Nat \ {0} : S = Space
  BY SpaceNat
<1>2. n % S \in Nat /\ n % S <= n
  <2>1. n % S \in 0 .. S - 1
    OBVIOUS
  <2>2. n % S <= n
    <3>1. CASE n < S
      BY <3>1
    <3>2. CASE n >= S
      BY <2>1, <3>2
    <3> QED BY <3>1, <3>2
  <2> QED BY <2>1, <2>2
<1>3. n < S => n % S = n
  BY ModSmall
<1> QED BY <1>1, <1>2, <1>3

\* The tables, behind everything else.
LEMMA CountTables == IInv /\ CountInv /\ PlaceTables => CountInv'
<1> SUFFICES ASSUME IInv, CountInv, PlaceTables, Separate(link) PROVE CountInv'
  BY CountSeparate DEF PlaceTables
<1> DEFINE r == link.data_load
           x == CopyTableSize
           y == ZeroTableSize
           z == InitTableSize
           c == Advance(cur, r, x)
           d == Advance(c, r, y)
           N == Len(link.objects)
<1>1. /\ phase = "place" /\ at \notin Objs /\ link' = link /\ link \in Links
  BY DEF PlaceTables, IInv
<1>2. at = N + 1 /\ lay = 0
  <2>1. Objs = 1 .. N /\ N \in Nat
    BY <1>1, ObjectsTyped DEF Objs
  <2> QED BY <1>1, <2>1 DEF IInv, Position, Working
<1>3. /\ \A p \in DOMAIN link.mem : cur[p] = link.mem[p].start + Held(p, N + 1, 0)
      /\ Len(copy_records) = Copies(N + 1, 0) /\ Len(zero_records) = Zeros(N + 1, 0)
  BY <1>1, <1>2 DEF CountInv, Counts, Working
<1>4. Len(copy_records) = OverSegments(CopyNeed) /\ Len(zero_records) = OverSegments(ZeroNeed)
  <2>1. PICK f \in [Places -> Nat] : f = CopyNeed
    BY <1>1, NeedsTyped
  <2>2. PICK g \in [Places -> Nat] : g = ZeroNeed
    BY <1>1, NeedsTyped
  <2>3. Before(f, N + 1, 0) = OverSegments(f) /\ Before(g, N + 1, 0) = OverSegments(g)
    BY <1>1, WalkSums
  <2> QED BY <1>3, <2>1, <2>2, <2>3 DEF Copies, Zeros
<1>5. PICK X \in Nat, Y \in Nat, Z \in Nat :
        X = TableNeed.copy /\ Y = TableNeed.zero /\ Z = TableNeed.init
  BY <1>1, TablesNat
<1>6. x = X % Space /\ y = Y % Space /\ z = Z % Space
  <2>1. Len(copy_records) \in Nat /\ Len(zero_records) \in Nat
    BY DEF IInv, Records, IsSeq
  <2>2. Len(link.inits) \in Nat
    <3>1. link.inits \in Seq(Labels)
      BY <1>1, LinksAssumption DEF WellFormed
    <3> QED BY <3>1
  <2>3. \A a \in Nat : a + 1 = 1 + a
    OBVIOUS
  <2>4. X = 6 * (Len(copy_records) + 1) /\ Y = 4 * (Len(zero_records) + 1)
        /\ Z = 2 * (Len(link.inits) + 1)
    BY <1>4, <1>5, <2>1, <2>2, <2>3 DEF TableNeed
  <2> QED BY <2>4 DEF CopyTableSize, ZeroTableSize, InitTableSize
<1>7. /\ x \in Nat /\ x <= X /\ (X < Space => x = X)
      /\ y \in Nat /\ y <= Y /\ (Y < Space => y = Y)
      /\ z \in Nat /\ z <= Z /\ (Z < Space => z = Z)
  <2> HIDE DEF x, y, z
  <2> QED BY <1>6, Counted
<1>8. Cursors(link.mem, cur) /\ Regions(link.mem)
  BY <1>1, SeparateRegions DEF IInv, Packing, Working
<1>9. \A p : /\ Demand(p) \in Nat /\ Held(p, N + 1, 0) \in Nat
             /\ Demand(p) = Held(p, N + 1, 0) + (IF r = p THEN X + Y + Z ELSE 0)
  BY <1>1, <1>5, HeldGrows
<1>10. r \in Asked
  BY DEF Asked
<1>11. \A p \in DOMAIN link.mem : link.mem[p].start \in Nat
  BY <1>8 DEF Regions
<1>12. PICK h \in Nat : h = Held(r, N + 1, 0)
  BY <1>9
<1> HIDE DEF x, y, z, r, N
<1>13. Room(cur, r, x) => /\ r \in DOMAIN link.mem
                          /\ c = [cur EXCEPT ![r] = cur[r] + x] /\ Cursors(link.mem, c)
  <2> SUFFICES ASSUME Room(cur, r, x)
               PROVE  /\ r \in DOMAIN link.mem
                      /\ c = [cur EXCEPT ![r] = cur[r] + x] /\ Cursors(link.mem, c)
    OBVIOUS
  <2>1. RoomIn(link.mem, cur, r, x)
    BY RoomIsRoomIn
  <2>2. r \in DOMAIN link.mem
    BY <2>1 DEF RoomIn
  <2> QED BY <1>7, <1>8, <2>1, <2>2, AdvanceKeeps
<1>14. Room(cur, r, x) => c[r] = link.mem[r].start + (h + x)
  <2> SUFFICES ASSUME Room(cur, r, x) PROVE c[r] = link.mem[r].start + (h + x)
    OBVIOUS
  <2>1. c[r] = cur[r] + x /\ r \in DOMAIN link.mem
    BY <1>8, <1>13 DEF Cursors
  <2> HIDE DEF c
  <2> QED BY <1>3, <1>7, <1>11, <1>12, <2>1
<1> HIDE DEF c
<1>15. Room(cur, r, x) /\ Room(c, r, y) =>
         d = [c EXCEPT ![r] = c[r] + y] /\ Cursors(link.mem, d)
  BY <1>7, <1>8, <1>13, RoomIsRoomIn, AdvanceKeeps DEF RoomIn
<1>16. Room(cur, r, x) /\ Room(c, r, y) => d[r] = link.mem[r].start + (h + x + y)
  <2> SUFFICES ASSUME Room(cur, r, x), Room(c, r, y) PROVE d[r] = link.mem[r].start + (h + x + y)
    OBVIOUS
  <2>1. d[r] = c[r] + y /\ r \in DOMAIN link.mem
    BY <1>13, <1>15 DEF Cursors
  <2> HIDE DEF d
  <2> QED BY <1>7, <1>11, <1>12, <1>14, <2>1
<1> HIDE DEF d
<1>17. ASSUME Fits
       PROVE  Room(cur, r, x) /\ Room(c, r, y) /\ Room(d, r, z)
  <2>1. r \in DOMAIN link.mem
    BY <1>10, <1>17 DEF Fits
  <2>2. h + X + Y + Z <= Demand(r) /\ cur[r] = link.mem[r].start + h
    BY <1>3, <1>9, <1>12, <2>1
  <2>3. /\ h + x \in Nat /\ h + x + y \in Nat /\ h + x <= Demand(r)
        /\ h + x + y <= Demand(r) /\ h + x + y + z <= Demand(r) /\ Demand(r) \in Nat
    BY <1>7, <1>9, <2>2
  <2>4. Room(cur, r, x)
    BY <1>1, <1>7, <1>10, <1>17, <2>2, <2>3, RoomWhenFits
  <2>5. Room(c, r, y)
    BY <1>1, <1>7, <1>10, <1>14, <1>17, <2>3, <2>4, RoomWhenFits
  <2>6. Room(d, r, z)
    BY <1>1, <1>7, <1>10, <1>16, <1>17, <2>3, <2>4, <2>5, RoomWhenFits
  <2> QED BY <2>4, <2>5, <2>6
<1>18. CASE phase' = "overflow" /\ ~(Room(cur, r, x) /\ Room(c, r, y) /\ Room(d, r, z))
  BY <1>1, <1>17, <1>18, CountFull
<1>19. CASE /\ Room(cur, r, x) /\ Room(c, r, y) /\ Room(d, r, z)
            /\ cur' = Advance(d, r, z) /\ phase' = "write"
  <2>1. RoomIn(link.mem, d, r, z) /\ Cursors(link.mem, d) /\ r \in DOMAIN link.mem
    BY <1>13, <1>15, <1>19, RoomIsRoomIn
  <2>2. cur' = [d EXCEPT ![r] = d[r] + z]
    BY <1>7, <1>8, <1>19, <2>1, AdvanceKeeps
  <2>3. \A p \in DOMAIN link.mem : p # r => cur'[p] = cur[p]
    <3>1. /\ cur \in [DOMAIN link.mem -> 0 .. Space - 1]
          /\ c = [cur EXCEPT ![r] = cur[r] + x] /\ d = [c EXCEPT ![r] = c[r] + y]
      BY <1>8, <1>13, <1>15, <1>19 DEF Cursors
    <3> QED BY <2>2, <3>1
  <2>4. cur'[r] = link.mem[r].start + (h + x + y + z)
    <3>1. cur'[r] = d[r] + z
      BY <2>1, <2>2 DEF Cursors
    <3> QED BY <1>7, <1>11, <1>12, <1>16, <1>19, <2>1, <3>1
  <2>5. ASSUME TablesCounted
        PROVE  \A p \in DOMAIN link.mem : cur'[p] = link.mem[p].start + Demand(p)
    <3>1. x = X /\ y = Y /\ z = Z
      BY <1>5, <1>7, <2>5 DEF TablesCounted
    <3>2. Demand(r) = h + X + Y + Z
      BY <1>9, <1>12
    <3>3. \A p \in DOMAIN link.mem : p # r => Demand(p) = Held(p, N + 1, 0)
      BY <1>9
    <3> QED BY <1>3, <2>3, <2>4, <3>1, <3>2, <3>3
  <2>6. TablesCounted' = TablesCounted /\ \A p : Demand(p)' = Demand(p)
    BY <1>1, SameLink
  <2>7. ~Working' /\ phase' # "overflow"
    BY <1>19 DEF Working
  <2>8. TablesCounted' =>
          \A p \in DOMAIN (link')["mem"] : cur'[p] = (link')["mem"][p].start + Demand(p)'
    BY <1>1, <2>5, <2>6
  <2> QED BY <2>7, <2>8 DEF CountInv, Counts
<1> QED BY <1>18, <1>19 DEF PlaceTables, x, y, z, r, c, d

\* Relocation and writing place nothing.
LEMMA CountWriting == IInv /\ CountInv /\ (WriteObject \/ WriteTables) => CountInv'
<1> SUFFICES ASSUME IInv, CountInv, WriteObject \/ WriteTables PROVE CountInv'
  OBVIOUS
<1>1. /\ Placed /\ phase' \in {"write", "unmapped", "linked"} /\ link' = link /\ cur' = cur
  BY DEF WriteObject, WriteTables, Placed
<1>2. /\ TablesCounted' = TablesCounted /\ \A r : Demand(r)' = Demand(r)
  BY <1>1, SameLink
<1>3. ~Working' /\ phase' # "overflow"
  BY <1>1 DEF Working
<1> QED BY <1>1, <1>2, <1>3 DEF CountInv, Counts

\* A step that changes nothing keeps the count.
LEMMA CountStutter == CountInv /\ UNCHANGED vars => CountInv'
<1> SUFFICES ASSUME CountInv, UNCHANGED vars PROVE CountInv'
  OBVIOUS
<1>1. UNCHANGED <<link, phase, cur, at, lay, copy_records, zero_records>>
  BY DEF vars
<1>2. Working' = Working /\ Placed' = Placed
  BY <1>1 DEF Working, Placed
<1> QED BY <1>1, <1>2, CountStill

\* The cursors count what is held, whatever is linked.
THEOREM CursorsCount == Spec => []CountInv
<1>1. IInv /\ CountInv /\ [LinkNext]_vars => CountInv'
  BY CountConfig, CountObject, CountText, CountRun, CountTables, CountWriting, CountStutter
     DEF LinkNext
<1> QED BY <1>1, CountInit, Invariant, PTL DEF Spec

\* What was placed is what was asked for, and it lies below the limits.
LEMMA PlacedFits ==
  ASSUME IInv, CountInv, Separate(link), Placed, TablesCounted
  PROVE  Fits
<1>1. /\ Packed(Blocks, link.mem, cur) /\ Cursors(link.mem, cur) /\ link \in Links
  BY DEF IInv, Packing
<1>2. Regions(link.mem)
  BY <1>1, SeparateRegions
<1>3. \A r \in DOMAIN link.mem : cur[r] = link.mem[r].start + Demand(r)
  BY DEF CountInv, Counts
<1>4. ASSUME NEW r \in Asked
      PROVE  \E b \in Blocks : b.region = r
  <2>1. CASE r = link.data_load
    <3>1. Block(<<"copy">>, r, table.copy, CopyTableSize) \in Blocks
      BY <2>1 DEF Blocks
    <3>2. Block(<<"copy">>, r, table.copy, CopyTableSize).region = r
      BY DEF Block
    <3> QED BY <3>1, <3>2
  <2>2. ASSUME NEW i \in Objs, r = link.code_load
        PROVE  \E b \in Blocks : b.region = r
    <3>1. Block(<<"text", i>>, r, text_load[i], Length(SegsOf(i), "TEXT")) \in Blocks
      BY <2>2 DEF Blocks
    <3>2. Block(<<"text", i>>, r, text_load[i], Length(SegsOf(i), "TEXT")).region = r
      BY DEF Block
    <3> QED BY <3>1, <3>2
  <2>3. ASSUME NEW p \in {q \in Places : Segment(q).segid # "TEXT"}, r = RunRegion(Segment(p))
        PROVE  \E b \in Blocks : b.region = r
    <3>1. Block(<<"run", p>>, r, run_addr[p], Segment(p).size) \in Blocks
      BY <2>3 DEF Blocks, Segment
    <3>2. Block(<<"run", p>>, r, run_addr[p], Segment(p).size).region = r
      BY DEF Block
    <3> QED BY <3>1, <3>2
  <2> QED BY <1>4, <2>1, <2>2, <2>3 DEF Asked
<1>5. ASSUME NEW r \in Asked
      PROVE  r \in DOMAIN link.mem /\ link.mem[r].start + Demand(r) <= Limit(r)
  <2>1. PICK b \in Blocks : b.region = r
    BY <1>4
  <2>2. r \in DOMAIN link.mem /\ (r = "ROM" => cur["ROM"] <= VectorTable)
    BY <1>1, <2>1 DEF Packed
  <2>3. cur[r] <= EndOf(r) /\ (r = "ROM" => cur[r] <= VectorTable)
    BY <1>1, <2>2 DEF Cursors, EndOf
  <2>4. cur[r] <= Limit(r)
    BY <2>3 DEF Limit
  <2> QED BY <1>3, <2>2, <2>4
<1> QED BY <1>5 DEF Fits

\* Whatever is linked, the linker fails for want of room only when there is none, and
\* then it fails.
THEOREM FailsOnlyWhenFull == Spec => []OverflowIffFull
<1>1. IInv /\ CountInv => OverflowIffFull
  BY PlacedFits DEF OverflowIffFull, CountInv, Counts
<1> QED BY <1>1, Invariant, CursorsCount, PTL

-----------------------------------------------------------------------------
\* The tables in the image: their words, read back byte by byte.
LEMMA Decode ==
  ASSUME NEW w \in 0 .. Space - 1
  PROVE  (Low(w) + Byte * High(w)) % Space = w
<1>1. PICK B \in Nat : B = Byte /\ B >= 3
  BY ByteAssumption
<1>2. w \in Nat /\ w < B * B
  <2>1. \A S \in Nat : \A v \in 0 .. S - 1 : v \in Nat /\ v < S
    OBVIOUS
  <2>2. Space \in Nat /\ Space = B * B
    BY <1>1, SpaceNat DEF Space
  <2> QED BY <2>1, <2>2
<1>3. PICK q \in Nat, r \in Nat : q = w \div B /\ r = w % B
  <2>1. w \div B \in Nat /\ w % B \in Nat
    BY <1>1, <1>2
  <2> QED BY <2>1
<1>4. w = B * q + r /\ r < B
  BY <1>1, <1>2, <1>3
<1>5. q < B
  <2>1. CASE q >= B
    <3>1. B * q >= B * B
      BY <1>1, <2>1
    <3> QED BY <1>1, <1>2, <1>4, <3>1
  <2> QED BY <1>1, <2>1
<1>6. q % B = q
  BY <1>1, <1>5, ModSmall
<1>7. Low(w) = r /\ High(w) = q
  BY <1>1, <1>3, <1>6 DEF Low, High
<1>8. r + B * q = w
  <2>1. B * q \in Nat
    BY <1>1
  <2> QED BY <1>4, <2>1
<1>9. w % Space = w
  BY SpaceNat, ModSmall
<1> QED BY <1>1, <1>7, <1>8, <1>9

\* Writing a block puts it where it belongs and leaves the rest alone.
PutsIn(out, img, from, bytes) ==
  /\ \A b \in 1 .. Len(bytes) : from + b - 1 \in DOMAIN img => out[from + b - 1] = bytes[b]
  /\ \A a \in DOMAIN img : (a \in Nat /\ (a < from \/ from + Len(bytes) <= a)) =>
       out[a] = img[a]
  /\ DOMAIN out = DOMAIN img

\* What Put does, one byte at a time.
LEMMA PutIs ==
  ASSUME NEW img, NEW from \in Nat, NEW bytes, Len(bytes) \in Nat
  PROVE  PutsIn(Put(img, from, bytes), img, from, bytes)
<1> DEFINE D == from .. from + Len(bytes) - 1
           g == Put(img, from, bytes)
<1>1. g = [a \in DOMAIN img |-> IF a \in D THEN bytes[a - from + 1] ELSE img[a]]
  BY DEF Put
<1>2. \A b \in 1 .. Len(bytes) : from + b - 1 \in D /\ (from + b - 1) - from + 1 = b
  OBVIOUS
<1>3. \A a \in Nat : (a < from \/ from + Len(bytes) <= a) => a \notin D
  OBVIOUS
<1> HIDE DEF D, g
<1>4. \A b \in 1 .. Len(bytes) : from + b - 1 \in DOMAIN img => g[from + b - 1] = bytes[b]
  <2> TAKE b \in 1 .. Len(bytes)
  <2> SUFFICES ASSUME from + b - 1 \in DOMAIN img PROVE g[from + b - 1] = bytes[b]
    OBVIOUS
  <2>1. g[from + b - 1] = bytes[(from + b - 1) - from + 1]
    BY <1>1, <1>2
  <2> QED BY <1>2, <2>1
<1>5. \A a \in DOMAIN img : (a \in Nat /\ (a < from \/ from + Len(bytes) <= a)) => g[a] = img[a]
  BY <1>1, <1>3
<1>6. DOMAIN g = DOMAIN img
  BY <1>1
<1> QED BY <1>4, <1>5, <1>6 DEF g, PutsIn

\* A table of records of two or three words.
EndToEnd(f, seqs, w) ==
  /\ Len(f) = w * Len(seqs)
  /\ \A k \in 1 .. Len(seqs) : \A j \in 1 .. w : f[w * (k - 1) + j] = seqs[k][j]

LEMMA FlattenRecords ==
  ASSUME NEW w \in {2, 3}, NEW S, NEW seqs \in Seq(Seq(S)), Len(seqs) # 0,
         \A k \in 1 .. Len(seqs) : Len(seqs[k]) = w
  PROVE  EndToEnd(FlattenSeq(seqs), seqs, w)
<1> DEFINE joined == CHOOSE f : Joined(f, seqs, Len(seqs))
           n == Len(seqs)
<1>1. Joined(joined, seqs, Len(seqs)) /\ n \in Nat
  <2>1. Len(seqs) \in Nat
    OBVIOUS
  <2>2. \E f : Joined(f, seqs, Len(seqs))
    BY <2>1, JoinedExists
  <2> QED BY <2>1, <2>2
<1>2. FlattenSeq(seqs) = joined[n]
  BY DEF FlattenSeq, Joined
<1> HIDE DEF joined
<1>3. \A k \in 1 .. n : joined[k] \in Seq(S)
  BY <1>1, JoinedSeq
<1>4. \A k \in 1 .. n : joined[k] = IF k = 1 THEN seqs[k] ELSE joined[k - 1] \o seqs[k]
  BY <1>1 DEF Joined
<1>5. \A k \in 1 .. n : seqs[k] \in Seq(S) /\ Len(seqs[k]) = w
  OBVIOUS
<1> DEFINE Good(i) == /\ Len(joined[i]) = w * i
                      /\ \A k \in 1 .. i : \A j \in 1 .. w : joined[i][w * (k - 1) + j] = seqs[k][j]
           Bad == {i \in 1 .. n : ~Good(i)}
<1>6. Bad = {}
  <2> SUFFICES ASSUME Bad # {} PROVE FALSE
    OBVIOUS
  <2>1. PICK i \in Bad : \A j \in Bad : i <= j
    <3> HIDE DEF Good
    <3>1. Bad \subseteq Nat
      BY <1>1
    <3> HIDE DEF Bad
    <3> QED BY <3>1, FirstIn
  <2>2. CASE i = 1
    <3>1. joined[i] = seqs[1]
      BY <1>4, <2>1, <2>2
    <3>2. w * 1 = w /\ \A k \in 1 .. 1 : \A j \in 1 .. w : w * (k - 1) + j = j /\ k = 1
      OBVIOUS
    <3>3. Len(joined[i]) = w * i
      BY <1>1, <1>5, <2>1, <2>2, <3>1, <3>2
    <3>4. \A k \in 1 .. i : \A j \in 1 .. w : joined[i][w * (k - 1) + j] = seqs[k][j]
      BY <2>2, <3>1, <3>2
    <3>5. Good(i)
      BY <3>3, <3>4
    <3> HIDE DEF Good
    <3> QED BY <2>1, <3>5
  <2>3. CASE i # 1
    <3>1. i - 1 \in 1 .. n /\ i \in 1 .. n /\ i - 1 \notin Bad
      <4> HIDE DEF Good
      <4>1. i \in 1 .. n
        OBVIOUS
      <4>2. i - 1 \in 1 .. n /\ ~(i <= i - 1)
        BY <1>1, <2>3, <4>1
      <4> HIDE DEF Bad
      <4> QED BY <2>1, <4>1, <4>2
    <3>2. Good(i - 1)
      <4> HIDE DEF Good
      <4> QED BY <3>1
    <3>3. PICK s \in Seq(S) : s = joined[i - 1]
      BY <1>3, <3>1
    <3>4. PICK t \in Seq(S) : t = seqs[i] /\ Len(t) = w
      BY <1>5, <3>1
    <3>5. joined[i] = s \o t
      BY <1>4, <2>3, <3>1, <3>3, <3>4
    <3>6. /\ Len(s \o t) = Len(s) + w
          /\ \A b \in 1 .. Len(s) : (s \o t)[b] = s[b]
          /\ \A b \in 1 .. w : (s \o t)[Len(s) + b] = t[b]
      <4>1. Len(s \o t) = Len(s) + Len(t)
        OBVIOUS
      <4>2. \A b \in 1 .. Len(s) : (s \o t)[b] = s[b]
        OBVIOUS
      <4>3. \A b \in 1 .. Len(t) : (s \o t)[Len(s) + b] = t[b]
        OBVIOUS
      <4> QED BY <3>4, <4>1, <4>2, <4>3
    <3>7. PICK m \in Nat : m = i - 1
      BY <3>1
    <3>8. Len(s) = w * m /\ w * i = w * m + w /\ m + 1 = i
      BY <3>2, <3>3, <3>7
    <3>9. Len(joined[i]) = w * i
      BY <3>5, <3>6, <3>8
    <3>10. ASSUME NEW k \in 1 .. i, NEW j \in 1 .. w
           PROVE  joined[i][w * (k - 1) + j] = seqs[k][j]
      <4>1. CASE k = i
        <5>1. k - 1 = m
          BY <3>7, <4>1
        <5>2. w * (k - 1) + j = Len(s) + j
          BY <3>8, <5>1
        <5>3. (s \o t)[Len(s) + j] = t[j]
          BY <3>6
        <5> QED BY <3>4, <3>5, <4>1, <5>2, <5>3
      <4>2. CASE k # i
        <5>1. k \in 1 .. i - 1
          BY <3>1, <4>2
        <5>2. w * (k - 1) + j \in 1 .. Len(s)
          <6>1. PICK l \in Nat : l = k - 1 /\ l + 1 <= m
            BY <3>7, <5>1
          <6>2. w * l + j \in 1 .. w * m
            <7>1. CASE w = 2
              BY <6>1, <7>1
            <7>2. CASE w = 3
              BY <6>1, <7>2
            <7> QED BY <7>1, <7>2
          <6> QED BY <3>8, <6>1, <6>2
        <5>3. joined[i][w * (k - 1) + j] = s[w * (k - 1) + j]
          BY <3>5, <3>6, <5>2
        <5>4. s[w * (k - 1) + j] = seqs[k][j]
          BY <3>2, <3>3, <5>1
        <5> QED BY <5>3, <5>4
      <4> QED BY <4>1, <4>2
    <3>11. Good(i)
      BY <3>9, <3>10
    <3> HIDE DEF Good
    <3> QED BY <2>1, <3>11
  <2> QED BY <2>2, <2>3
<1>7. Good(n) /\ joined[n] \in Seq(S)
  <2>1. n \in 1 .. n
    BY <1>1
  <2> HIDE DEF Good
  <2> QED BY <1>3, <1>6, <2>1
<1> QED BY <1>2, <1>7 DEF EndToEnd

\* What is appended comes last.
LEMMA AppendIs ==
  ASSUME NEW s, IsSeq(s), NEW e
  PROVE  /\ IsSeq(Append(s, e)) /\ Len(Append(s, e)) = Len(s) + 1
         /\ \A k \in 1 .. Len(s) : Append(s, e)[k] = s[k]
         /\ Append(s, e)[Len(s) + 1] = e
<1> DEFINE S == {s[k] : k \in 1 .. Len(s)} \cup {e}
<1>1. s \in Seq(S) /\ e \in S
  <2>1. Len(s) \in Nat /\ s = [k \in 1 .. Len(s) |-> s[k]] /\ \A k \in 1 .. Len(s) : s[k] \in S
    BY DEF IsSeq
  <2>2. e \in S
    OBVIOUS
  <2> HIDE DEF S
  <2> QED BY <2>1, <2>2
<1> HIDE DEF S
<1>2. \A k \in 1 .. Len(s) : Append(s, e)[k] = s[k]
  BY <1>1
<1>3. Append(s, e)[Len(s) + 1] = e
  BY <1>1
<1> QED BY <1>2, <1>3, IsSeqAppend, LenAppend

\* Low byte first.
LEMMA WordsAre ==
  ASSUME NEW ws, Len(ws) \in Nat
  PROVE  /\ Len(Words(ws)) = 2 * Len(ws)
         /\ \A j \in 1 .. Len(ws) : /\ Words(ws)[2 * j - 1] = Low(ws[j])
                                    /\ Words(ws)[2 * j] = High(ws[j])
<1> DEFINE byte(b) == IF b % 2 = 1 THEN Low(ws[(b + 1) \div 2]) ELSE High(ws[b \div 2])
           m == 2 * Len(ws)
<1>1. Words(ws) = [b \in 1 .. m |-> byte(b)]
  BY DEF Words
<1>2. m \in Nat
  OBVIOUS
<1> HIDE DEF byte
<1>3. Len([b \in 1 .. m |-> byte(b)]) = m
  <2> HIDE DEF m
  <2> QED BY <1>2
<1>4. ASSUME NEW j \in 1 .. Len(ws)
      PROVE  Words(ws)[2 * j - 1] = Low(ws[j]) /\ Words(ws)[2 * j] = High(ws[j])
  <2>1. 2 * j - 1 \in 1 .. m /\ 2 * j \in 1 .. m
    OBVIOUS
  <2>2. (2 * j - 1) % 2 = 1 /\ (2 * j) % 2 = 0 /\ ((2 * j - 1) + 1) \div 2 = j /\ (2 * j) \div 2 = j
    OBVIOUS
  <2>3. byte(2 * j - 1) = Low(ws[j]) /\ byte(2 * j) = High(ws[j])
    BY <2>2 DEF byte
  <2> QED BY <1>1, <2>1, <2>3
<1> QED BY <1>1, <1>3, <1>4

\* Where the words of a table of records are.
TableIs(img, from, w, recs) ==
  \A k \in 1 .. Len(recs) : \A j \in 1 .. w :
    LET a == from + 2 * (w * (k - 1) + (j - 1)) IN
    img[a] = Low(recs[k][j]) /\ img[a + 1] = High(recs[k][j])

LEMMA RecordTable ==
  ASSUME NEW w \in {2, 3}, NEW recs, IsSeq(recs), Len(recs) # 0,
         \A k \in 1 .. Len(recs) : IsSeq(recs[k]) /\ Len(recs[k]) = w
  PROVE  /\ Len(Words(FlattenSeq(recs))) = 2 * (w * Len(recs))
         /\ \A img, from : 
              (/\ from \in Nat
               /\ \A b \in 1 .. 2 * (w * Len(recs)) : img[from + b - 1] = Words(FlattenSeq(recs))[b])
              => TableIs(img, from, w, recs)
<1> DEFINE S == UNION {{recs[k][j] : j \in 1 .. w} : k \in 1 .. Len(recs)}
           n == Len(recs)
           f == FlattenSeq(recs)
<1>1. n \in Nat \ {0} /\ recs = [k \in 1 .. n |-> recs[k]]
  BY DEF IsSeq
<1>2. \A k \in 1 .. n : recs[k] \in Seq(S)
  <2> TAKE k \in 1 .. n
  <2>1. recs[k] = [j \in 1 .. w |-> recs[k][j]]
    BY DEF IsSeq
  <2>2. \A j \in 1 .. w : recs[k][j] \in S
    BY <1>1
  <2> HIDE DEF S
  <2> QED BY <2>1, <2>2
<1>3. recs \in Seq(Seq(S))
  <2> HIDE DEF S
  <2> QED BY <1>1, <1>2
<1> HIDE DEF S
<1>4. /\ Len(f) = w * n
      /\ \A k \in 1 .. n : \A j \in 1 .. w : f[w * (k - 1) + j] = recs[k][j]
  <2>1. \A k \in 1 .. Len(recs) : Len(recs[k]) = w
    OBVIOUS
  <2>2. PICK T : T = S
    OBVIOUS
  <2>3. PICK seqs \in Seq(Seq(T)) : seqs = recs
    BY <1>3, <2>2
  <2>4. \A k \in 1 .. Len(seqs) : Len(seqs[k]) = w
    BY <2>1, <2>3
  <2>5. Len(seqs) # 0
    BY <2>3
  <2>6. EndToEnd(FlattenSeq(seqs), seqs, w)
    BY <2>4, <2>5, FlattenRecords
  <2> QED BY <2>3, <2>6 DEF f, EndToEnd
<1> HIDE DEF f
<1>5. w * n \in Nat
  BY <1>1
<1>6. /\ Len(Words(f)) = 2 * (w * n)
      /\ \A i \in 1 .. w * n : Words(f)[2 * i - 1] = Low(f[i]) /\ Words(f)[2 * i] = High(f[i])
  BY <1>4, <1>5, WordsAre
<1>7. ASSUME NEW img, NEW from \in Nat,
             \A b \in 1 .. 2 * (w * n) : img[from + b - 1] = Words(f)[b],
             NEW k \in 1 .. n, NEW j \in 1 .. w
      PROVE  LET a == from + 2 * (w * (k - 1) + (j - 1)) IN
             img[a] = Low(recs[k][j]) /\ img[a + 1] = High(recs[k][j])
  <2>1. PICK i \in Nat : i = w * (k - 1) + j /\ i \in 1 .. w * n
    <3>1. PICK l \in Nat : l = k - 1 /\ l + 1 <= n
      BY <1>1
    <3>2. w * l + j \in 1 .. w * n
      <4>1. CASE w = 2
        BY <1>1, <3>1, <4>1
      <4>2. CASE w = 3
        BY <1>1, <3>1, <4>2
      <4> QED BY <4>1, <4>2
    <3> QED BY <3>1, <3>2
  <2>2. f[i] = recs[k][j]
    BY <1>4, <2>1
  <2>3. 2 * i - 1 \in 1 .. 2 * (w * n) /\ 2 * i \in 1 .. 2 * (w * n)
    BY <1>5, <2>1
  <2>4. PICK a \in Nat : a = from + 2 * (w * (k - 1) + (j - 1))
                         /\ a = from + (2 * i - 1) - 1 /\ a + 1 = from + (2 * i) - 1
    <3>1. PICK l \in Nat : l = w * (k - 1) /\ i = l + j
      <4>1. w * (k - 1) \in Nat
        <5>1. PICK q \in Nat : q = k - 1
          BY <1>1
        <5>2. w * q \in Nat
          OBVIOUS
        <5> QED BY <5>1, <5>2
      <4> QED BY <2>1, <4>1
    <3>2. PICK a \in Nat : a = from + 2 * (l + (j - 1))
      <4>1. j - 1 \in Nat
        OBVIOUS
      <4> QED BY <3>1, <4>1
    <3>3. a = from + (2 * i - 1) - 1 /\ a + 1 = from + (2 * i) - 1
      BY <3>1, <3>2
    <3> QED BY <3>1, <3>2, <3>3
  <2>5. img[a] = Words(f)[2 * i - 1] /\ img[a + 1] = Words(f)[2 * i]
    BY <1>7, <2>3, <2>4
  <2>6. Words(f)[2 * i - 1] = Low(f[i]) /\ Words(f)[2 * i] = High(f[i])
    BY <1>6, <2>1
  <2> QED BY <2>2, <2>4, <2>5, <2>6
<1>8. ASSUME NEW img, NEW from, from \in Nat,
             \A b \in 1 .. 2 * (w * n) : img[from + b - 1] = Words(f)[b]
      PROVE  TableIs(img, from, w, recs)
  BY <1>7, <1>8, ZenonT(60) DEF TableIs
<1> QED BY <1>6, <1>8 DEF f

-----------------------------------------------------------------------------
\* Each record is that of a segment, and says where it runs and how long it is.
Recorded(p, run, size) ==
  /\ p \in Places /\ Written(p) /\ (Working => SegmentPlaced(p))
  /\ run = run_addr[p] /\ run \in 0 .. Space - 1
  /\ size = Segment(p).size /\ size \in 1 .. Space - 1
CopyRecorded(e) == \E p \in Places : Recorded(p, e[2], e[3]) /\ e = <<e[1], e[2], e[3]>>
ZeroRecorded(e) == \E p \in Places : Recorded(p, e[1], e[2]) /\ e = <<e[1], e[2]>>
Members(s) == {s[k] : k \in 1 .. Len(s)}
RecInv ==
  Separate(link) =>
    /\ \A e \in Members(copy_records) : CopyRecorded(e)
    /\ \A e \in Members(zero_records) : ZeroRecorded(e)

\* What a step has to keep for that.
LEMMA StillRecorded ==
  ASSUME link' = link, Working' => Working,
         \A p \in Places : (Working => SegmentPlaced(p)) =>
           run_addr'[p] = run_addr[p] /\ (Working' => SegmentPlaced(p)')
  PROVE  /\ \A e : CopyRecorded(e) => CopyRecorded(e)'
         /\ \A e : ZeroRecorded(e) => ZeroRecorded(e)'
<1>1. Places' = Places
  BY DEF Places, Objs, SegsOf
<1>2. \A p : Written(p)' = Written(p) /\ Segment(p)' = Segment(p)
  BY DEF Written, Segment, SegsOf
<1>3. ASSUME NEW p \in Places, NEW run, NEW size, Recorded(p, run, size)
      PROVE  Recorded(p, run, size)'
  <2>1. /\ Written(p) /\ (Working => SegmentPlaced(p))
        /\ run = run_addr[p] /\ run \in 0 .. Space - 1
        /\ size = Segment(p).size /\ size \in 1 .. Space - 1
    BY <1>3 DEF Recorded
  <2>2. run = run_addr'[p] /\ (Working' => SegmentPlaced(p)')
    BY <2>1
  <2>3. Written(p)' /\ size = (Segment(p)').size /\ p \in Places'
    BY <1>1, <1>2, <2>1
  <2> QED BY <2>1, <2>2, <2>3 DEF Recorded
<1>4. ASSUME NEW e, CopyRecorded(e)
      PROVE  CopyRecorded(e)'
  <2>1. PICK p \in Places : Recorded(p, e[2], e[3]) /\ e = <<e[1], e[2], e[3]>>
    BY <1>4 DEF CopyRecorded
  <2>2. Recorded(p, e[2], e[3])'
    BY <1>3, <2>1
  <2> QED BY <1>1, <2>1, <2>2 DEF CopyRecorded
<1>5. ASSUME NEW e, ZeroRecorded(e)
      PROVE  ZeroRecorded(e)'
  <2>1. PICK p \in Places : Recorded(p, e[1], e[2]) /\ e = <<e[1], e[2]>>
    BY <1>5 DEF ZeroRecorded
  <2>2. Recorded(p, e[1], e[2])'
    BY <1>3, <2>1
  <2> QED BY <1>1, <2>1, <2>2 DEF ZeroRecorded
<1> QED BY <1>4, <1>5

LEMMA RecordsKept ==
  ASSUME RecInv, link' = link, UNCHANGED <<copy_records, zero_records>>, Working' => Working,
         \A p \in Places : Separate(link) /\ (Working => SegmentPlaced(p)) =>
           run_addr'[p] = run_addr[p] /\ (Working' => SegmentPlaced(p)')
  PROVE  RecInv'
<1> SUFFICES ASSUME Separate(link) 
             PROVE  /\ \A e \in Members(copy_records) : CopyRecorded(e)'
                    /\ \A e \in Members(zero_records) : ZeroRecorded(e)'
  BY DEF RecInv, Members
<1>1. /\ \A e : CopyRecorded(e) => CopyRecorded(e)'
      /\ \A e : ZeroRecorded(e) => ZeroRecorded(e)'
  BY StillRecorded
<1>2. /\ \A e \in Members(copy_records) : CopyRecorded(e)
      /\ \A e \in Members(zero_records) : ZeroRecorded(e)
  BY DEF RecInv
<1> QED BY <1>1, <1>2

\* What is placed stays placed.
LEMMA StaysPlaced ==
  ASSUME IInv, phase = "place", at \in Objs, lay # 0, NextSegment
  PROVE  /\ \A p \in Places : SegmentPlaced(p) => p # <<at, lay>> /\ SegmentPlaced(p)'
         /\ \A p : p = <<at, lay>> => SegmentPlaced(p)'
<1>1. at \in 1 .. Len(link.objects) + 1 /\ at \in Nat /\ lay \in Nat /\ link \in Links
  <2>1. at \in 1 .. Len(link.objects) + 1 /\ lay \in Nat /\ link \in Links
    BY DEF IInv, Position, Working
  <2> QED BY <2>1, ObjectsTyped
<1>2. \A p \in Places : p[1] \in Nat /\ p[2] \in Nat
  BY <1>1, PlacesAre
<1>3. at' = at + 1 \/ (at' = at /\ lay' = lay + 1)
  BY DEF NextSegment
<1>4. ASSUME NEW p \in Places, SegmentPlaced(p)
      PROVE  p # <<at, lay>> /\ SegmentPlaced(p)'
  <2>1. p[1] < at \/ (p[1] = at /\ p[2] < lay)
    BY <1>4 DEF SegmentPlaced
  <2>2. p # <<at, lay>>
    BY <1>1, <1>2, <2>1
  <2>3. p[1] < at' \/ (p[1] = at' /\ p[2] < lay')
    BY <1>1, <1>2, <1>3, <2>1
  <2> QED BY <2>2, <2>3 DEF SegmentPlaced
<1>5. \A p : p = <<at, lay>> => SegmentPlaced(p)'
  <2> SUFFICES ASSUME NEW p, p = <<at, lay>> PROVE SegmentPlaced(p)'
    OBVIOUS
  <2>1. p[1] = at /\ p[2] = lay
    OBVIOUS
  <2>2. p[1] < at' \/ (p[1] = at' /\ p[2] < lay')
    BY <1>1, <1>3, <2>1
  <2> QED BY <2>2 DEF SegmentPlaced
<1> QED BY <1>4, <1>5

LEMMA MembersOfAppend ==
  ASSUME NEW s, IsSeq(s), NEW e
  PROVE  \A x \in Members(Append(s, e)) : x \in Members(s) \/ x = e
<1> TAKE x \in Members(Append(s, e))
<1>1. PICK k \in 1 .. Len(Append(s, e)) : x = Append(s, e)[k]
  BY DEF Members
<1>2. Len(s) \in Nat /\ Len(Append(s, e)) = Len(s) + 1
  BY AppendIs DEF IsSeq
<1>3. k \in 1 .. Len(s) \/ k = Len(s) + 1
  BY <1>2
<1>4. (k \in 1 .. Len(s) => x = s[k]) /\ (k = Len(s) + 1 => x = e)
  BY <1>1, AppendIs
<1> QED BY <1>3, <1>4 DEF Members

LEMMA RecInit == Init => RecInv
BY DEF Init, RecInv, Members

LEMMA RecordsInText == IInv /\ RecInv /\ PlaceText => RecInv'
<1> SUFFICES ASSUME IInv, RecInv, PlaceText PROVE RecInv'
  OBVIOUS
<1>1. /\ phase = "place" /\ at \in Objs /\ lay # 0 /\ NextSegment
      /\ run_addr' = [run_addr EXCEPT ![<<at, lay>>] = LoadAddr(at, lay)]
      /\ UNCHANGED <<link, phase, copy_records, zero_records>>
  BY DEF PlaceText
<1>2. \A p \in Places : SegmentPlaced(p) => p # <<at, lay>> /\ SegmentPlaced(p)'
  BY <1>1, StaysPlaced
<1>3. Working' /\ Working
  BY <1>1 DEF Working
<1>4. Separate(link) => run_addr = [p \in Places |-> run_addr[p]]
  BY DEF IInv, Addresses
<1>5. \A p \in Places : Separate(link) /\ SegmentPlaced(p) => run_addr'[p] = run_addr[p]
  BY <1>1, <1>2, <1>4
<1> QED BY <1>1, <1>2, <1>3, <1>5, RecordsKept

\* The new record is that of the segment at hand.
LEMMA RecordsInRun == IInv /\ RecInv /\ PlaceRun => RecInv'
<1> SUFFICES ASSUME IInv, RecInv, PlaceRun PROVE RecInv'
  OBVIOUS
<1> DEFINE p0 == <<at, lay>>
           s == Segment(p0)
           r == RunRegion(s)
<1>1. /\ phase = "place" /\ at \in Objs /\ lay # 0 /\ s.segid # "TEXT"
      /\ link' = link /\ link \in Links /\ Working
  BY DEF PlaceRun, IInv, Segment, Working
<1>2. CASE phase' = "overflow" /\ UNCHANGED <<run_addr, copy_records, zero_records>>
  <2>1. ~Working'
    BY <1>2 DEF Working
  <2> QED BY <1>1, <1>2, <2>1, RecordsKept
<1>3. CASE /\ Room(cur, r, s.size)
           /\ run_addr' = [run_addr EXCEPT ![p0] = cur[r]]
           /\ copy_records' = IF s.size > 0 /\ ImageSeg(s) = "DATA"
                              THEN Append(copy_records, <<LoadAddr(at, lay), cur[r], s.size>>)
                              ELSE copy_records
           /\ zero_records' = IF Cleared(s) THEN Append(zero_records, <<cur[r], s.size>>)
                              ELSE zero_records
           /\ NextSegment /\ phase' = phase
  <2> SUFFICES ASSUME Separate(link)
               PROVE  /\ \A e \in Members(copy_records') : CopyRecorded(e)'
                      /\ \A e \in Members(zero_records') : ZeroRecorded(e)'
    BY <1>1 DEF RecInv, Members
  <2>1. /\ \A p \in Places : SegmentPlaced(p) => p # p0 /\ SegmentPlaced(p)'
        /\ \A p : p = p0 => SegmentPlaced(p)'
    BY <1>1, <1>3, StaysPlaced
  <2>2. Addresses /\ Cursors(link.mem, cur) /\ Records
    BY <1>1 DEF IInv, Packing
  <2>3. \A p \in Places : SegmentPlaced(p) => run_addr'[p] = run_addr[p]
    BY <1>3, <2>1, <2>2 DEF Addresses
  <2>4. Working' /\ Working
    BY <1>1, <1>3 DEF Working
  <2>5. /\ \A e : CopyRecorded(e) => CopyRecorded(e)'
        /\ \A e : ZeroRecorded(e) => ZeroRecorded(e)'
    BY <1>1, <2>1, <2>3, <2>4, StillRecorded
  <2>6. /\ \A e \in Members(copy_records) : CopyRecorded(e)'
        /\ \A e \in Members(zero_records) : ZeroRecorded(e)'
    BY <2>5 DEF RecInv
  <2>7. p0 \in Places
    <3>1. lay \in Nat /\ lay <= Len(SegsOf(at)) /\ lay # 0
      BY <1>1 DEF IInv, Position
    <3>2. Len(SegsOf(at)) \in Nat /\ DOMAIN SegsOf(at) = 1 .. Len(SegsOf(at))
      BY <1>1, ObjectsTyped DEF Objs, SegsOf
    <3>3. lay \in 1 .. Len(SegsOf(at))
      BY <3>1, <3>2
    <3> QED BY <1>1, <3>2, <3>3 DEF Places
  <2>8. PICK x \in Places : x = p0
    BY <2>7
  <2>9. /\ s.size \in Nat /\ s.size < Space
        /\ s.segid = "DATA" => Len(s.bytes) = s.size
        /\ s.segid = "BSS" \/ s.segid = "DATA" \/ s.segid = "ZP"
    <3>1. s.size \in Nat
      BY <1>1, <2>7, PlacesAre
    <3>2. WellFormed(link)
      BY <1>1, LinksAssumption
    <3>3. at \in DOMAIN link.objects /\ lay \in DOMAIN link.objects[at].segs
      <4>1. p0[1] \in Objs /\ p0[2] \in DOMAIN SegsOf(p0[1])
        <5>1. DOMAIN SegsOf(at) = 1 .. Len(SegsOf(at))
          BY <1>1, ObjectsTyped DEF Objs, SegsOf
        <5> QED BY <1>1, <2>7, <5>1, PlacesAre
      <4> QED BY <4>1 DEF Objs, SegsOf
    <3>4. s = link.objects[at].segs[lay]
      BY DEF Segment, SegsOf
    <3> HIDE DEF s
    <3>5. s.size < Space /\ (s.segid \in {"TEXT", "DATA"} => Len(s.bytes) = s.size)
      BY <3>2, <3>3, <3>4 DEF WellFormed
    <3>6. s.segid \in SegIds
      <4>1. link.objects[at].segs \in Seq(Segments)
        BY <1>1, <3>3, ObjectsTyped
      <4>2. s \in Segments
        BY <3>3, <3>4, <4>1
      <4> QED BY <4>2 DEF Segments
    <3> QED BY <1>1, <3>1, <3>5, <3>6 DEF SegIds
  <2>10. run_addr'[x] = cur[r] /\ cur[r] \in 0 .. Space - 1 /\ r \in DOMAIN link.mem
    <3>1. r \in DOMAIN link.mem
      BY <1>3 DEF Room
    <3>2. run_addr'[x] = cur[r]
      BY <1>3, <2>2, <2>8 DEF Addresses
    <3> QED BY <2>2, <3>1, <3>2 DEF Cursors
  <2>11. ASSUME s.size > 0, Written(x)
         PROVE  \A run, size : run = cur[r] /\ size = s.size => Recorded(x, run, size)'
    <3>1. Written(x)' /\ (Segment(x)').size = s.size
      BY <1>1, <2>8, <2>11 DEF Written, Segment, SegsOf
    <3>2. Places' = Places
      BY <1>1 DEF Places, Objs, SegsOf
    <3>3. s.size \in 1 .. Space - 1
      BY <2>9, <2>11, SpaceNat
    <3>4. SegmentPlaced(x)'
      BY <2>1, <2>8
    <3> HIDE DEF s, r, p0
    <3> QED BY <2>10, <3>1, <3>2, <3>3, <3>4 DEF Recorded
  <2>12. s.size > 0 /\ (ImageSeg(s) = "DATA" \/ Cleared(s)) => Written(x)
    <3> SUFFICES ASSUME s.size > 0, ImageSeg(s) = "DATA" \/ Cleared(s)
                 PROVE  s.segid = "BSS" \/ (s.segid # "TEXT" /\ s.bytes # <<>>)
      BY <2>8 DEF Written, Segment
    <3>1. Cleared(s) => s.segid = "BSS"
      BY DEF Cleared
    <3>2. s.segid = "DATA" => s.bytes # <<>>
      BY <2>9
    <3>3. s.segid = "ZP" /\ ImageSeg(s) = "DATA" => s.bytes # <<>>
      BY DEF ImageSeg
    <3> HIDE DEF s
    <3> QED BY <1>1, <2>9, <3>1, <3>2, <3>3
  <2>13. PICK e3 : e3 = <<LoadAddr(at, lay), cur[r], s.size>>
    OBVIOUS
  <2>14. PICK e2 : e2 = <<cur[r], s.size>>
    OBVIOUS
  <2>15. x \in Places'
    BY <1>1 DEF Places, Objs, SegsOf
  <2>16. s.size > 0 /\ ImageSeg(s) = "DATA" => CopyRecorded(e3)'
    <3> SUFFICES ASSUME s.size > 0, ImageSeg(s) = "DATA" PROVE CopyRecorded(e3)'
      OBVIOUS
    <3>1. e3[2] = cur[r] /\ e3[3] = s.size /\ e3 = <<e3[1], e3[2], e3[3]>>
      BY <2>13
    <3> HIDE DEF s, r, p0
    <3>2. Recorded(x, e3[2], e3[3])'
      BY <2>11, <2>12, <3>1
    <3> QED BY <2>15, <3>1, <3>2 DEF CopyRecorded
  <2>17. Cleared(s) => ZeroRecorded(e2)'
    <3> SUFFICES ASSUME Cleared(s) PROVE ZeroRecorded(e2)'
      OBVIOUS
    <3>1. e2[1] = cur[r] /\ e2[2] = s.size /\ e2 = <<e2[1], e2[2]>> /\ s.size > 0
      BY <2>14 DEF Cleared
    <3> HIDE DEF s, r, p0
    <3>2. Recorded(x, e2[1], e2[2])'
      BY <2>11, <2>12, <3>1
    <3> QED BY <2>15, <3>1, <3>2 DEF ZeroRecorded
  <2>18. ASSUME NEW e \in Members(copy_records') PROVE CopyRecorded(e)'
    <3>1. CASE s.size > 0 /\ ImageSeg(s) = "DATA"
      <4>1. copy_records' = Append(copy_records, e3)
        BY <1>3, <2>13, <3>1
      <4>2. e \in Members(copy_records) \/ e = e3
        BY <2>2, <2>18, <4>1, MembersOfAppend DEF Records
      <4> QED BY <2>6, <2>16, <3>1, <4>2
    <3>2. CASE ~(s.size > 0 /\ ImageSeg(s) = "DATA")
      BY <1>3, <2>6, <2>18, <3>2
    <3> QED BY <3>1, <3>2
  <2>19. ASSUME NEW e \in Members(zero_records') PROVE ZeroRecorded(e)'
    <3>1. CASE Cleared(s)
      <4>1. zero_records' = Append(zero_records, e2)
        BY <1>3, <2>14, <3>1
      <4>2. e \in Members(zero_records) \/ e = e2
        BY <2>2, <2>19, <4>1, MembersOfAppend DEF Records
      <4> QED BY <2>6, <2>17, <3>1, <4>2
    <3>2. CASE ~Cleared(s)
      BY <1>3, <2>6, <2>19, <3>2
    <3> QED BY <3>1, <3>2
  <2> QED BY <2>18, <2>19
<1> QED BY <1>2, <1>3 DEF PlaceRun, Segment, RunRegion

\* No other step of the linker makes a record or moves what has one.
LEMMA RecordsElsewhere ==
  IInv /\ RecInv /\ (CheckConfig \/ PlaceObject \/ PlaceTables \/ WriteObject \/ WriteTables
                     \/ UNCHANGED vars) => RecInv'
<1> SUFFICES ASSUME IInv, RecInv,
                    CheckConfig \/ PlaceObject \/ PlaceTables \/ WriteObject \/ WriteTables
                    \/ UNCHANGED vars
             PROVE  RecInv'
  OBVIOUS
<1>1. link' = link /\ run_addr' = run_addr /\ UNCHANGED <<copy_records, zero_records>>
  BY DEF CheckConfig, PlaceObject, PlaceTables, WriteObject, WriteTables, vars
<1>2. CASE ~Working'
  BY <1>1, <1>2, RecordsKept
<1>3. CASE Working'
  <2>1. Working /\ at' = at /\ lay \in Nat /\ lay' \in Nat /\ lay' >= lay
    BY <1>3 DEF CheckConfig, PlaceObject, PlaceTables, WriteObject, WriteTables, vars, IInv,
                Position, Working
  <2>2. \A p \in Places : p[2] \in Nat
    BY PlacesAre DEF IInv
  <2>3. \A p \in Places : SegmentPlaced(p) => SegmentPlaced(p)'
    <3> TAKE p \in Places
    <3> SUFFICES ASSUME SegmentPlaced(p) PROVE SegmentPlaced(p)'
      OBVIOUS
    <3>1. p[1] < at \/ (p[1] = at /\ p[2] < lay)
      BY DEF SegmentPlaced
    <3>2. p[1] < at' \/ (p[1] = at' /\ p[2] < lay')
      BY <2>1, <2>2, <3>1
    <3> QED BY <3>2 DEF SegmentPlaced
  <2> QED BY <1>1, <1>3, <2>1, <2>3, RecordsKept
<1> QED BY <1>2, <1>3

-----------------------------------------------------------------------------
\* The tables of the start-up code lie apart, below the vectors, and apart from what
\* runs in RAM.
Ahead(a, n, b, m) == a + n <= b \/ b + m <= a
LEMMA TablesApart ==
  ASSUME IInv, Separate(link), Placed, TablesWhole
  PROVE  /\ table.copy \in Nat /\ table.copy + CopyTableSize <= VectorTable
         /\ table.zero \in Nat /\ table.zero + ZeroTableSize <= VectorTable
         /\ table.init \in Nat /\ table.init + InitTableSize <= VectorTable
         /\ Ahead(table.copy, CopyTableSize, table.zero, ZeroTableSize)
         /\ Ahead(table.copy, CopyTableSize, table.init, InitTableSize)
         /\ Ahead(table.zero, ZeroTableSize, table.init, InitTableSize)
         /\ \A p \in Places : Written(p) /\ Segment(p).size > 0 =>
              /\ run_addr[p] \in Nat /\ run_addr[p] + Segment(p).size <= VectorTable
              /\ Ahead(run_addr[p], Segment(p).size, table.copy, CopyTableSize)
              /\ Ahead(run_addr[p], Segment(p).size, table.zero, ZeroTableSize)
<1> DEFINE C == Block(<<"copy">>, link.data_load, table.copy, CopyTableSize)
           Z == Block(<<"zero">>, link.data_load, table.zero, ZeroTableSize)
           I == Block(<<"init">>, link.data_load, table.init, InitTableSize)
<1>1. Packed(Blocks, link.mem, cur)
  BY DEF IInv, Packing
<1>2. C \in Blocks /\ Z \in Blocks /\ I \in Blocks
  BY DEF Blocks
<1>3. /\ C.id[1] = "copy" /\ C.from = table.copy /\ C.size = CopyTableSize
      /\ Z.id[1] = "zero" /\ Z.from = table.zero /\ Z.size = ZeroTableSize
      /\ I.id[1] = "init" /\ I.from = table.init /\ I.size = InitTableSize
  BY DEF Block
<1>4. C.size > 0 /\ Z.size > 0 /\ I.size > 0
  <2>1. Len(copy_records) \in Nat /\ Len(zero_records) \in Nat
    BY DEF IInv, Records, IsSeq
  <2>2. Len(link.inits) \in Nat
    <3>1. link.inits \in Seq(Labels)
      BY LinksAssumption DEF IInv, WellFormed
    <3> QED BY <3>1
  <2> HIDE DEF C, Z, I
  <2> QED BY <1>3, <2>1, <2>2 DEF TablesWhole
<1>5. \A b \in Blocks : b.size > 0 =>
        /\ b.from \in Nat /\ b.from + b.size <= VectorTable
        /\ \A c \in Blocks \ {b} : c.size > 0 => Ahead(b.from, b.size, c.from, c.size)
  BY <1>1, PackedIsDisjoint DEF BlocksDisjoint, Packed, Ahead
<1> HIDE DEF C, Z, I
<1>6. C # Z /\ C # I /\ Z # I
  BY <1>3
<1>7. /\ Ahead(C.from, C.size, Z.from, Z.size) /\ Ahead(C.from, C.size, I.from, I.size)
      /\ Ahead(Z.from, Z.size, I.from, I.size)
  BY <1>2, <1>4, <1>5, <1>6
<1>8. ASSUME NEW p \in Places, Written(p), Segment(p).size > 0
      PROVE  /\ run_addr[p] \in Nat /\ run_addr[p] + Segment(p).size <= VectorTable
             /\ Ahead(run_addr[p], Segment(p).size, table.copy, CopyTableSize)
             /\ Ahead(run_addr[p], Segment(p).size, table.zero, ZeroTableSize)
  <2>1. Segment(p).segid # "TEXT"
    BY <1>8 DEF Written, Segment
  <2>2. PICK b : b = Block(<<"run", p>>, RunRegion(Segment(p)), run_addr[p], Segment(p).size)
    OBVIOUS
  <2>3. b \in Blocks
    BY <2>1, <2>2 DEF Blocks, Segment
  <2>4. b.id[1] = "run" /\ b.from = run_addr[p] /\ b.size = Segment(p).size
    BY <2>2 DEF Block
  <2>5. b # C /\ b # Z
    BY <1>3, <2>4
  <2>6. /\ b.from \in Nat /\ b.from + b.size <= VectorTable
        /\ Ahead(b.from, b.size, C.from, C.size) /\ Ahead(b.from, b.size, Z.from, Z.size)
    BY <1>2, <1>4, <1>5, <1>8, <2>3, <2>4, <2>5
  <2> QED BY <1>3, <2>4, <2>6
<1>9. /\ C.from \in Nat /\ C.from + C.size <= VectorTable
      /\ Z.from \in Nat /\ Z.from + Z.size <= VectorTable
      /\ I.from \in Nat /\ I.from + I.size <= VectorTable
  BY <1>2, <1>4, <1>5
<1> QED BY <1>3, <1>7, <1>8, <1>9

\* The tables as the linker writes them, with the record that ends each.
CopyList == Append(copy_records, <<0, 0, 0>>)
ZeroList == Append(zero_records, <<0, 0>>)
LEMMA ListsAre ==
  ASSUME IInv, RecInv, Separate(link)
  PROVE  /\ IsSeq(CopyList) /\ Len(CopyList) = Len(copy_records) + 1
         /\ \A k \in 1 .. Len(CopyList) : IsSeq(CopyList[k]) /\ Len(CopyList[k]) = 3
         /\ \A k \in 1 .. Len(copy_records) : CopyRecorded(CopyList[k])
         /\ CopyList[Len(copy_records) + 1] = <<0, 0, 0>>
         /\ IsSeq(ZeroList) /\ Len(ZeroList) = Len(zero_records) + 1
         /\ \A k \in 1 .. Len(ZeroList) : IsSeq(ZeroList[k]) /\ Len(ZeroList[k]) = 2
         /\ \A k \in 1 .. Len(zero_records) : ZeroRecorded(ZeroList[k])
         /\ ZeroList[Len(zero_records) + 1] = <<0, 0>>
<1>1. IsSeq(copy_records) /\ IsSeq(zero_records)
      /\ Len(copy_records) \in Nat /\ Len(zero_records) \in Nat
  BY DEF IInv, Records, IsSeq
<1>2. /\ IsSeq(CopyList) /\ Len(CopyList) = Len(copy_records) + 1
      /\ \A k \in 1 .. Len(copy_records) : CopyList[k] = copy_records[k]
      /\ CopyList[Len(copy_records) + 1] = <<0, 0, 0>>
  BY <1>1, AppendIs DEF CopyList
<1>3. /\ IsSeq(ZeroList) /\ Len(ZeroList) = Len(zero_records) + 1
      /\ \A k \in 1 .. Len(zero_records) : ZeroList[k] = zero_records[k]
      /\ ZeroList[Len(zero_records) + 1] = <<0, 0>>
  BY <1>1, AppendIs DEF ZeroList
<1>4. \A k \in 1 .. Len(copy_records) : CopyRecorded(CopyList[k])
  BY <1>2 DEF RecInv, Members
<1>5. \A k \in 1 .. Len(zero_records) : ZeroRecorded(ZeroList[k])
  BY <1>3 DEF RecInv, Members
<1>6. \A a, b, c : IsSeq(<<a, b, c>>) /\ Len(<<a, b, c>>) = 3
  <2> TAKE a, b, c
  <2>1. Len(<<a, b, c>>) = 3
    OBVIOUS
  <2>2. <<a, b, c>> = [k \in 1 .. 3 |-> <<a, b, c>>[k]]
    OBVIOUS
  <2> QED BY <2>1, <2>2 DEF IsSeq
<1>7. \A a, b : IsSeq(<<a, b>>) /\ Len(<<a, b>>) = 2
  <2> TAKE a, b
  <2>1. Len(<<a, b>>) = 2
    OBVIOUS
  <2>2. <<a, b>> = [k \in 1 .. 2 |-> <<a, b>>[k]]
    OBVIOUS
  <2> QED BY <2>1, <2>2 DEF IsSeq
<1>8. ASSUME NEW k \in 1 .. Len(CopyList)
      PROVE  IsSeq(CopyList[k]) /\ Len(CopyList[k]) = 3
  <2>1. CASE k \in 1 .. Len(copy_records)
    <3>1. CopyRecorded(CopyList[k])
      BY <1>4, <2>1
    <3>2. CopyList[k] = <<CopyList[k][1], CopyList[k][2], CopyList[k][3]>>
      BY <3>1 DEF CopyRecorded
    <3> QED BY <1>6, <3>2
  <2>2. CASE k = Len(copy_records) + 1
    <3>1. CopyList[k] = <<0, 0, 0>>
      BY <1>2, <2>2
    <3> QED BY <1>6, <3>1
  <2> QED BY <1>1, <1>2, <2>1, <2>2
<1>9. ASSUME NEW k \in 1 .. Len(ZeroList)
      PROVE  IsSeq(ZeroList[k]) /\ Len(ZeroList[k]) = 2
  <2>1. CASE k \in 1 .. Len(zero_records)
    <3>1. ZeroRecorded(ZeroList[k])
      BY <1>5, <2>1
    <3>2. ZeroList[k] = <<ZeroList[k][1], ZeroList[k][2]>>
      BY <3>1 DEF ZeroRecorded
    <3> QED BY <1>7, <3>2
  <2>2. CASE k = Len(zero_records) + 1
    <3>1. ZeroList[k] = <<0, 0>>
      BY <1>3, <2>2
    <3> QED BY <1>7, <3>1
  <2> QED BY <1>1, <1>3, <2>1, <2>2
<1> QED BY <1>2, <1>3, <1>4, <1>5, <1>8, <1>9

\* What build_rom_image writes last leaves the copy and the zero table whole.
Tabled(img) == TableIs(img, table.copy, 3, CopyList) /\ TableIs(img, table.zero, 2, ZeroList)

LEMMA TableSizes ==
  ASSUME IInv, RecInv, Separate(link), TablesWhole
  PROVE  /\ Len(CopyTable) = CopyTableSize /\ Len(ZeroTable) = ZeroTableSize
         /\ Len(InitTable) = InitTableSize /\ Len(VectorWords) = 6
         /\ CopyTableSize \in Nat /\ ZeroTableSize \in Nat /\ InitTableSize \in Nat
         /\ CopyTableSize = 2 * (3 * Len(CopyList)) /\ ZeroTableSize = 2 * (2 * Len(ZeroList))
<1>1. Len(copy_records) \in Nat /\ Len(zero_records) \in Nat
  BY DEF IInv, Records, IsSeq
<1>2. link.inits \in Seq(Labels)
  BY LinksAssumption DEF IInv, WellFormed
<1>3. Len(link.inits) \in Nat
  BY <1>2
<1>4. Len(CopyList) = Len(copy_records) + 1 /\ Len(ZeroList) = Len(zero_records) + 1
  BY ListsAre
<1>5. CopyTableSize = 2 * (3 * Len(CopyList)) /\ ZeroTableSize = 2 * (2 * Len(ZeroList))
      /\ CopyTableSize \in Nat /\ ZeroTableSize \in Nat /\ InitTableSize \in Nat
  BY <1>1, <1>3, <1>4 DEF TablesWhole
<1>6. Len(CopyTable) = CopyTableSize
  <2>1. PICK recs : recs = CopyList
    OBVIOUS
  <2>2. /\ IsSeq(recs) /\ Len(recs) # 0
        /\ \A k \in 1 .. Len(recs) : IsSeq(recs[k]) /\ Len(recs[k]) = 3
    BY <1>1, <1>4, <2>1, ListsAre
  <2>3. Len(Words(FlattenSeq(recs))) = 2 * (3 * Len(recs))
    BY <2>2, RecordTable
  <2> QED BY <1>5, <2>1, <2>3 DEF CopyTable, CopyList
<1>7. Len(ZeroTable) = ZeroTableSize
  <2>1. PICK recs : recs = ZeroList
    OBVIOUS
  <2>2. /\ IsSeq(recs) /\ Len(recs) # 0
        /\ \A k \in 1 .. Len(recs) : IsSeq(recs[k]) /\ Len(recs[k]) = 2
    BY <1>1, <1>4, <2>1, ListsAre
  <2>3. Len(Words(FlattenSeq(recs))) = 2 * (2 * Len(recs))
    BY <2>2, RecordTable
  <2> QED BY <1>5, <2>1, <2>3 DEF ZeroTable, ZeroList
<1>8. Len(InitTable) = InitTableSize
  <2>1. DOMAIN link.inits = 1 .. Len(link.inits)
    BY <1>2
  <2>2. PICK n \in Nat : n = Len(link.inits)
    BY <1>3
  <2>3. PICK inits : inits = [k \in DOMAIN link.inits |-> Global(link.inits[k])]
    OBVIOUS
  <2>4. IsSeq(inits) /\ Len(inits) = n
    <3>1. \A f : IsSeq([k \in 1 .. n |-> f[k]]) /\ Len([k \in 1 .. n |-> f[k]]) = n
      BY DEF IsSeq
    <3>2. inits = [k \in 1 .. n |-> inits[k]]
      BY <2>1, <2>2, <2>3
    <3> QED BY <3>1, <3>2
  <2>5. PICK ws : ws = Append(inits, 0)
    OBVIOUS
  <2>6. Len(ws) = n + 1 /\ Len(ws) \in Nat
    BY <2>4, <2>5, LenAppend
  <2>7. Len(Words(ws)) = 2 * Len(ws)
    BY <2>6, WordsAre
  <2> QED BY <2>2, <2>3, <2>5, <2>6, <2>7 DEF InitTable, TablesWhole
<1>9. Len(VectorWords) = 6
  <2>1. PICK ws : ws = <<Global(link.nmi), Global(link.reset), Global(link.irqbrk)>>
    OBVIOUS
  <2>2. Len(ws) = 3 /\ Len(ws) \in Nat
    BY <2>1
  <2>3. Len(Words(ws)) = 2 * Len(ws)
    BY <2>2, WordsAre
  <2> QED BY <2>1, <2>2, <2>3 DEF VectorWords
<1> QED BY <1>5, <1>6, <1>7, <1>8, <1>9

\* Four blocks that lie apart, written one after the other: the first two stay.
Holds(out, a, as, n) == \A k \in 1 .. n : out[a + k - 1] = as[k]

Lengths(as, n, bs, m, cs, l, vs) == Len(as) = n /\ Len(bs) = m /\ Len(cs) = l /\ Len(vs) \in Nat
Spread(a, n, b, m, c, l, v, S) ==
  /\ a + n <= v /\ b + m <= v /\ v < S
  /\ Ahead(a, n, b, m) /\ Ahead(a, n, c, l) /\ Ahead(b, m, c, l)

LEMMA PutFour ==
  ASSUME NEW img, NEW S \in Nat, DOMAIN img = 0 .. S - 1,
         NEW a \in Nat, NEW as, NEW n \in Nat, NEW b \in Nat, NEW bs, NEW m \in Nat,
         NEW c \in Nat, NEW cs, NEW l \in Nat, NEW v \in Nat, NEW vs,
         Lengths(as, n, bs, m, cs, l, vs), Spread(a, n, b, m, c, l, v, S),
         NEW out, out = Put(Put(Put(Put(img, a, as), b, bs), c, cs), v, vs)
  PROVE  Holds(out, a, as, n) /\ Holds(out, b, bs, m) /\ DOMAIN out = 0 .. S - 1
<1>0. /\ Len(as) = n /\ Len(bs) = m /\ Len(cs) = l /\ Len(vs) \in Nat
      /\ a + n <= v /\ b + m <= v /\ v < S
      /\ Ahead(a, n, b, m) /\ Ahead(a, n, c, l) /\ Ahead(b, m, c, l)
  BY DEF Lengths, Spread
<1>1. PICK i1 : i1 = Put(img, a, as)
  OBVIOUS
<1>2. PICK i2 : i2 = Put(i1, b, bs)
  OBVIOUS
<1>3. PICK i3 : i3 = Put(i2, c, cs)
  OBVIOUS
<1>4. out = Put(i3, v, vs)
  BY <1>1, <1>2, <1>3
<1>5. PutsIn(i1, img, a, as)
  BY <1>0, <1>1, PutIs
<1>6. PutsIn(i2, i1, b, bs)
  BY <1>0, <1>2, PutIs
<1>7. PutsIn(i3, i2, c, cs)
  BY <1>0, <1>3, PutIs
<1>8. PutsIn(out, i3, v, vs)
  BY <1>0, <1>4, PutIs
<1>9. DOMAIN i1 = 0 .. S - 1 /\ DOMAIN i2 = 0 .. S - 1 /\ DOMAIN i3 = 0 .. S - 1
      /\ DOMAIN out = 0 .. S - 1
  BY <1>5, <1>6, <1>7, <1>8 DEF PutsIn
<1>10. ASSUME NEW x \in 0 .. S - 1
       PROVE  /\ (x < b \/ b + m <= x) => i2[x] = i1[x]
              /\ (x < c \/ c + l <= x) => i3[x] = i2[x]
              /\ x < v => out[x] = i3[x]
  <2>1. x \in Nat
    OBVIOUS
  <2> QED BY <1>0, <1>6, <1>7, <1>8, <1>9, <2>1 DEF PutsIn
<1>11. ASSUME NEW k \in 1 .. n
       PROVE  out[a + k - 1] = as[k]
  <2>1. PICK x \in Nat : x = a + k - 1 /\ a <= x /\ x < a + n
    OBVIOUS
  <2>2. x \in 0 .. S - 1 /\ x < v
    BY <1>0, <2>1
  <2>3. (x < b \/ b + m <= x) /\ (x < c \/ c + l <= x)
    BY <1>0, <2>1 DEF Ahead
  <2>4. i1[x] = as[k]
    BY <1>0, <1>5, <2>1, <2>2 DEF PutsIn
  <2>5. i2[x] = i1[x] /\ i3[x] = i2[x] /\ out[x] = i3[x]
    BY <1>10, <2>2, <2>3
  <2>6. out[x] = as[k]
    BY <2>4, <2>5
  <2> QED BY <2>1, <2>6
<1>12. ASSUME NEW k \in 1 .. m
       PROVE  out[b + k - 1] = bs[k]
  <2>1. PICK x \in Nat : x = b + k - 1 /\ b <= x /\ x < b + m
    OBVIOUS
  <2>2. x \in 0 .. S - 1 /\ x < v
    BY <1>0, <2>1
  <2>3. x < c \/ c + l <= x
    BY <1>0, <2>1 DEF Ahead
  <2>4. i2[x] = bs[k]
    BY <1>0, <1>6, <1>9, <2>1, <2>2 DEF PutsIn
  <2>5. i3[x] = i2[x] /\ out[x] = i3[x]
    BY <1>10, <2>2, <2>3
  <2>6. out[x] = bs[k]
    BY <2>4, <2>5
  <2> QED BY <2>1, <2>6
<1> QED BY <1>9, <1>11, <1>12 DEF Holds

LEMMA TablesWritten ==
  ASSUME IInv, RecInv, Separate(link), TablesWhole, DOMAIN image = 0 .. Space - 1, WriteTables
  PROVE  \A img : img = image' => Tabled(img)
<1>1. Placed /\ image' = Put(Put(Put(Put(image, table.copy, CopyTable), table.zero, ZeroTable),
                      table.init, InitTable), VectorTable, VectorWords)
  BY DEF WriteTables, Placed
<1>2. /\ Len(CopyTable) = CopyTableSize /\ Len(ZeroTable) = ZeroTableSize
      /\ Len(InitTable) = InitTableSize /\ Len(VectorWords) = 6
      /\ CopyTableSize \in Nat /\ ZeroTableSize \in Nat /\ InitTableSize \in Nat
      /\ CopyTableSize = 2 * (3 * Len(CopyList)) /\ ZeroTableSize = 2 * (2 * Len(ZeroList))
  BY TableSizes
<1>3. /\ table.copy \in Nat /\ table.copy + CopyTableSize <= VectorTable
      /\ table.zero \in Nat /\ table.zero + ZeroTableSize <= VectorTable
      /\ table.init \in Nat /\ table.init + InitTableSize <= VectorTable
      /\ Ahead(table.copy, CopyTableSize, table.zero, ZeroTableSize)
      /\ Ahead(table.copy, CopyTableSize, table.init, InitTableSize)
      /\ Ahead(table.zero, ZeroTableSize, table.init, InitTableSize)
  BY <1>1, TablesApart
<1>4. PICK img : img = image'
  OBVIOUS
<1>5. /\ \A k \in 1 .. CopyTableSize : img[table.copy + k - 1] = CopyTable[k]
      /\ \A k \in 1 .. ZeroTableSize : img[table.zero + k - 1] = ZeroTable[k]
  <2>1. PICK S \in Nat : S = Space /\ VectorTable \in Nat /\ VectorTable < S
    BY SpaceNat
  <2>2. PICK n \in Nat, m \in Nat, l \in Nat :
           n = CopyTableSize /\ m = ZeroTableSize /\ l = InitTableSize
    BY <1>2
  <2>3. PICK a \in Nat, b \in Nat, c \in Nat :
           a = table.copy /\ b = table.zero /\ c = table.init
    BY <1>3
  <2>4. PICK as, bs, cs, vs :
           as = CopyTable /\ bs = ZeroTable /\ cs = InitTable /\ vs = VectorWords
    OBVIOUS
  <2>5. PICK v \in Nat : v = VectorTable
    BY <2>1
  <2>6. PICK old : old = image
    OBVIOUS
  <2>7. DOMAIN old = 0 .. S - 1 /\ img = Put(Put(Put(Put(old, a, as), b, bs), c, cs), v, vs)
    BY <1>1, <1>4, <2>1, <2>3, <2>4, <2>5, <2>6
  <2>8. Lengths(as, n, bs, m, cs, l, vs)
    BY <1>2, <2>2, <2>4 DEF Lengths
  <2>9. Spread(a, n, b, m, c, l, v, S)
    BY <1>3, <2>1, <2>2, <2>3, <2>5 DEF Spread
  <2>10. Holds(img, a, as, n) /\ Holds(img, b, bs, m)
    BY <2>7, <2>8, <2>9, PutFour, ZenonT(60)
  <2> QED BY <2>2, <2>3, <2>4, <2>10 DEF Holds
<1>6. Len(CopyList) # 0 /\ Len(ZeroList) # 0
  BY ListsAre DEF IInv, Records, IsSeq
<1>7. TableIs(img, table.copy, 3, CopyList)
  <2>1. PICK recs : recs = CopyList
    OBVIOUS
  <2>2. /\ IsSeq(recs) /\ Len(recs) # 0
        /\ \A k \in 1 .. Len(recs) : IsSeq(recs[k]) /\ Len(recs[k]) = 3
    BY <1>6, <2>1, ListsAre
  <2>3. CopyTable = Words(FlattenSeq(recs))
    BY <2>1 DEF CopyTable, CopyList
  <2>4. \A k \in 1 .. 2 * (3 * Len(recs)) : img[table.copy + k - 1] = Words(FlattenSeq(recs))[k]
    BY <1>2, <1>5, <2>1, <2>3
  <2>5. TableIs(img, table.copy, 3, recs)
    BY <1>3, <2>2, <2>4, RecordTable
  <2> QED BY <2>1, <2>5
<1>8. TableIs(img, table.zero, 2, ZeroList)
  <2>1. PICK recs : recs = ZeroList
    OBVIOUS
  <2>2. /\ IsSeq(recs) /\ Len(recs) # 0
        /\ \A k \in 1 .. Len(recs) : IsSeq(recs[k]) /\ Len(recs[k]) = 2
    BY <1>6, <2>1, ListsAre
  <2>3. ZeroTable = Words(FlattenSeq(recs))
    BY <2>1 DEF ZeroTable, ZeroList
  <2>4. \A k \in 1 .. 2 * (2 * Len(recs)) : img[table.zero + k - 1] = Words(FlattenSeq(recs))[k]
    BY <1>2, <1>5, <2>1, <2>3
  <2>5. TableIs(img, table.zero, 2, recs)
    BY <1>3, <2>2, <2>4, RecordTable
  <2> QED BY <2>1, <2>5
<1> QED BY <1>4, <1>7, <1>8 DEF Tabled

-----------------------------------------------------------------------------
\* The walk of the start-up code through the tables.
WordIn(img, a) == (img[a % Space] + Byte * img[(a + 1) % Space]) % Space

\* A table of n records of w words that lies below the vectors; the address of a word.
TableAt(img, from, w, recs, n) ==
  Len(recs) = n /\ from + 2 * (w * n) <= VectorTable /\ TableIs(img, from, w, recs)
WordAddr(from, w, k, j) == from + 2 * (w * (k - 1) + (j - 1))
Reads(img, a, v) == v \in 0 .. Space - 1 => WordIn(img, a) = v

LEMMA WordOf ==
  ASSUME NEW img, NEW from \in Nat, NEW w \in {2, 3}, NEW recs, NEW n \in Nat,
         TableAt(img, from, w, recs, n),
         NEW k \in 1 .. n, NEW j \in 1 .. w
  PROVE  \A a \in Nat : a = WordAddr(from, w, k, j) => Reads(img, a, recs[k][j])
<1> SUFFICES ASSUME NEW a \in Nat, a = WordAddr(from, w, k, j), recs[k][j] \in 0 .. Space - 1
             PROVE  WordIn(img, a) = recs[k][j]
  BY DEF Reads
<1>0. /\ a = from + 2 * (w * (k - 1) + (j - 1)) /\ Len(recs) = n
      /\ from + 2 * (w * n) <= VectorTable /\ TableIs(img, from, w, recs)
  BY DEF TableAt, WordAddr
<1>1. PICK S \in Nat : S = Space /\ VectorTable = S - 6
  BY SpaceNat DEF VectorTable
<1>2. a + 1 < S
  <2>1. PICK l \in Nat : l = k - 1 /\ l + 1 <= n
    OBVIOUS
  <2>2. w * l + (j - 1) < w * n
    <3>1. CASE w = 2
      BY <2>1, <3>1
    <3>2. CASE w = 3
      BY <2>1, <3>2
    <3> QED BY <3>1, <3>2
  <2>3. PICK i \in Nat, q \in Nat : i = w * l + (j - 1) /\ q = w * n /\ i < q
    <3>1. w * l + (j - 1) \in Nat /\ w * n \in Nat
      BY <2>1
    <3> QED BY <2>2, <3>1
  <2>4. a = from + 2 * i /\ from + 2 * q <= S - 6
    BY <1>0, <1>1, <2>1, <2>3
  <2> QED BY <2>3, <2>4
<1>3. a % S = a /\ (a + 1) % S = a + 1
  <2>1. a \in 0 .. S - 1 /\ a + 1 \in 0 .. S - 1
    BY <1>2
  <2> QED BY <2>1, ModSmall
<1>4. img[a] = Low(recs[k][j]) /\ img[a + 1] = High(recs[k][j])
  <2>1. k \in 1 .. Len(recs)
    BY <1>0
  <2> QED BY <1>0, <2>1 DEF TableIs
<1> QED BY <1>1, <1>3, <1>4, Decode DEF WordIn

\* It is at a record, or in the middle of the segment of one.
AtCopyRecord == \E k \in 1 .. Len(copy_records) + 1 : ptr0 = table.copy + 6 * (k - 1)
Copying ==
  \E k \in 1 .. Len(copy_records) :
    /\ ptr0 = table.copy + 6 * (k - 1)
    /\ arg0 \in 1 .. CopyList[k][3] /\ ptr2 = CopyList[k][2] + (CopyList[k][3] - arg0)
AtZeroRecord == \E k \in 1 .. Len(zero_records) + 1 : ptr0 = table.zero + 4 * (k - 1)
Clearing ==
  \E k \in 1 .. Len(zero_records) :
    /\ ptr0 = table.zero + 4 * (k - 1)
    /\ arg0 \in 1 .. ZeroList[k][2] /\ ptr1 = ZeroList[k][1] + (ZeroList[k][2] - arg0)
Walking ==
  /\ boot = "_copy_record" => AtCopyRecord
  /\ boot = "_copy_loop" => Copying
  /\ boot = "_zero_record" => AtZeroRecord
  /\ boot = "_zero_loop" => Clearing
BootInv ==
  /\ DOMAIN image = 0 .. Space - 1
  /\ phase # "linked" => boot = "off"
  /\ Bootable => Tabled(image) /\ Walking
BInv == IInv /\ RecInv /\ BootInv

\* The start-up code changes nothing that the linker has laid out.
LEMMA LayoutStays ==
  ASSUME IInv, RecInv, Linked
  PROVE  /\ IInv' /\ RecInv' /\ (Bootable' <=> Bootable)
         /\ CopyList' = CopyList /\ ZeroList' = ZeroList /\ table' = table
         /\ copy_records' = copy_records /\ zero_records' = zero_records
         /\ \A img : Tabled(img)' <=> Tabled(img)
<1>1. /\ Placed /\ ~Working' /\ phase' \in {"write", "unmapped", "linked"}
      /\ UNCHANGED <<link, cur, text_load, data_load, run_addr, copy_records, zero_records,
                     table, stack>>
  BY DEF Linked, Placed, Working
<1>2. IInv'
  BY <1>1, StillPlaced
<1>3. RecInv'
  BY <1>1, RecordsKept
<1>4. Bootable' <=> Bootable
  BY DEF Bootable, Linked, TablesWhole, CopyTableSize, ZeroTableSize, InitTableSize
<1>5. CopyList' = CopyList /\ ZeroList' = ZeroList
  BY <1>1 DEF CopyList, ZeroList
<1>6. \A img : Tabled(img)' <=> Tabled(img)
  BY <1>1, <1>5 DEF Tabled
<1> QED BY <1>1, <1>2, <1>3, <1>4, <1>5, <1>6

\* A segment with a record, seen from the record.
LEMMA CopyEntry ==
  ASSUME IInv, RecInv, Bootable, NEW k \in 1 .. Len(copy_records)
  PROVE  /\ CopyList[k][2] \in Nat /\ CopyList[k][3] \in 1 .. Space - 1
         /\ CopyList[k][2] \in 0 .. Space - 1
         /\ CopyList[k][2] + CopyList[k][3] <= VectorTable
         /\ \E p \in Places : /\ Written(p) /\ run_addr[p] = CopyList[k][2]
                              /\ Segment(p).size = CopyList[k][3]
<1>1. CopyRecorded(CopyList[k])
  BY ListsAre DEF Bootable
<1>2. PICK p \in Places : Recorded(p, CopyList[k][2], CopyList[k][3])
  BY <1>1 DEF CopyRecorded
<1>3. /\ Written(p) /\ run_addr[p] = CopyList[k][2] /\ CopyList[k][2] \in 0 .. Space - 1
      /\ Segment(p).size = CopyList[k][3] /\ CopyList[k][3] \in 1 .. Space - 1
  BY <1>2 DEF Recorded
<1>4. Placed
  BY DEF Bootable, Placed
<1>5. Segment(p).size > 0
  BY <1>3, SpaceNat
<1>6. run_addr[p] \in Nat /\ run_addr[p] + Segment(p).size <= VectorTable
  BY <1>3, <1>4, <1>5, TablesApart DEF Bootable
<1> QED BY <1>3, <1>6

LEMMA ZeroEntry ==
  ASSUME IInv, RecInv, Bootable, NEW k \in 1 .. Len(zero_records)
  PROVE  /\ ZeroList[k][1] \in Nat /\ ZeroList[k][2] \in 1 .. Space - 1
         /\ ZeroList[k][1] \in 0 .. Space - 1
         /\ ZeroList[k][1] + ZeroList[k][2] <= VectorTable
         /\ \E p \in Places : /\ Written(p) /\ run_addr[p] = ZeroList[k][1]
                              /\ Segment(p).size = ZeroList[k][2]
<1>1. ZeroRecorded(ZeroList[k])
  BY ListsAre DEF Bootable
<1>2. PICK p \in Places : Recorded(p, ZeroList[k][1], ZeroList[k][2])
  BY <1>1 DEF ZeroRecorded
<1>3. /\ Written(p) /\ run_addr[p] = ZeroList[k][1] /\ ZeroList[k][1] \in 0 .. Space - 1
      /\ Segment(p).size = ZeroList[k][2] /\ ZeroList[k][2] \in 1 .. Space - 1
  BY <1>2 DEF Recorded
<1>4. Placed
  BY DEF Bootable, Placed
<1>5. Segment(p).size > 0
  BY <1>3, SpaceNat
<1>6. run_addr[p] \in Nat /\ run_addr[p] + Segment(p).size <= VectorTable
  BY <1>3, <1>4, <1>5, TablesApart DEF Bootable
<1> QED BY <1>3, <1>6

\* What the registers are loaded with at a record: what the linker has written there.
LEMMA CopyWords ==
  ASSUME IInv, RecInv, Bootable, Tabled(image), NEW k \in 1 .. Len(copy_records) + 1,
         NEW a \in Nat, a = table.copy + 6 * (k - 1)
  PROVE  /\ k \in 1 .. Len(copy_records) =>
              WordAt(a + 2) = CopyList[k][2] /\ WordAt(a + 4) = CopyList[k][3]
         /\ k = Len(copy_records) + 1 => WordAt(a + 4) = 0
<1>1. Separate(link) /\ TablesWhole /\ Placed
  BY DEF Bootable, Placed
<1>2. PICK n \in Nat : n = Len(CopyList) /\ n = Len(copy_records) + 1
  BY ListsAre, <1>1 DEF IInv, Records, IsSeq
<1>3. PICK from \in Nat : from = table.copy /\ from + 2 * (3 * n) <= VectorTable
  BY <1>1, <1>2, TablesApart, TableSizes
<1>4. PICK recs, img : recs = CopyList /\ img = image
  OBVIOUS
<1>5. TableIs(img, from, 3, recs) /\ Len(recs) = n
  BY <1>2, <1>3, <1>4 DEF Tabled
<1>6. a + 2 \in Nat /\ a + 2 = from + 2 * (3 * (k - 1) + (2 - 1))
  BY <1>2, <1>3
<1>7. a + 4 \in Nat /\ a + 4 = from + 2 * (3 * (k - 1) + (3 - 1))
  BY <1>2, <1>3
<1>8. ASSUME recs[k][2] \in 0 .. Space - 1
      PROVE  WordAt(a + 2) = recs[k][2]
  <2>1. PICK w \in {2, 3}, j \in 1 .. 3, x \in Nat, i \in 1 .. n :
           w = 3 /\ j = 2 /\ x = a + 2 /\ i = k
    BY <1>2, <1>6
  <2>2. j \in 1 .. w /\ x = WordAddr(from, w, i, j)
    BY <1>6, <2>1 DEF WordAddr
  <2>3. recs[i][j] \in 0 .. Space - 1 /\ TableAt(img, from, w, recs, n)
    BY <1>3, <1>5, <1>8, <2>1 DEF TableAt
  <2>4. Reads(img, x, recs[i][j])
    BY <2>2, <2>3, WordOf
  <2> QED BY <1>4, <2>1, <2>3, <2>4 DEF WordAt, WordIn, Reads
<1>9. ASSUME recs[k][3] \in 0 .. Space - 1
      PROVE  WordAt(a + 4) = recs[k][3]
  <2>1. PICK w \in {2, 3}, j \in 1 .. 3, x \in Nat, i \in 1 .. n :
           w = 3 /\ j = 3 /\ x = a + 4 /\ i = k
    BY <1>2, <1>7
  <2>2. j \in 1 .. w /\ x = WordAddr(from, w, i, j)
    BY <1>7, <2>1 DEF WordAddr
  <2>3. recs[i][j] \in 0 .. Space - 1 /\ TableAt(img, from, w, recs, n)
    BY <1>3, <1>5, <1>9, <2>1 DEF TableAt
  <2>4. Reads(img, x, recs[i][j])
    BY <2>2, <2>3, WordOf
  <2> QED BY <1>4, <2>1, <2>3, <2>4 DEF WordAt, WordIn, Reads
<1>10. CASE k \in 1 .. Len(copy_records)
  <2>1. recs[k][2] \in 0 .. Space - 1 /\ recs[k][3] \in 0 .. Space - 1
    BY <1>4, <1>10, CopyEntry, SpaceNat
  <2> QED BY <1>2, <1>4, <1>8, <1>9, <1>10, <2>1
<1>11. CASE k = Len(copy_records) + 1
  <2>1. CopyList[Len(copy_records) + 1] = <<0, 0, 0>>
    BY <1>1, ListsAre
  <2>2. recs[k] = <<0, 0, 0>>
    BY <1>4, <1>11, <2>1
  <2>3. recs[k][3] = 0 /\ recs[k][3] \in 0 .. Space - 1
    BY <2>2, SpaceNat
  <2> QED BY <1>2, <1>9, <1>11, <2>3
<1> QED BY <1>2, <1>10, <1>11

LEMMA ZeroWords ==
  ASSUME IInv, RecInv, Bootable, Tabled(image), NEW k \in 1 .. Len(zero_records) + 1,
         NEW a \in Nat, a = table.zero + 4 * (k - 1)
  PROVE  /\ k \in 1 .. Len(zero_records) =>
              WordAt(a) = ZeroList[k][1] /\ WordAt(a + 2) = ZeroList[k][2]
         /\ k = Len(zero_records) + 1 => WordAt(a + 2) = 0
<1>1. Separate(link) /\ TablesWhole /\ Placed
  BY DEF Bootable, Placed
<1>2. PICK n \in Nat : n = Len(ZeroList) /\ n = Len(zero_records) + 1
  BY ListsAre, <1>1 DEF IInv, Records, IsSeq
<1>3. PICK from \in Nat : from = table.zero /\ from + 2 * (2 * n) <= VectorTable
  BY <1>1, <1>2, TablesApart, TableSizes
<1>4. PICK recs, img : recs = ZeroList /\ img = image
  OBVIOUS
<1>5. TableIs(img, from, 2, recs) /\ Len(recs) = n
  BY <1>2, <1>3, <1>4 DEF Tabled
<1>6. a = from + 2 * (2 * (k - 1) + (1 - 1))
  BY <1>2, <1>3
<1>7. a + 2 \in Nat /\ a + 2 = from + 2 * (2 * (k - 1) + (2 - 1))
  BY <1>2, <1>3
<1>8. ASSUME recs[k][1] \in 0 .. Space - 1
      PROVE  WordAt(a) = recs[k][1]
  <2>1. PICK w \in {2, 3}, j \in 1 .. 2, x \in Nat, i \in 1 .. n :
           w = 2 /\ j = 1 /\ x = a /\ i = k
    BY <1>2, <1>6
  <2>2. j \in 1 .. w /\ x = WordAddr(from, w, i, j)
    BY <1>6, <2>1 DEF WordAddr
  <2>3. recs[i][j] \in 0 .. Space - 1 /\ TableAt(img, from, w, recs, n)
    BY <1>3, <1>5, <1>8, <2>1 DEF TableAt
  <2>4. Reads(img, x, recs[i][j])
    BY <2>2, <2>3, WordOf
  <2> QED BY <1>4, <2>1, <2>3, <2>4 DEF WordAt, WordIn, Reads
<1>9. ASSUME recs[k][2] \in 0 .. Space - 1
      PROVE  WordAt(a + 2) = recs[k][2]
  <2>1. PICK w \in {2, 3}, j \in 1 .. 2, x \in Nat, i \in 1 .. n :
           w = 2 /\ j = 2 /\ x = a + 2 /\ i = k
    BY <1>2, <1>7
  <2>2. j \in 1 .. w /\ x = WordAddr(from, w, i, j)
    BY <1>7, <2>1 DEF WordAddr
  <2>3. recs[i][j] \in 0 .. Space - 1 /\ TableAt(img, from, w, recs, n)
    BY <1>3, <1>5, <1>9, <2>1 DEF TableAt
  <2>4. Reads(img, x, recs[i][j])
    BY <2>2, <2>3, WordOf
  <2> QED BY <1>4, <2>1, <2>3, <2>4 DEF WordAt, WordIn, Reads
<1>10. CASE k \in 1 .. Len(zero_records)
  <2>1. recs[k][1] \in 0 .. Space - 1 /\ recs[k][2] \in 0 .. Space - 1
    BY <1>4, <1>10, ZeroEntry, SpaceNat
  <2> QED BY <1>2, <1>4, <1>8, <1>9, <1>10, <2>1
<1>11. CASE k = Len(zero_records) + 1
  <2>1. ZeroList[Len(zero_records) + 1] = <<0, 0>>
    BY <1>1, ListsAre
  <2>2. recs[k] = <<0, 0>>
    BY <1>4, <1>11, <2>1
  <2>3. recs[k][2] = 0 /\ recs[k][2] \in 0 .. Space - 1
    BY <2>2, SpaceNat
  <2> QED BY <1>2, <1>9, <1>11, <2>3
<1> QED BY <1>2, <1>10, <1>11

\* A byte that is written where a recorded segment runs is not one of the tables.

\* A byte that is written where a recorded segment runs is not one of the tables.
LEMMA TableStays ==
  ASSUME NEW old, NEW S \in Nat, DOMAIN old = 0 .. S - 1, NEW from \in Nat, NEW w \in {2, 3},
         NEW recs, NEW n \in Nat, Len(recs) = n, from + 2 * (w * n) <= S,
         TableIs(old, from, w, recs),
         NEW a \in Nat, a < from \/ from + 2 * (w * n) <= a, NEW b
  PROVE  TableIs([old EXCEPT ![a] = b], from, w, recs)
<1> DEFINE new == [old EXCEPT ![a] = b]
<1>1. \A x \in 0 .. S - 1 : x # a => new[x] = old[x]
  OBVIOUS
<1> HIDE DEF new
<1>2. ASSUME NEW k \in 1 .. Len(recs), NEW j \in 1 .. w
      PROVE  LET x == from + 2 * (w * (k - 1) + (j - 1)) IN
             new[x] = Low(recs[k][j]) /\ new[x + 1] = High(recs[k][j])
  <2>1. PICK l \in Nat : l = k - 1 /\ l + 1 <= n
    OBVIOUS
  <2>2. w * l + (j - 1) < w * n
    <3>1. CASE w = 2
      BY <2>1, <3>1
    <3>2. CASE w = 3
      BY <2>1, <3>2
    <3> QED BY <3>1, <3>2
  <2>3. PICK i \in Nat, q \in Nat : i = w * l + (j - 1) /\ q = w * n /\ i < q
    <3>1. w * l + (j - 1) \in Nat /\ w * n \in Nat
      BY <2>1
    <3> QED BY <2>2, <3>1
  <2>4. PICK x \in Nat : x = from + 2 * i
    OBVIOUS
  <2>5. x \in 0 .. S - 1 /\ x + 1 \in 0 .. S - 1 /\ x # a /\ x + 1 # a
    BY <2>3, <2>4
  <2>6. old[x] = Low(recs[k][j]) /\ old[x + 1] = High(recs[k][j])
    BY <2>1, <2>3, <2>4 DEF TableIs
  <2>7. new[x] = Low(recs[k][j]) /\ new[x + 1] = High(recs[k][j])
    BY <1>1, <2>5, <2>6
  <2> QED BY <2>1, <2>3, <2>4, <2>7
<1> QED BY <1>2 DEF TableIs, new

LEMMA TablesStay ==
  ASSUME IInv, RecInv, Bootable, Tabled(image), DOMAIN image = 0 .. Space - 1,
         NEW p \in Places, Written(p), Segment(p).size > 0, NEW a \in Nat, NEW b, NEW img,
         run_addr[p] <= a, a < run_addr[p] + Segment(p).size,
         img = [image EXCEPT ![a] = b]
  PROVE  Tabled(img)
<1>1. Separate(link) /\ TablesWhole /\ Placed
  BY DEF Bootable, Placed
<1>2. PICK size \in Nat : size = Segment(p).size
  BY PlacesAre DEF IInv
<1>3. PICK from \in Nat, to \in Nat : from = table.copy /\ to = table.zero
  BY <1>1, TablesApart
<1>4. PICK n \in Nat, m \in Nat : /\ n = Len(CopyList) /\ m = Len(ZeroList)
                                  /\ CopyTableSize = 2 * (3 * n) /\ ZeroTableSize = 2 * (2 * m)
  <2>1. Len(CopyList) \in Nat /\ Len(ZeroList) \in Nat
    BY <1>1, ListsAre DEF IInv, Records, IsSeq
  <2> QED BY <1>1, <2>1, TableSizes
<1>5. PICK home : home = run_addr[p]
  OBVIOUS
<1>6. PICK S \in Nat : S = Space /\ VectorTable \in Nat /\ VectorTable < S
  BY SpaceNat
<1>7. size > 0
  BY <1>2
<1>8. Tabled(img)
  <2>1. /\ home \in Nat /\ home + size <= VectorTable
        /\ Ahead(home, size, from, 2 * (3 * n)) /\ Ahead(home, size, to, 2 * (2 * m))
    BY <1>1, <1>2, <1>3, <1>4, <1>5, <1>7, TablesApart
  <2>2. from + 2 * (3 * n) <= S /\ to + 2 * (2 * m) <= S
    <3>1. from + 2 * (3 * n) <= VectorTable /\ to + 2 * (2 * m) <= VectorTable
      BY <1>1, <1>3, <1>4, TablesApart
    <3> QED BY <1>6, <3>1
  <2>3. home <= a /\ a < home + size
    BY <1>2, <1>5
  <2>4. /\ a < from \/ from + 2 * (3 * n) <= a
        /\ a < to \/ to + 2 * (2 * m) <= a
    BY <2>1, <2>3 DEF Ahead
  <2>5. PICK old, copies, zeros : old = image /\ copies = CopyList /\ zeros = ZeroList
    OBVIOUS
  <2>6. /\ TableIs(old, from, 3, copies) /\ TableIs(old, to, 2, zeros) /\ DOMAIN old = 0 .. S - 1
        /\ Len(copies) = n /\ Len(zeros) = m
    BY <1>3, <1>4, <1>6, <2>5 DEF Tabled
  <2>7. PICK three \in {2, 3}, two \in {2, 3} : three = 3 /\ two = 2
    OBVIOUS
  <2>8. TableIs([old EXCEPT ![a] = b], from, three, copies)
    BY <2>2, <2>4, <2>6, <2>7, TableStays
  <2>9. TableIs([old EXCEPT ![a] = b], to, two, zeros)
    BY <2>2, <2>4, <2>6, <2>7, TableStays
  <2> QED BY <1>3, <2>5, <2>7, <2>8, <2>9 DEF Tabled
<1> QED BY <1>8

-----------------------------------------------------------------------------
\* Each step of the start-up code: it keeps the invariant, and what it writes is where
\* a recorded segment runs.
Confined ==
  {a \in DOMAIN image : image'[a] # image[a]} \subseteq
    UNION {RunBytes(p) : p \in {q \in Places : Written(q)}}

LEMMA BootKept ==
  ASSUME BInv, Linked, DOMAIN image' = DOMAIN image,
         Bootable => Walking' /\ \A img : img = image' => Tabled(img)
  PROVE  BInv'
<1>1. /\ IInv' /\ RecInv' /\ (Bootable' <=> Bootable)
      /\ \A img : Tabled(img)' <=> Tabled(img)
  BY LayoutStays DEF BInv
<1>2. phase' = "linked"
  BY DEF Linked
<1>3. Bootable => \A img : img = image' => Tabled(img)'
  BY <1>1
<1>4. BootInv'
  BY <1>1, <1>2, <1>3 DEF BootInv, BInv
<1> QED BY <1>1, <1>4 DEF BInv

LEMMA StepReset == BInv /\ Reset => BInv' /\ Confined
<1> SUFFICES ASSUME BInv, Reset PROVE BInv' /\ Confined
  OBVIOUS
<1>1. Linked /\ image' = image /\ ptr0' = table.copy /\ boot' = "_copy_record"
  BY DEF Reset
<1>2. table' = table /\ copy_records' = copy_records /\ zero_records' = zero_records
  BY <1>1 DEF Linked
<1>3. ASSUME Bootable PROVE Walking'
  <2>1. table.copy \in Nat
    BY <1>3, TablesApart DEF BInv, Bootable, Placed
  <2>2. 1 \in 1 .. Len(copy_records) + 1
    BY DEF BInv, IInv, Records, IsSeq
  <2>3. table.copy = table.copy + 6 * (1 - 1)
    BY <2>1
  <2>4. AtCopyRecord'
    BY <1>1, <1>2, <2>2, <2>3 DEF AtCopyRecord
  <2> QED BY <1>1, <2>4 DEF Walking
<1>4. Bootable => \A img : img = image' => Tabled(img)
  BY <1>1 DEF BInv, BootInv
<1> QED BY <1>1, <1>3, <1>4, BootKept DEF Confined

LEMMA StepCopyRecord == BInv /\ CopyRecord => BInv' /\ Confined
<1> SUFFICES ASSUME BInv, CopyRecord PROVE BInv' /\ Confined
  OBVIOUS
<1>1. /\ Linked /\ image' = image /\ boot = "_copy_record"
      /\ ptr2' = WordAt(ptr0 + 2) /\ arg0' = WordAt(ptr0 + 4)
      /\ IF arg0' = 0 THEN boot' = "_zero_record" /\ ptr0' = table.zero
                      ELSE boot' = "_copy_loop" /\ ptr0' = ptr0
  BY DEF CopyRecord
<1>2. /\ table' = table /\ copy_records' = copy_records /\ zero_records' = zero_records
      /\ CopyList' = CopyList
  BY <1>1, LayoutStays DEF BInv
<1>3. ASSUME Bootable PROVE Walking'
  <2>1. PICK k \in 1 .. Len(copy_records) + 1 : ptr0 = table.copy + 6 * (k - 1)
    BY <1>1, <1>3 DEF BInv, BootInv, Walking, AtCopyRecord
  <2>2. table.copy \in Nat /\ table.zero \in Nat
    BY <1>3, TablesApart DEF BInv, Bootable, Placed
  <2>3. Len(copy_records) \in Nat /\ Len(zero_records) \in Nat
    BY DEF BInv, IInv, Records, IsSeq
  <2>4. PICK a \in Nat : a = ptr0 /\ a = table.copy + 6 * (k - 1)
    BY <2>1, <2>2, <2>3
  <2>5. /\ k \in 1 .. Len(copy_records) =>
             WordAt(a + 2) = CopyList[k][2] /\ WordAt(a + 4) = CopyList[k][3]
        /\ k = Len(copy_records) + 1 => WordAt(a + 4) = 0
    BY <1>3, <2>4, CopyWords DEF BInv, BootInv
  <2>6. CASE k \in 1 .. Len(copy_records)
    <3>1. CopyList[k][2] \in Nat /\ CopyList[k][3] \in 1 .. Space - 1
      BY <1>3, <2>6, CopyEntry DEF BInv
    <3>2. arg0' = CopyList[k][3] /\ ptr2' = CopyList[k][2] /\ arg0' # 0
      BY <1>1, <2>4, <2>5, <2>6, <3>1, SpaceNat
    <3>3. boot' = "_copy_loop" /\ ptr0' = table.copy + 6 * (k - 1)
      BY <1>1, <2>1, <3>2
    <3>4. arg0' \in 1 .. CopyList[k][3] /\ ptr2' = CopyList[k][2] + (CopyList[k][3] - arg0')
      BY <3>1, <3>2, SpaceNat
    <3>5. Copying'
      BY <1>2, <2>6, <3>3, <3>4 DEF Copying
    <3> QED BY <3>3, <3>5 DEF Walking
  <2>7. CASE k = Len(copy_records) + 1
    <3>1. boot' = "_zero_record" /\ ptr0' = table.zero
      BY <1>1, <2>4, <2>5, <2>7
    <3>2. 1 \in 1 .. Len(zero_records) + 1 /\ table.zero = table.zero + 4 * (1 - 1)
      BY <2>2, <2>3
    <3>3. AtZeroRecord'
      BY <1>2, <3>1, <3>2 DEF AtZeroRecord
    <3> QED BY <3>1, <3>3 DEF Walking
  <2> QED BY <2>3, <2>6, <2>7
<1>4. Bootable => \A img : img = image' => Tabled(img)
  BY <1>1 DEF BInv, BootInv
<1> QED BY <1>1, <1>3, <1>4, BootKept DEF Confined

LEMMA StepZeroRecord == BInv /\ ZeroRecord => BInv' /\ Confined
<1> SUFFICES ASSUME BInv, ZeroRecord PROVE BInv' /\ Confined
  OBVIOUS
<1>1. /\ Linked /\ image' = image /\ boot = "_zero_record"
      /\ ptr1' = WordAt(ptr0) /\ arg0' = WordAt(ptr0 + 2)
      /\ IF arg0' = 0 THEN boot' = "_call_init_loop"
                      ELSE boot' = "_zero_loop" /\ ptr0' = ptr0
  BY DEF ZeroRecord
<1>2. /\ table' = table /\ copy_records' = copy_records /\ zero_records' = zero_records
      /\ ZeroList' = ZeroList
  BY <1>1, LayoutStays DEF BInv
<1>3. ASSUME Bootable PROVE Walking'
  <2>1. PICK k \in 1 .. Len(zero_records) + 1 : ptr0 = table.zero + 4 * (k - 1)
    BY <1>1, <1>3 DEF BInv, BootInv, Walking, AtZeroRecord
  <2>2. table.zero \in Nat
    BY <1>3, TablesApart DEF BInv, Bootable, Placed
  <2>3. Len(zero_records) \in Nat
    BY DEF BInv, IInv, Records, IsSeq
  <2>4. PICK a \in Nat : a = ptr0 /\ a = table.zero + 4 * (k - 1)
    BY <2>1, <2>2, <2>3
  <2>5. /\ k \in 1 .. Len(zero_records) =>
             WordAt(a) = ZeroList[k][1] /\ WordAt(a + 2) = ZeroList[k][2]
        /\ k = Len(zero_records) + 1 => WordAt(a + 2) = 0
    BY <1>3, <2>4, ZeroWords DEF BInv, BootInv
  <2>6. CASE k \in 1 .. Len(zero_records)
    <3>1. ZeroList[k][1] \in Nat /\ ZeroList[k][2] \in 1 .. Space - 1
      BY <1>3, <2>6, ZeroEntry DEF BInv
    <3>2. arg0' = ZeroList[k][2] /\ ptr1' = ZeroList[k][1] /\ arg0' # 0
      BY <1>1, <2>4, <2>5, <2>6, <3>1, SpaceNat
    <3>3. boot' = "_zero_loop" /\ ptr0' = table.zero + 4 * (k - 1)
      BY <1>1, <2>1, <3>2
    <3>4. arg0' \in 1 .. ZeroList[k][2] /\ ptr1' = ZeroList[k][1] + (ZeroList[k][2] - arg0')
      BY <3>1, <3>2, SpaceNat
    <3>5. Clearing'
      BY <1>2, <2>6, <3>3, <3>4 DEF Clearing
    <3> QED BY <3>3, <3>5 DEF Walking
  <2>7. CASE k = Len(zero_records) + 1
    <3>1. boot' = "_call_init_loop"
      BY <1>1, <2>4, <2>5, <2>7
    <3> QED BY <3>1 DEF Walking
  <2> QED BY <2>3, <2>6, <2>7
<1>4. Bootable => \A img : img = image' => Tabled(img)
  BY <1>1 DEF BInv, BootInv
<1> QED BY <1>1, <1>3, <1>4, BootKept DEF Confined

LEMMA StepCallInit == BInv /\ CallInit => BInv' /\ Confined
<1> SUFFICES ASSUME BInv, CallInit PROVE BInv' /\ Confined
  OBVIOUS
<1>1. Linked /\ image' = image /\ boot' \in {"main", "_call_init_loop"}
  BY DEF CallInit
<1>2. Walking'
  BY <1>1 DEF Walking
<1>3. Bootable => \A img : img = image' => Tabled(img)
  BY <1>1 DEF BInv, BootInv
<1> QED BY <1>1, <1>2, <1>3, BootKept DEF Confined

\* A byte of a segment that has a record: the tables stay, and the byte is where the
\* segment runs.
LEMMA ByteWritten ==
  ASSUME BInv, Bootable, NEW p \in Places, Written(p), NEW size \in Nat \ {0},
         Segment(p).size = size, NEW a \in Nat, NEW b,
         run_addr[p] <= a, a < run_addr[p] + size, run_addr[p] \in Nat,
         image' = [image EXCEPT ![a] = b]
  PROVE  /\ \A img : img = image' => Tabled(img)
         /\ Confined
<1>1. IInv /\ RecInv /\ Tabled(image) /\ DOMAIN image = 0 .. Space - 1
  BY DEF BInv, BootInv
<1>2. Segment(p).size > 0 /\ a < run_addr[p] + Segment(p).size
  OBVIOUS
<1>3. \A img : img = image' => Tabled(img)
  BY <1>1, <1>2, TablesStay
<1>4. a \in RunBytes(p)
  <2>1. SegsOf(p[1])[p[2]].size = size
    BY DEF Segment
  <2> QED BY <2>1 DEF RunBytes
<1>5. \A x \in DOMAIN image : x # a => image'[x] = image[x]
  OBVIOUS
<1>6. Confined
  BY <1>4, <1>5 DEF Confined
<1> QED BY <1>3, <1>6

LEMMA StepCopyByte == BInv /\ CopyByte => BInv' /\ (Bootable => Confined)
<1> SUFFICES ASSUME BInv, CopyByte PROVE BInv' /\ (Bootable => Confined)
  OBVIOUS
<1>1. /\ Linked /\ image' = [image EXCEPT ![ptr2] = image[ptr1]] /\ boot = "_copy_loop"
      /\ ptr2' = Plus(ptr2, 1) /\ arg0' = arg0 - 1
      /\ IF arg0' = 0 THEN boot' = "_copy_record" /\ ptr0' = Plus(ptr0, 6)
                      ELSE boot' = boot /\ ptr0' = ptr0
  BY DEF CopyByte
<1>2. /\ table' = table /\ copy_records' = copy_records /\ zero_records' = zero_records
      /\ CopyList' = CopyList
  BY <1>1, LayoutStays DEF BInv
<1>3. ASSUME Bootable
      PROVE  Walking' /\ (\A img : img = image' => Tabled(img)) /\ Confined
  <2>1. PICK k \in 1 .. Len(copy_records) :
           /\ ptr0 = table.copy + 6 * (k - 1) /\ arg0 \in 1 .. CopyList[k][3]
           /\ ptr2 = CopyList[k][2] + (CopyList[k][3] - arg0)
    BY <1>1, <1>3 DEF BInv, BootInv, Walking, Copying
  <2>2. Len(copy_records) \in Nat
    BY DEF BInv, IInv, Records, IsSeq
  <2>3. PICK S \in Nat, top \in Nat : S = Space /\ top = VectorTable /\ top < S
    BY SpaceNat
  <2>4. PICK run \in Nat, size \in Nat \ {0} :
          run = CopyList[k][2] /\ size = CopyList[k][3] /\ run + size <= top
    <3>1. CopyList[k][2] \in Nat /\ CopyList[k][3] \in 1 .. Space - 1
          /\ CopyList[k][2] + CopyList[k][3] <= VectorTable
      BY <1>3, CopyEntry DEF BInv
    <3>2. CopyList[k][3] \in 1 .. S - 1
      BY <2>3, <3>1
    <3> QED BY <2>3, <3>1, <3>2
  <2>5. PICK p \in Places : Written(p) /\ run_addr[p] = run /\ Segment(p).size = size
    BY <1>3, <2>4, CopyEntry DEF BInv
  <2>6. PICK left \in 1 .. size : left = arg0
    BY <2>1, <2>4
  <2>7. PICK a \in Nat : a = ptr2 /\ a = run + (size - left) /\ run <= a /\ a < run + size
    <3>1. size - left \in Nat /\ size - left < size
      OBVIOUS
    <3>2. run + (size - left) \in Nat /\ run <= run + (size - left)
          /\ run + (size - left) < run + size
      BY <3>1
    <3>3. ptr2 = run + (size - left)
      BY <2>1, <2>4, <2>6
    <3> QED BY <3>2, <3>3
  <2>8. (\A img : img = image' => Tabled(img)) /\ Confined
    BY <1>1, <1>3, <2>4, <2>5, <2>7, ByteWritten
  <2>9. a + 1 \in 0 .. S - 1 /\ ptr2' = a + 1
    <3>1. a + 1 \in 0 .. S - 1
      <4>1. run + size <= top /\ a < run + size /\ top < S
        BY <2>3, <2>4, <2>7
      <4> QED BY <4>1
    <3> QED BY <1>1, <2>3, <2>7, <3>1, ModSmall DEF Plus
  <2>10. PICK from \in Nat : from = table.copy /\ from + 6 * (Len(copy_records) + 1) <= top
    <3>1. table.copy \in Nat /\ table.copy + CopyTableSize <= VectorTable
      BY <1>3, TablesApart DEF BInv, Bootable, Placed
    <3> QED BY <1>3, <2>3, <3>1 DEF Bootable, TablesWhole
  <2>11. CASE left = 1
    <3>1. boot' = "_copy_record" /\ ptr0' = Plus(ptr0, 6)
      BY <1>1, <2>6, <2>11
    <3>2. PICK q \in Nat : q = k /\ q <= Len(copy_records)
      BY <2>2
    <3>3. ptr0 + 6 = from + 6 * q /\ from + 6 * q \in 0 .. S - 1
      <4>1. PICK n \in Nat : n = Len(copy_records)
        BY <2>2
      <4>2. q <= n /\ from + 6 * (n + 1) <= top /\ top < S
        BY <2>3, <2>10, <3>2, <4>1
      <4>3. from + 6 * q \in 0 .. S - 1
        BY <4>2
      <4>4. ptr0 = from + 6 * (q - 1)
        BY <2>1, <2>10, <3>2
      <4> QED BY <4>3, <4>4
    <3>4. ptr0' = from + 6 * q
      BY <2>3, <3>1, <3>3, ModSmall DEF Plus
    <3>5. q + 1 \in 1 .. Len(copy_records) + 1 /\ from + 6 * q = from + 6 * ((q + 1) - 1)
      BY <2>2, <3>2
    <3>6. AtCopyRecord'
      BY <1>2, <2>10, <3>4, <3>5 DEF AtCopyRecord
    <3> QED BY <2>8, <3>1, <3>6 DEF Walking
  <2>12. CASE left # 1
    <3>1. arg0' = left - 1 /\ arg0' # 0
      BY <1>1, <2>6, <2>12
    <3>2. boot' = "_copy_loop" /\ ptr0' = table.copy + 6 * (k - 1)
      BY <1>1, <2>1, <3>1
    <3>3. left - 1 \in 1 .. size /\ a + 1 = run + (size - (left - 1))
      BY <2>6, <2>7, <2>12
    <3>4. arg0' \in 1 .. CopyList[k][3] /\ ptr2' = CopyList[k][2] + (CopyList[k][3] - arg0')
      BY <2>4, <2>9, <3>1, <3>3
    <3>5. Copying'
      BY <1>2, <3>2, <3>4 DEF Copying
    <3> QED BY <2>8, <3>2, <3>5 DEF Walking
  <2> QED BY <2>11, <2>12
<1> QED BY <1>1, <1>3, BootKept

LEMMA StepZeroByte == BInv /\ ZeroByte => BInv' /\ (Bootable => Confined)
<1> SUFFICES ASSUME BInv, ZeroByte PROVE BInv' /\ (Bootable => Confined)
  OBVIOUS
<1>1. /\ Linked /\ image' = [image EXCEPT ![ptr1] = 0] /\ boot = "_zero_loop"
      /\ ptr1' = Plus(ptr1, 1) /\ arg0' = arg0 - 1
      /\ IF arg0' = 0 THEN boot' = "_zero_record" /\ ptr0' = Plus(ptr0, 4)
                      ELSE boot' = boot /\ ptr0' = ptr0
  BY DEF ZeroByte
<1>2. /\ table' = table /\ copy_records' = copy_records /\ zero_records' = zero_records
      /\ ZeroList' = ZeroList
  BY <1>1, LayoutStays DEF BInv
<1>3. ASSUME Bootable
      PROVE  Walking' /\ (\A img : img = image' => Tabled(img)) /\ Confined
  <2>1. PICK k \in 1 .. Len(zero_records) :
           /\ ptr0 = table.zero + 4 * (k - 1) /\ arg0 \in 1 .. ZeroList[k][2]
           /\ ptr1 = ZeroList[k][1] + (ZeroList[k][2] - arg0)
    BY <1>1, <1>3 DEF BInv, BootInv, Walking, Clearing
  <2>2. Len(zero_records) \in Nat
    BY DEF BInv, IInv, Records, IsSeq
  <2>3. PICK S \in Nat, top \in Nat : S = Space /\ top = VectorTable /\ top < S
    BY SpaceNat
  <2>4. PICK run \in Nat, size \in Nat \ {0} :
          run = ZeroList[k][1] /\ size = ZeroList[k][2] /\ run + size <= top
    <3>1. ZeroList[k][1] \in Nat /\ ZeroList[k][2] \in 1 .. Space - 1
          /\ ZeroList[k][1] + ZeroList[k][2] <= VectorTable
      BY <1>3, ZeroEntry DEF BInv
    <3>2. ZeroList[k][2] \in 1 .. S - 1
      BY <2>3, <3>1
    <3> QED BY <2>3, <3>1, <3>2
  <2>5. PICK p \in Places : Written(p) /\ run_addr[p] = run /\ Segment(p).size = size
    BY <1>3, <2>4, ZeroEntry DEF BInv
  <2>6. PICK left \in 1 .. size : left = arg0
    BY <2>1, <2>4
  <2>7. PICK a \in Nat : a = ptr1 /\ a = run + (size - left) /\ run <= a /\ a < run + size
    <3>1. size - left \in Nat /\ size - left < size
      OBVIOUS
    <3>2. run + (size - left) \in Nat /\ run <= run + (size - left)
          /\ run + (size - left) < run + size
      BY <3>1
    <3>3. ptr1 = run + (size - left)
      BY <2>1, <2>4, <2>6
    <3> QED BY <3>2, <3>3
  <2>8. (\A img : img = image' => Tabled(img)) /\ Confined
    BY <1>1, <1>3, <2>4, <2>5, <2>7, ByteWritten
  <2>9. a + 1 \in 0 .. S - 1 /\ ptr1' = a + 1
    <3>1. a + 1 \in 0 .. S - 1
      <4>1. run + size <= top /\ a < run + size /\ top < S
        BY <2>3, <2>4, <2>7
      <4> QED BY <4>1
    <3> QED BY <1>1, <2>3, <2>7, <3>1, ModSmall DEF Plus
  <2>10. PICK from \in Nat : from = table.zero /\ from + 4 * (Len(zero_records) + 1) <= top
    <3>1. table.zero \in Nat /\ table.zero + ZeroTableSize <= VectorTable
      BY <1>3, TablesApart DEF BInv, Bootable, Placed
    <3> QED BY <1>3, <2>3, <3>1 DEF Bootable, TablesWhole
  <2>11. CASE left = 1
    <3>1. boot' = "_zero_record" /\ ptr0' = Plus(ptr0, 4)
      BY <1>1, <2>6, <2>11
    <3>2. PICK q \in Nat : q = k /\ q <= Len(zero_records)
      BY <2>2
    <3>3. ptr0 + 4 = from + 4 * q /\ from + 4 * q \in 0 .. S - 1
      <4>1. PICK n \in Nat : n = Len(zero_records)
        BY <2>2
      <4>2. q <= n /\ from + 4 * (n + 1) <= top /\ top < S
        BY <2>3, <2>10, <3>2, <4>1
      <4>3. from + 4 * q \in 0 .. S - 1
        BY <4>2
      <4>4. ptr0 = from + 4 * (q - 1)
        BY <2>1, <2>10, <3>2
      <4> QED BY <4>3, <4>4
    <3>4. ptr0' = from + 4 * q
      BY <2>3, <3>1, <3>3, ModSmall DEF Plus
    <3>5. q + 1 \in 1 .. Len(zero_records) + 1 /\ from + 4 * q = from + 4 * ((q + 1) - 1)
      BY <2>2, <3>2
    <3>6. AtZeroRecord'
      BY <1>2, <2>10, <3>4, <3>5 DEF AtZeroRecord
    <3> QED BY <2>8, <3>1, <3>6 DEF Walking
  <2>12. CASE left # 1
    <3>1. arg0' = left - 1 /\ arg0' # 0
      BY <1>1, <2>6, <2>12
    <3>2. boot' = "_zero_loop" /\ ptr0' = table.zero + 4 * (k - 1)
      BY <1>1, <2>1, <3>1
    <3>3. left - 1 \in 1 .. size /\ a + 1 = run + (size - (left - 1))
      BY <2>6, <2>7, <2>12
    <3>4. arg0' \in 1 .. ZeroList[k][2] /\ ptr1' = ZeroList[k][1] + (ZeroList[k][2] - arg0')
      BY <2>4, <2>9, <3>1, <3>3
    <3>5. Clearing'
      BY <1>2, <3>2, <3>4 DEF Clearing
    <3> QED BY <2>8, <3>2, <3>5 DEF Walking
  <2> QED BY <2>11, <2>12
<1> QED BY <1>1, <1>3, BootKept

-----------------------------------------------------------------------------
\* The linker's steps: it writes into its image, the tables last, and the processor
\* is off.
LEMMA StepLink == BInv /\ LinkNext /\ UNCHANGED registers => BInv' /\ ~Bootable
<1> SUFFICES ASSUME BInv, LinkNext, UNCHANGED registers PROVE BInv' /\ ~Bootable
  OBVIOUS
<1>1. phase # "linked" /\ boot' = boot /\ boot = "off"
  BY DEF LinkNext, CheckConfig, PlaceObject, PlaceText, PlaceRun, PlaceTables, WriteObject,
         WriteTables, registers, BInv, BootInv
<1>2. IInv'
  BY ConfigKeeps, ObjectKeeps, TextKeeps, RunKeeps, TablesKeep, WritingKeeps
     DEF LinkNext, BInv
<1>3. RecInv'
  BY RecordsInText, RecordsInRun, RecordsElsewhere DEF LinkNext, BInv
<1>4. DOMAIN image = 0 .. Space - 1
  BY DEF BInv, BootInv
<1>5. DOMAIN image' = 0 .. Space - 1
  <2>1. \A img, from, bytes : DOMAIN Put(img, from, bytes) = DOMAIN img
    BY DEF Put
  <2> QED BY <1>4, <2>1 DEF LinkNext, CheckConfig, PlaceObject, PlaceText, PlaceRun, PlaceTables,
                            WriteObject, WriteTables
<1>6. Walking'
  BY <1>1 DEF Walking
<1>7. ASSUME Bootable' PROVE \A img : img = image' => Tabled(img)'
  <2>1. WriteTables
    BY <1>1, <1>7 DEF Bootable, LinkNext, CheckConfig, PlaceObject, PlaceText, PlaceRun,
                      PlaceTables, WriteObject
  <2>2. Separate(link) /\ TablesWhole
    BY <1>7, <2>1 DEF WriteTables, Bootable, TablesWhole, CopyTableSize, ZeroTableSize,
                      InitTableSize
  <2>3. \A img : img = image' => Tabled(img)
    BY <1>4, <2>1, <2>2, TablesWritten DEF BInv
  <2>4. table' = table /\ CopyList' = CopyList /\ ZeroList' = ZeroList
    BY <2>1 DEF WriteTables, CopyList, ZeroList
  <2>5. \A img : Tabled(img)' <=> Tabled(img)
    BY <2>4 DEF Tabled
  <2> QED BY <2>3, <2>5
<1>8. BootInv'
  BY <1>1, <1>5, <1>6, <1>7 DEF BootInv
<1> QED BY <1>1, <1>2, <1>3, <1>8 DEF BInv, Bootable

LEMMA StepNone == BInv /\ UNCHANGED machine => BInv' /\ Confined
<1> SUFFICES ASSUME BInv, UNCHANGED machine PROVE BInv' /\ Confined
  OBVIOUS
<1>1. UNCHANGED vars /\ UNCHANGED registers /\ image' = image
  BY DEF machine, vars
<1>2. IInv' /\ RecInv'
  BY <1>1, StutterKeeps, RecordsElsewhere DEF BInv
<1>3. BootInv'
  BY <1>1 DEF BInv, BootInv, Walking, AtCopyRecord, Copying, AtZeroRecord, Clearing, CopyList,
              ZeroList, Tabled, Bootable, TablesWhole, CopyTableSize, ZeroTableSize,
              InitTableSize, vars, registers
<1> QED BY <1>1, <1>2, <1>3 DEF BInv, Confined

LEMMA BootStarts == StartupInit => BInv
<1> SUFFICES ASSUME StartupInit PROVE BInv
  OBVIOUS
<1>1. Init /\ boot = "off"
  BY DEF StartupInit
<1>2. DOMAIN image = 0 .. Space - 1 /\ phase = "config"
  BY <1>1 DEF Init
<1> QED BY <1>1, <1>2, InitKeeps, RecInit DEF BInv, BootInv, Bootable

\* Whatever is linked, the start-up code finds the records the linker wrote, one after
\* the other, and each is that of a segment that is placed.
THEOREM WalkIsOnTrack == MachineSpec => []BInv
<1>1. BInv /\ [MachineNext]_machine => BInv'
  BY StepReset, StepCopyRecord, StepCopyByte, StepZeroRecord, StepZeroByte, StepCallInit,
     StepLink, StepNone DEF MachineNext, StartupNext
<1> QED BY <1>1, BootStarts, PTL DEF MachineSpec

\* Before main is called the start-up code writes nowhere but where a segment with a
\* record runs: not in the vectors, the tables, the stack or the code.
THEOREM StartupStaysInData == MachineSpec => StartupConfined
<1>1. BInv /\ [MachineNext]_machine => (Bootable => Confined)
  BY StepReset, StepCopyRecord, StepCopyByte, StepZeroRecord, StepZeroByte, StepCallInit,
     StepLink, StepNone DEF MachineNext, StartupNext
<1>2. BInv /\ [MachineNext]_machine
      => [Bootable => {a \in DOMAIN image : image'[a] # image[a]} \subseteq
                        UNION {RunBytes(p) : p \in {q \in Places : Written(q)}}]_machine
  BY <1>1 DEF Confined
<1> QED BY <1>2, WalkIsOnTrack, PTL DEF MachineSpec, StartupConfined

-----------------------------------------------------------------------------
\* What start-up copies and clears, and the record that says so.
Copied(p) ==
  Segment(p).segid # "TEXT" /\ ImageSeg(Segment(p)) = "DATA" /\ Segment(p).size > 0
Zeroed(p) == Segment(p).segid = "BSS" /\ Segment(p).size > 0
CopyRow(p) == <<load_addr[p], run_addr[p], Segment(p).size>>
ZeroRow(p) == <<run_addr[p], Segment(p).size>>

\* Each of these segments that is placed has its record, and no other has one.
CompleteInv ==
  Separate(link) /\ (Working \/ Placed) =>
    /\ load_addr = [p \in Places |-> load_addr[p]]
    /\ \A p \in Places : Placed \/ SegmentPlaced(p) =>
         /\ load_addr[p] = LoadAddr(p[1], p[2])
         /\ Copied(p) => CopyRow(p) \in Members(copy_records)
         /\ Zeroed(p) => ZeroRow(p) \in Members(zero_records)
    /\ \A e \in Members(copy_records) :
         \E p \in Places : (Placed \/ SegmentPlaced(p)) /\ Copied(p) /\ e = CopyRow(p)
    /\ \A e \in Members(zero_records) :
         \E p \in Places : (Placed \/ SegmentPlaced(p)) /\ Zeroed(p) /\ e = ZeroRow(p)

\* The image has the relocated buffers of the objects written so far.
ObjectWritten(img, i) ==
  /\ Holds(img, text_load[i], Relocated(i, "TEXT").buf, Length(SegsOf(i), "TEXT"))
  /\ Holds(img, data_load[i], Relocated(i, "DATA").buf, Length(SegsOf(i), "DATA"))
ImageInv ==
  Separate(link) =>
    /\ phase = "write" => at \in Nat \ {0} /\ \A i \in Objs : i < at => ObjectWritten(image, i)
    /\ phase = "linked" /\ TablesWhole => \A i \in Objs : ObjectWritten(image, i)

\* The init table in an image: the address of each init function, then 0.
InitsTabled(img) ==
  /\ \A k \in 1 .. Len(link.inits) :
       Inside(link.inits[k], 0) => WordIn(img, table.init + 2 * (k - 1)) = Truth(link.inits[k])
  /\ WordIn(img, table.init + 2 * Len(link.inits)) = 0

\* The first n bytes of a row are copied, or cleared; the first n rows are.
CopyOf(img, e, n) == \A o \in 0 .. n - 1 : img[e[2] + o] = img[e[1] + o]
ZeroOf(img, e, n) == \A o \in 0 .. n - 1 : img[e[1] + o] = 0
AllCopied(img, n) == \A j \in 1 .. n : CopyOf(img, CopyList[j], CopyList[j][3])
AllZero(img, n) == \A j \in 1 .. n : ZeroOf(img, ZeroList[j], ZeroList[j][2])

\* Where the loops are in the tables, and that all before is done.
CopyProgress ==
  /\ boot = "_copy_record" =>
       \E k \in 1 .. Len(copy_records) + 1 : ptr0 = table.copy + 6 * (k - 1) /\ AllCopied(image, k - 1)
  /\ boot = "_copy_loop" =>
       \E k \in 1 .. Len(copy_records) :
         /\ ptr0 = table.copy + 6 * (k - 1) /\ AllCopied(image, k - 1)
         /\ arg0 \in 1 .. CopyList[k][3]
         /\ ptr1 = CopyList[k][1] + (CopyList[k][3] - arg0)
         /\ ptr2 = CopyList[k][2] + (CopyList[k][3] - arg0)
         /\ CopyOf(image, CopyList[k], CopyList[k][3] - arg0)
  /\ boot \in {"_zero_record", "_zero_loop", "_call_init_loop", "main"} =>
       AllCopied(image, Len(copy_records))
ZeroProgress ==
  /\ boot = "_zero_record" =>
       \E k \in 1 .. Len(zero_records) + 1 : ptr0 = table.zero + 4 * (k - 1) /\ AllZero(image, k - 1)
  /\ boot = "_zero_loop" =>
       \E k \in 1 .. Len(zero_records) :
         /\ ptr0 = table.zero + 4 * (k - 1) /\ AllZero(image, k - 1)
         /\ arg0 \in 1 .. ZeroList[k][2]
         /\ ptr1 = ZeroList[k][1] + (ZeroList[k][2] - arg0)
         /\ ZeroOf(image, ZeroList[k], ZeroList[k][2] - arg0)
  /\ boot \in {"_call_init_loop", "main"} => AllZero(image, Len(zero_records))
CalledAre == /\ Len(called) \in Nat /\ Len(called) <= Len(link.inits)
             /\ called = [k \in 1 .. Len(called) |-> Truth(link.inits[k])]
InitProgress ==
  /\ boot \notin {"_call_init_loop", "main"} => called = <<>>
  /\ boot \in {"_call_init_loop", "main"} => sp = stack.start
  /\ InitsCallable =>
     /\ boot = "_call_init_loop" => CalledAre /\ ptr0 = table.init + 2 * Len(called)
     /\ boot = "main" => CalledAre /\ Len(called) = Len(link.inits)
DoneInv ==
  /\ boot = "off" => called = <<>>
  /\ Bootable => InitsTabled(image) /\ CopyProgress /\ ZeroProgress /\ InitProgress
ReadyInv == BInv /\ CompleteInv /\ ImageInv /\ DoneInv

\* A segment has its place, and its records are right.
Settled(p) == Placed \/ SegmentPlaced(p)
RowsRight(p) ==
  /\ load_addr[p] = LoadAddr(p[1], p[2])
  /\ Copied(p) => CopyRow(p) \in Members(copy_records)
  /\ Zeroed(p) => ZeroRow(p) \in Members(zero_records)

\* What a step has to keep for that.
LEMMA CompleteKept ==
  ASSUME CompleteInv, link' = link, UNCHANGED <<load_addr, run_addr, copy_records, zero_records>>,
         Working' \/ Placed' => Working \/ Placed,
         Working' \/ Placed' => \A p \in Places : Settled(p)' <=> Settled(p),
         \A p \in Places : Settled(p) => LoadAddr(p[1], p[2])' = LoadAddr(p[1], p[2])
  PROVE  CompleteInv'
<1> SUFFICES ASSUME Separate(link), Working' \/ Placed'
             PROVE  /\ load_addr = [p \in Places |-> load_addr[p]]
                    /\ \A p \in Places : Settled(p)' => RowsRight(p)'
                    /\ \A e \in Members(copy_records) :
                         \E p \in Places : Settled(p)' /\ Copied(p)' /\ e = CopyRow(p)'
                    /\ \A e \in Members(zero_records) :
                         \E p \in Places : Settled(p)' /\ Zeroed(p)' /\ e = ZeroRow(p)'
  <2>1. Places' = Places /\ Members(copy_records)' = Members(copy_records)
        /\ Members(zero_records)' = Members(zero_records)
    BY DEF Places, Objs, SegsOf, Members
  <2> QED BY <2>1 DEF CompleteInv, Settled, RowsRight
<1>1. /\ load_addr = [p \in Places |-> load_addr[p]]
      /\ \A p \in Places : Settled(p) => RowsRight(p)
      /\ \A e \in Members(copy_records) :
           \E p \in Places : Settled(p) /\ Copied(p) /\ e = CopyRow(p)
      /\ \A e \in Members(zero_records) :
           \E p \in Places : Settled(p) /\ Zeroed(p) /\ e = ZeroRow(p)
  BY DEF CompleteInv, Settled, RowsRight
<1>2. \A p : /\ Copied(p)' = Copied(p) /\ Zeroed(p)' = Zeroed(p)
             /\ CopyRow(p)' = CopyRow(p) /\ ZeroRow(p)' = ZeroRow(p)
  BY DEF Copied, Zeroed, CopyRow, ZeroRow, Segment, SegsOf
<1>3. \A p \in Places : Settled(p) => RowsRight(p)'
  <2> SUFFICES ASSUME NEW p \in Places, Settled(p) PROVE RowsRight(p)'
    OBVIOUS
  <2>1. RowsRight(p) /\ LoadAddr(p[1], p[2])' = LoadAddr(p[1], p[2])
    BY <1>1
  <2> QED BY <1>2, <2>1 DEF RowsRight, Members
<1> QED BY <1>1, <1>2, <1>3

\* Where a segment is loaded depends on its object's place only.
LEMMA LoadAddrStays ==
  ASSUME NEW i, NEW k, link' = link, text_load'[i] = text_load[i], data_load'[i] = data_load[i]
  PROVE  LoadAddr(i, k)' = LoadAddr(i, k)
BY DEF LoadAddr, SegsOf

\* Before the first placement there is no record.
LEMMA CompleteInit == Init => CompleteInv
<1> SUFFICES ASSUME Init PROVE CompleteInv
  OBVIOUS
<1>1. /\ link \in Links /\ phase = "config" /\ at = 1 /\ lay = 0
      /\ load_addr = [p \in Places |-> 0] /\ copy_records = <<>> /\ zero_records = <<>>
  BY DEF Init
<1>2. ~Placed /\ Members(copy_records) = {} /\ Members(zero_records) = {}
  BY <1>1 DEF Placed, Members
<1>3. \A p \in Places : ~SegmentPlaced(p)
  <2> TAKE p \in Places
  <2>1. p[1] \in Objs /\ p[2] \in Nat \ {0}
    BY <1>1, PlacesAre
  <2>2. p[1] \in Nat \ {0}
    BY <1>1, <2>1, ObjectsTyped DEF Objs
  <2>3. ~(p[1] < 1) /\ ~(p[2] < 0)
    BY <2>1, <2>2
  <2> QED BY <1>1, <2>3 DEF SegmentPlaced
<1> QED BY <1>1, <1>2, <1>3 DEF CompleteInv

\* Only the placement of a segment adds a record.
LEMMA CompleteElsewhere ==
  IInv /\ CompleteInv /\ (CheckConfig \/ PlaceObject \/ PlaceTables \/ WriteObject \/ WriteTables
                          \/ Linked \/ UNCHANGED vars) => CompleteInv'
<1> SUFFICES ASSUME IInv, CompleteInv,
                    CheckConfig \/ PlaceObject \/ PlaceTables \/ WriteObject \/ WriteTables
                    \/ Linked \/ UNCHANGED vars
             PROVE  CompleteInv'
  OBVIOUS
<1>1. link' = link /\ UNCHANGED <<load_addr, run_addr, copy_records, zero_records>>
      /\ link \in Links
  BY DEF CheckConfig, PlaceObject, PlaceTables, WriteObject, WriteTables, Linked, vars, IInv
<1>2. \A p \in Places : p[1] \in Objs /\ p[1] \in Nat /\ p[2] \in Nat \ {0}
  BY <1>1, PlacesAre
<1>3. CASE CheckConfig
  <2>1. phase = "config" /\ UNCHANGED <<at, lay, text_load, data_load>>
        /\ phase' \in {"place", "overflow"}
    BY <1>3 DEF CheckConfig
  <2>2. \A p : LoadAddr(p[1], p[2])' = LoadAddr(p[1], p[2])
    BY <1>1, <2>1, LoadAddrStays
  <2>3. \A p : Settled(p)' <=> Settled(p)
    BY <2>1 DEF Settled, Placed, SegmentPlaced
  <2> QED BY <1>1, <2>1, <2>2, <2>3, CompleteKept DEF Working, Placed
<1>4. CASE PlaceObject
  <2>1. /\ phase = "place" /\ at' = at /\ lay = 0 /\ phase' \in {"place", "overflow"}
        /\ phase' = "place" => lay' = 1
        /\ Separate(link) => \A i \in Objs : i # at => text_load'[i] = text_load[i] /\ data_load'[i] = data_load[i]
    <3>1. phase = "place" /\ at' = at /\ lay = 0
      BY <1>4 DEF PlaceObject
    <3>2. CASE phase' = "overflow" /\ UNCHANGED <<text_load, data_load>>
      BY <3>1, <3>2
    <3>3. CASE ~(phase' = "overflow" /\ UNCHANGED <<text_load, data_load>>)
      <4>1. lay' = 1 /\ phase' = phase /\ (\E v : text_load' = [text_load EXCEPT ![at] = v])
            /\ (\E v : data_load' = [data_load EXCEPT ![at] = v])
        BY <1>4, <3>3 DEF PlaceObject
      <4>2. phase' = "place"
        BY <3>1, <4>1
      <4>3. Separate(link) => DOMAIN text_load = Objs /\ DOMAIN data_load = Objs
        BY DEF IInv, Addresses
      <4> QED BY <3>1, <4>1, <4>2, <4>3
    <3> QED BY <3>2, <3>3
  <2>2. \A p \in Places : phase' = "place" => (Settled(p)' <=> Settled(p))
    BY <1>2, <2>1 DEF Settled, Placed, SegmentPlaced
  <2>3. ASSUME Separate(link)
        PROVE  \A p \in Places : Settled(p) => LoadAddr(p[1], p[2])' = LoadAddr(p[1], p[2])
    <3> SUFFICES ASSUME NEW p \in Places, Settled(p)
                 PROVE  LoadAddr(p[1], p[2])' = LoadAddr(p[1], p[2])
      OBVIOUS
    <3>1. at \in Nat
      BY <2>1, ObjectsTyped DEF IInv, Position, Working
    <3>2. p[1] # at
      BY <1>2, <2>1, <3>1 DEF Settled, Placed, SegmentPlaced
    <3> QED BY <1>1, <1>2, <2>1, <2>3, <3>2, LoadAddrStays
  <2>4. ~Separate(link) => CompleteInv'
    BY <1>1 DEF CompleteInv
  <2> QED BY <1>1, <2>1, <2>2, <2>3, <2>4, CompleteKept DEF Working, Placed
<1>5. CASE PlaceTables
  <2>1. phase = "place" /\ at \notin Objs /\ phase' \in {"write", "overflow"}
        /\ UNCHANGED <<text_load, data_load>>
    BY <1>5 DEF PlaceTables
  <2>2. \A p \in Places : Settled(p)
    BY <1>2, <2>1 DEF IInv, Position, Working, Settled, SegmentPlaced
  <2>3. phase' = "write" => \A p : Settled(p)'
    BY DEF Settled, Placed
  <2>4. \A p : LoadAddr(p[1], p[2])' = LoadAddr(p[1], p[2])
    BY <1>1, <2>1, LoadAddrStays
  <2> QED BY <1>1, <2>1, <2>2, <2>3, <2>4, CompleteKept DEF Working, Placed
<1>6. CASE WriteObject \/ WriteTables \/ Linked
  <2>1. Placed /\ Placed' /\ UNCHANGED <<text_load, data_load>>
    BY <1>6 DEF WriteObject, WriteTables, Linked, Placed
  <2>2. \A p : Settled(p) /\ Settled(p)'
    BY <2>1 DEF Settled
  <2>3. \A p : LoadAddr(p[1], p[2])' = LoadAddr(p[1], p[2])
    BY <1>1, <2>1, LoadAddrStays
  <2> QED BY <1>1, <2>1, <2>2, <2>3, CompleteKept
<1>7. CASE UNCHANGED vars
  <2>1. UNCHANGED <<phase, at, lay, text_load, data_load>>
    BY <1>7 DEF vars
  <2>2. \A p : Settled(p)' <=> Settled(p)
    BY <2>1 DEF Settled, Placed, SegmentPlaced
  <2>3. \A p : LoadAddr(p[1], p[2])' = LoadAddr(p[1], p[2])
    BY <1>1, <2>1, LoadAddrStays
  <2> QED BY <1>1, <2>1, <2>2, <2>3, CompleteKept DEF Working, Placed
<1> QED BY <1>3, <1>4, <1>5, <1>6, <1>7

\* The next segment is placed.
LEMMA NowPlaced ==
  ASSUME IInv, phase = "place", at \in Objs, lay # 0, NextSegment, UNCHANGED <<link, phase>>
  PROVE  /\ <<at, lay>> \in Places /\ ~Settled(<<at, lay>>)
         /\ \A p \in Places : Settled(p)' <=> Settled(p) \/ p = <<at, lay>>
<1>1. \A p \in Places : SegmentPlaced(p)' => SegmentPlaced(p) \/ p = <<at, lay>>
  BY Onward
<1>2. /\ \A p \in Places : SegmentPlaced(p) => p # <<at, lay>> /\ SegmentPlaced(p)'
      /\ \A p : p = <<at, lay>> => SegmentPlaced(p)'
  BY StaysPlaced
<1>3. <<at, lay>> \in Places
  <2>1. at \in Nat /\ lay \in Nat \ {0} /\ lay <= Len(SegsOf(at)) /\ link \in Links
    BY ObjectsTyped DEF IInv, Position, Working
  <2>2. lay \in DOMAIN SegsOf(at)
    BY <2>1, ObjectsTyped DEF Objs, SegsOf
  <2> QED BY <2>2 DEF Places
<1>4. ~Placed /\ ~Placed'
  BY DEF Placed
<1>5. \A p : Settled(p) <=> SegmentPlaced(p)
  BY <1>4 DEF Settled
<1>6. \A p : Settled(p)' <=> SegmentPlaced(p)'
  BY <1>4 DEF Settled
<1> HIDE DEF Settled
<1> QED BY <1>1, <1>2, <1>3, <1>5, <1>6

\* The segment at hand is placed, with its records if it has any.
LEMMA CompleteOneMore ==
  ASSUME IInv, CompleteInv, Separate(link), phase = "place", at \in Objs, lay # 0, NextSegment,
         UNCHANGED <<link, phase, text_load, data_load>>,
         NEW p0, p0 = <<at, lay>>, NEW u, NEW v, u = LoadAddr(at, lay),
         load_addr' = [load_addr EXCEPT ![p0] = u], run_addr' = [run_addr EXCEPT ![p0] = v],
         \A e : e \in Members(copy_records') <=>
                  e \in Members(copy_records) \/ (Copied(p0) /\ e = <<u, v, Segment(p0).size>>),
         \A e : e \in Members(zero_records') <=>
                  e \in Members(zero_records) \/ (Zeroed(p0) /\ e = <<v, Segment(p0).size>>)
  PROVE  CompleteInv'
<1>1. /\ p0 \in Places /\ ~Settled(p0)
      /\ \A p \in Places : Settled(p)' <=> Settled(p) \/ p = p0
  BY NowPlaced
<1>2. p0[1] = at /\ p0[2] = lay
  OBVIOUS
<1>3. /\ load_addr = [p \in Places |-> load_addr[p]] /\ run_addr = [p \in Places |-> run_addr[p]]
      /\ \A p \in Places : Settled(p) => RowsRight(p)
      /\ \A e \in Members(copy_records) :
           \E p \in Places : Settled(p) /\ Copied(p) /\ e = CopyRow(p)
      /\ \A e \in Members(zero_records) :
           \E p \in Places : Settled(p) /\ Zeroed(p) /\ e = ZeroRow(p)
  BY DEF CompleteInv, Settled, RowsRight, Working, IInv, Addresses
<1>4. \A p \in Places : p # p0 => load_addr'[p] = load_addr[p] /\ run_addr'[p] = run_addr[p]
  BY <1>3
<1>5. load_addr'[p0] = u /\ run_addr'[p0] = v
  BY <1>1, <1>3
<1>6. load_addr' = [p \in Places |-> load_addr'[p]]
  BY <1>3
<1>7. Places' = Places
  BY DEF Places, Objs, SegsOf
<1>8. \A p : Copied(p)' = Copied(p) /\ Zeroed(p)' = Zeroed(p) /\ Segment(p)' = Segment(p)
  BY DEF Copied, Zeroed, Segment, SegsOf
<1>9. \A p \in Places : p # p0 => CopyRow(p)' = CopyRow(p) /\ ZeroRow(p)' = ZeroRow(p)
  BY <1>4, <1>8 DEF CopyRow, ZeroRow
<1>10. CopyRow(p0)' = <<u, v, Segment(p0).size>> /\ ZeroRow(p0)' = <<v, Segment(p0).size>>
  BY <1>5, <1>8 DEF CopyRow, ZeroRow
<1>11. \A p : LoadAddr(p[1], p[2])' = LoadAddr(p[1], p[2])
  BY LoadAddrStays
<1>12. ASSUME NEW p \in Places, Settled(p)' PROVE RowsRight(p)'
  <2>1. CASE p # p0
    <3>1. RowsRight(p)
      BY <1>1, <1>3, <1>12, <2>1
    <3>2. /\ load_addr'[p] = LoadAddr(p[1], p[2])'
          /\ Copied(p) => CopyRow(p) \in Members(copy_records')
          /\ Zeroed(p) => ZeroRow(p) \in Members(zero_records')
      BY <1>4, <1>11, <2>1, <3>1 DEF RowsRight
    <3> QED BY <1>8, <1>9, <2>1, <3>2 DEF RowsRight, Members
  <2>2. CASE p = p0
    <3>1. load_addr'[p] = LoadAddr(p[1], p[2])'
      BY <1>2, <1>5, <1>11, <2>2
    <3>2. /\ Copied(p) => CopyRow(p)' \in Members(copy_records')
          /\ Zeroed(p) => ZeroRow(p)' \in Members(zero_records')
      BY <1>10, <2>2
    <3> QED BY <1>8, <3>1, <3>2 DEF RowsRight, Members
  <2> QED BY <2>1, <2>2
<1>13. ASSUME NEW e \in Members(copy_records')
       PROVE  \E p \in Places : Settled(p)' /\ Copied(p)' /\ e = CopyRow(p)'
  <2>1. CASE e \in Members(copy_records)
    <3>1. PICK p \in Places : Settled(p) /\ Copied(p) /\ e = CopyRow(p)
      BY <1>3, <2>1
    <3>2. p # p0 /\ Settled(p)'
      BY <1>1, <3>1
    <3> QED BY <1>8, <1>9, <3>1, <3>2
  <2>2. CASE Copied(p0) /\ e = <<u, v, Segment(p0).size>>
    BY <1>1, <1>8, <1>10, <2>2
  <2> QED BY <1>13, <2>1, <2>2
<1>14. ASSUME NEW e \in Members(zero_records')
       PROVE  \E p \in Places : Settled(p)' /\ Zeroed(p)' /\ e = ZeroRow(p)'
  <2>1. CASE e \in Members(zero_records)
    <3>1. PICK p \in Places : Settled(p) /\ Zeroed(p) /\ e = ZeroRow(p)
      BY <1>3, <2>1
    <3>2. p # p0 /\ Settled(p)'
      BY <1>1, <3>1
    <3> QED BY <1>8, <1>9, <3>1, <3>2
  <2>2. CASE Zeroed(p0) /\ e = <<v, Segment(p0).size>>
    BY <1>1, <1>8, <1>10, <2>2
  <2> QED BY <1>14, <2>1, <2>2
<1>15. Members(copy_records)' = Members(copy_records') /\ Members(zero_records)' = Members(zero_records')
  BY DEF Members
<1> QED BY <1>6, <1>7, <1>12, <1>13, <1>14, <1>15 DEF CompleteInv, Settled, RowsRight

\* A placed segment of code gets its address and no record.
LEMMA CompleteInText == IInv /\ CompleteInv /\ PlaceText => CompleteInv'
<1> SUFFICES ASSUME IInv, CompleteInv, PlaceText PROVE CompleteInv'
  OBVIOUS
<1>1. PICK p0 : p0 = <<at, lay>>
  OBVIOUS
<1>2. PICK u : u = LoadAddr(at, lay)
  OBVIOUS
<1>3. /\ phase = "place" /\ at \in Objs /\ lay # 0 /\ NextSegment
      /\ SegsOf(at)[lay].segid = "TEXT"
      /\ load_addr' = [load_addr EXCEPT ![p0] = u] /\ run_addr' = [run_addr EXCEPT ![p0] = u]
      /\ UNCHANGED <<link, phase, text_load, data_load, copy_records, zero_records>>
  BY <1>1, <1>2 DEF PlaceText
<1>4. ~Copied(p0) /\ ~Zeroed(p0)
  BY <1>1, <1>3 DEF Copied, Zeroed, Segment
<1>5. CASE Separate(link)
  BY <1>1, <1>2, <1>3, <1>4, <1>5, CompleteOneMore
<1>6. CASE ~Separate(link)
  BY <1>3, <1>6 DEF CompleteInv
<1> QED BY <1>5, <1>6

\* What a list has after one more entry.
LEMMA AllOfAppend ==
  ASSUME NEW s, IsSeq(s), NEW e
  PROVE  \A x : x \in Members(Append(s, e)) <=> x \in Members(s) \/ x = e
<1>1. /\ Len(s) \in Nat /\ Len(Append(s, e)) = Len(s) + 1
      /\ \A k \in 1 .. Len(s) : Append(s, e)[k] = s[k]
      /\ Append(s, e)[Len(s) + 1] = e
  BY AppendIs DEF IsSeq
<1>2. 1 .. Len(s) \subseteq 1 .. Len(Append(s, e)) /\ Len(s) + 1 \in 1 .. Len(Append(s, e))
  BY <1>1
<1>3. ASSUME NEW x, x \in Members(s) \/ x = e
      PROVE  x \in Members(Append(s, e))
  BY <1>1, <1>2, <1>3 DEF Members
<1> QED BY <1>3, MembersOfAppend

\* A placed segment of data or BSS gets its address and the one record it needs.
LEMMA CompleteInRun == IInv /\ CompleteInv /\ PlaceRun => CompleteInv'
<1> SUFFICES ASSUME IInv, CompleteInv, PlaceRun PROVE CompleteInv'
  OBVIOUS
<1>1. PICK p0 : p0 = <<at, lay>>
  OBVIOUS
<1>2. PICK u : u = LoadAddr(at, lay)
  OBVIOUS
<1> DEFINE s == Segment(p0)
<1>3. PICK v : v = cur[RunRegion(s)]
  OBVIOUS
<1>4. /\ phase = "place" /\ at \in Objs /\ lay # 0 /\ s.segid # "TEXT" /\ link' = link
      /\ SegsOf(at)[lay] = s /\ UNCHANGED <<text_load, data_load>>
  BY <1>1 DEF PlaceRun, Segment
<1>5. CASE phase' = "overflow"
  BY <1>4, <1>5 DEF CompleteInv, Working, Placed
<1>6. CASE phase' # "overflow"
  <2>1. /\ load_addr' = [load_addr EXCEPT ![p0] = u] /\ run_addr' = [run_addr EXCEPT ![p0] = v]
        /\ copy_records' = IF s.size > 0 /\ ImageSeg(s) = "DATA"
                           THEN Append(copy_records, <<u, v, s.size>>) ELSE copy_records
        /\ zero_records' = IF Cleared(s) THEN Append(zero_records, <<v, s.size>>)
                           ELSE zero_records
        /\ NextSegment /\ UNCHANGED phase
    <3> HIDE DEF s
    <3> QED BY <1>1, <1>2, <1>3, <1>4, <1>6 DEF PlaceRun
  <2>2. (Copied(p0) <=> s.size > 0 /\ ImageSeg(s) = "DATA") /\ (Zeroed(p0) <=> Cleared(s))
    BY <1>4 DEF Copied, Zeroed, Cleared
  <2> HIDE DEF s
  <2>3. IsSeq(copy_records) /\ IsSeq(zero_records)
    BY DEF IInv, Records
  <2>4. \A e : e \in Members(copy_records') <=>
                 e \in Members(copy_records) \/ (Copied(p0) /\ e = <<u, v, s.size>>)
    BY <2>1, <2>2, <2>3, AllOfAppend
  <2>5. \A e : e \in Members(zero_records') <=>
                 e \in Members(zero_records) \/ (Zeroed(p0) /\ e = <<v, s.size>>)
    BY <2>1, <2>2, <2>3, AllOfAppend
  <2>6. CASE Separate(link)
    <3>1. \A e : e \in Members(copy_records') <=>
                   e \in Members(copy_records) \/ (Copied(p0) /\ e = <<u, v, Segment(p0).size>>)
      BY <2>4 DEF s
    <3>2. \A e : e \in Members(zero_records') <=>
                   e \in Members(zero_records) \/ (Zeroed(p0) /\ e = <<v, Segment(p0).size>>)
      BY <2>5 DEF s
    <3> QED BY <1>1, <1>2, <1>4, <2>1, <2>6, <3>1, <3>2, CompleteOneMore
  <2>7. CASE ~Separate(link)
    BY <1>4, <2>7 DEF CompleteInv
  <2> QED BY <2>6, <2>7
<1> QED BY <1>5, <1>6

\* The sum of the first values does not depend on how many there are.
LEMMA TotalsSame ==
  ASSUME NEW f, NEW n \in Nat, NEW k \in 0 .. n
  PROVE  Totals(f, n)[k] = Total(f, k)
<1> DEFINE Good(j) == \A m \in Nat : j <= m => Totals(f, m)[j] = Total(f, j)
           Bad == {j \in Nat : ~Good(j)}
<1>1. SUFFICES ASSUME Bad # {} PROVE FALSE
  <2>1. Good(k)
    <3> HIDE DEF Good
    <3> QED BY <1>1
  <2> QED BY <2>1
<1>2. PICK j \in Bad : \A i \in Bad : j <= i
  <2> HIDE DEF Good
  <2>1. Bad \subseteq Nat
    OBVIOUS
  <2> HIDE DEF Bad
  <2> QED BY <1>1, <2>1, FirstIn
<1>3. \A m \in Nat : Totals(f, m)[0] = 0
  BY TotalsLaw
<1>4. Total(f, 0) = 0
  BY <1>3 DEF Total
<1>5. j # 0
  BY <1>3, <1>4
<1>6. j - 1 \in Nat /\ Good(j - 1)
  <2> HIDE DEF Good
  <2>1. j - 1 \in Nat /\ ~(j <= j - 1)
    BY <1>5
  <2> QED BY <1>2, <2>1
<1>7. ASSUME NEW m \in Nat, j <= m
      PROVE  Totals(f, m)[j] = Total(f, j - 1) + f[j]
  <2>1. j \in 1 .. m
    BY <1>5, <1>7
  <2>2. Totals(f, m)[j] = Totals(f, m)[j - 1] + f[j]
    BY <2>1, TotalsLaw
  <2> QED BY <1>6, <1>7, <2>2
<1>8. Total(f, j) = Total(f, j - 1) + f[j]
  BY <1>7 DEF Total
<1>9. Good(j)
  BY <1>7, <1>8
<1> QED BY <1>9

\* The running total of a list, one element at a time.
LEMMA TotalSteps ==
  ASSUME NEW f
  PROVE  /\ Total(f, 0) = 0
         /\ \A k \in Nat \ {0} : Total(f, k) = Total(f, k - 1) + f[k]
<1>1. Total(f, 0) = 0
  <2>1. Totals(f, 0)[0] = 0
    BY TotalsLaw
  <2> QED BY <2>1 DEF Total
<1>2. ASSUME NEW k \in Nat \ {0}
      PROVE  Total(f, k) = Total(f, k - 1) + f[k]
  <2>1. k \in 1 .. k /\ k - 1 \in 0 .. k /\ k \in Nat
    OBVIOUS
  <2>2. Totals(f, k)[k] = Totals(f, k)[k - 1] + f[k]
    BY <2>1, TotalsLaw
  <2>3. Totals(f, k)[k - 1] = Total(f, k - 1)
    BY <2>1, TotalsSame
  <2> QED BY <2>2, <2>3 DEF Total
<1> QED BY <1>1, <1>2

\* A sum up to one number is at most the sum up to a later one.
LEMMA TotalsOrder ==
  ASSUME NEW n \in Nat, NEW f \in [1 .. n -> Nat], NEW k \in 1 .. n
  PROVE  /\ Total(f, k - 1) \in Nat /\ f[k] \in Nat /\ Total(f, k) = Total(f, k - 1) + f[k]
         /\ Total(f, n) \in Nat /\ Total(f, k) <= Total(f, n)
<1>1. k - 1 \in 0 .. n /\ k \in 0 .. n /\ k \in Nat \ {0}
  OBVIOUS
<1>2. Total(f, k) = Totals(f, n)[k] /\ Total(f, k - 1) = Totals(f, n)[k - 1]
  BY <1>1, TotalsSame
<1>3. Total(f, k) = Total(f, k - 1) + f[k]
  BY <1>1, TotalSteps
<1> QED BY <1>1, <1>2, <1>3, TotalsRise

\* The length of what is joined is the sum of the lengths.
LEMMA FlattenLength ==
  ASSUME NEW S, NEW seqs \in Seq(Seq(S)), NEW g,
         \A j \in 1 .. Len(seqs) : Len(seqs[j]) = g[j]
  PROVE  Len(FlattenSeq(seqs)) = Total(g, Len(seqs))
<1> DEFINE joined == CHOOSE f : Joined(f, seqs, Len(seqs))
           n == Len(seqs)
<1>1. Joined(joined, seqs, Len(seqs)) /\ n \in Nat
  <2>1. Len(seqs) \in Nat
    OBVIOUS
  <2>2. \E f : Joined(f, seqs, Len(seqs))
    BY <2>1, JoinedExists
  <2> QED BY <2>1, <2>2
<1>2. FlattenSeq(seqs) = IF n = 0 THEN seqs ELSE joined[n]
  BY DEF FlattenSeq, Joined
<1> HIDE DEF joined
<1>3. \A k \in 1 .. n : joined[k] \in Seq(S)
  BY <1>1, JoinedSeq
<1>4. \A k \in 1 .. n : joined[k] = IF k = 1 THEN seqs[k] ELSE joined[k - 1] \o seqs[k]
  BY <1>1 DEF Joined
<1>5. \A k \in 1 .. n : seqs[k] \in Seq(S) /\ Len(seqs[k]) = g[k] /\ Len(seqs[k]) \in Nat
  OBVIOUS
<1>6. Total(g, 0) = 0 /\ \A k \in 1 .. n : Total(g, k) = Total(g, k - 1) + g[k]
  BY <1>1, TotalSteps
<1> DEFINE Good(k) == Len(joined[k]) = Total(g, k)
           Bad == {k \in 1 .. n : ~Good(k)}
<1>7. Bad = {}
  <2> SUFFICES ASSUME Bad # {} PROVE FALSE
    OBVIOUS
  <2>1. PICK k \in Bad : \A j \in Bad : k <= j
    <3> HIDE DEF Good
    <3>1. Bad \subseteq Nat
      BY <1>1
    <3> HIDE DEF Bad
    <3> QED BY <3>1, FirstIn
  <2>2. k \in 1 .. n /\ k \in Nat
    BY <1>1
  <2>3. CASE k = 1
    <3>1. Len(joined[k]) = g[1]
      BY <1>4, <1>5, <2>2, <2>3
    <3>2. Total(g, k) = Total(g, k - 1) + g[k] /\ g[k] \in Nat
      BY <1>5, <1>6, <2>2
    <3>3. Total(g, 1) = 0 + g[1] /\ g[1] \in Nat
      BY <1>6, <2>3, <3>2
    <3> QED BY <2>1, <2>3, <3>1, <3>3
  <2>4. CASE k # 1
    <3>1. k - 1 \in 1 .. n /\ ~(k <= k - 1)
      BY <1>1, <2>2, <2>4
    <3>2. Good(k - 1)
      <4> HIDE DEF Good
      <4> QED BY <2>1, <3>1
    <3>3. PICK s \in Seq(S), t \in Seq(S) : s = joined[k - 1] /\ t = seqs[k]
      BY <1>3, <1>5, <2>2, <3>1
    <3>4. Len(s \o t) = Len(s) + Len(t)
      OBVIOUS
    <3>5. joined[k] = s \o t
      BY <1>4, <2>2, <2>4, <3>3
    <3>6. Len(joined[k]) = Total(g, k - 1) + g[k]
      BY <1>5, <2>2, <3>2, <3>3, <3>4, <3>5
    <3> QED BY <1>6, <2>1, <2>2, <3>6
  <2> QED BY <2>3, <2>4
<1>8. CASE n = 0
  BY <1>2, <1>6, <1>8
<1>9. CASE n # 0
  <2>1. n \in 1 .. n
    BY <1>1, <1>9
  <2>2. Good(n)
    <3> HIDE DEF Good
    <3> QED BY <1>7, <2>1
  <2> QED BY <1>2, <1>9, <2>2
<1> QED BY <1>8, <1>9

\* A segment with an image lies in its buffer, behind those before it.
LEMMA ImageInBuffer ==
  ASSUME NEW l \in Links, NEW i \in DOMAIN l.objects, NEW k \in DOMAIN l.objects[i].segs,
         NEW b \in {"TEXT", "DATA"}, ImageSeg(l.objects[i].segs[k]) = b
  PROVE  /\ ImageBase(l.objects[i].segs, k) \in Nat
         /\ ImageBase(l.objects[i].segs, k) + l.objects[i].segs[k].size
              <= Length(l.objects[i].segs, b)
         /\ Len(l.objects[i].segs[k].bytes) = l.objects[i].segs[k].size
<1> DEFINE segs == l.objects[i].segs
           n == Len(segs)
           g == [j \in DOMAIN segs |-> IF ImageSeg(segs[j]) = b THEN segs[j].size ELSE 0]
           c == [j \in DOMAIN segs |-> IF ImageSeg(segs[j]) = b THEN segs[j].bytes ELSE <<>>]
<1>1. segs \in Seq(Segments) /\ n \in Nat /\ DOMAIN segs = 1 .. n
      /\ \A j \in DOMAIN segs : segs[j].size \in Nat
  BY ObjectsTyped
<1>2. \A j \in DOMAIN segs : segs[j] \in Segments
  <2> HIDE DEF segs
  <2> QED BY <1>1
<1>3. \A j \in DOMAIN segs : /\ segs[j].segid \in SegIds
                             /\ segs[j].bytes \in Seq(0 .. Byte - 1)
  <2> HIDE DEF segs
  <2> QED BY <1>2 DEF Segments
<1>4. \A j \in DOMAIN segs :
        /\ segs[j].segid \in {"TEXT", "DATA"} => Len(segs[j].bytes) = segs[j].size
        /\ segs[j].segid = "ZP" => Len(segs[j].bytes) \in {0, segs[j].size}
  <2>1. WellFormed(l)
    BY LinksAssumption
  <2> QED BY <2>1 DEF WellFormed
<1>5. \A j \in DOMAIN segs : ImageSeg(segs[j]) = b => Len(segs[j].bytes) = segs[j].size
  <2> TAKE j \in DOMAIN segs
  <2> SUFFICES ASSUME ImageSeg(segs[j]) = b PROVE Len(segs[j].bytes) = segs[j].size
    OBVIOUS
  <2> HIDE DEF segs
  <2>1. segs[j].segid \in {"TEXT", "DATA"} \/ (segs[j].segid = "ZP" /\ segs[j].bytes # <<>>)
    BY DEF ImageSeg
  <2>2. segs[j].bytes # <<>> => Len(segs[j].bytes) # 0
    BY <1>3
  <2> QED BY <1>4, <2>1, <2>2
<1>6. ImageBase(segs, k) = Total(g, k - 1)
  <2> HIDE DEF segs
  <2>1. ImageSeg(segs[k]) = b
    BY DEF segs
  <2> QED BY <2>1 DEF ImageBase, Behind
<1>7. Buffer(segs, b) = FlattenSeq(c)
  BY DEF Buffer
<1> HIDE DEF segs
<1>8. /\ \A j \in 1 .. n : g[j] \in Nat
      /\ g = [j \in 1 .. n |-> g[j]]
  BY <1>1
<1>9. g \in [1 .. n -> Nat]
  <2> HIDE DEF g
  <2> QED BY <1>8
<1>10. c \in Seq(Seq(0 .. Byte - 1)) /\ Len(c) = n
  <2>1. \A j \in 1 .. n : c[j] \in Seq(0 .. Byte - 1)
    <3>1. <<>> \in Seq(0 .. Byte - 1)
      OBVIOUS
    <3>2. \A j \in 1 .. n : c[j] = IF ImageSeg(segs[j]) = b THEN segs[j].bytes ELSE <<>>
      BY <1>1
    <3> HIDE DEF c
    <3> QED BY <1>1, <1>3, <3>1, <3>2
  <2>2. c = [j \in 1 .. n |-> c[j]]
    BY <1>1
  <2> HIDE DEF c
  <2> QED BY <1>1, <2>1, <2>2
<1>11. \A j \in 1 .. n : Len(c[j]) = g[j]
  <2> TAKE j \in 1 .. n
  <2>1. CASE ImageSeg(segs[j]) = b
    BY <1>1, <1>5, <2>1
  <2>2. CASE ImageSeg(segs[j]) # b
    BY <1>1, <2>2
  <2> QED BY <2>1, <2>2
<1>12. k \in 1 .. n /\ g[k] = segs[k].size
  BY <1>1 DEF segs
<1> HIDE DEF g, c
<1>13. Len(FlattenSeq(c)) = Total(g, n)
  BY <1>10, <1>11, FlattenLength
<1>14. Length(segs, b) = Total(g, n)
  BY <1>7, <1>13 DEF Length
<1>15. /\ Total(g, k - 1) \in Nat /\ g[k] \in Nat /\ Total(g, k) = Total(g, k - 1) + g[k]
       /\ Total(g, n) \in Nat /\ Total(g, k) <= Total(g, n)
  <2> HIDE DEF n
  <2> QED BY <1>1, <1>9, <1>12, TotalsOrder
<1>16. Len(segs[k].bytes) = segs[k].size
  BY <1>5 DEF segs
<1> QED BY <1>6, <1>12, <1>14, <1>15, <1>16 DEF segs

\* The functions that store and patch the references one after the other.
StoreStep(i, b, n, prev) ==
  IF IsIn(i, b, RefsOf(i)[n]) THEN Store(i, prev, RefsOf(i)[n]) ELSE prev
IsStored(i, b, buf) ==
  buf = [n \in 0 .. Len(RefsOf(i)) |->
           IF n = 0 THEN Buffer(SegsOf(i), b) ELSE StoreStep(i, b, n, buf[n - 1])]
PatchStep(i, b, n, prev) ==
  IF IsIn(i, b, RefsOf(i)[n]) THEN Patch(i, prev, RefsOf(i)[n]) ELSE prev
IsRelocated(i, b, done) ==
  done = [n \in 0 .. Len(RefsOf(i)) |->
            IF n = 0 THEN [ok |-> TRUE, buf |-> Stored(i, b)] ELSE PatchStep(i, b, n, done[n - 1])]

\* What an object stores is the last of the buffers its references make one by one.
LEMMA StoredIs ==
  ASSUME NEW i, NEW b
  PROVE  Stored(i, b) = (CHOOSE buf : IsStored(i, b, buf))[Len(RefsOf(i))]
BY Zenon DEF Stored, IsStored, StoreStep

\* The relocated buffer is the last of the buffers its references patch one by one.
LEMMA RelocatedIs ==
  ASSUME NEW i, NEW b
  PROVE  Relocated(i, b) = (CHOOSE done : IsRelocated(i, b, done))[Len(RefsOf(i))]
BY Zenon DEF Relocated, IsRelocated, PatchStep

\* The relocated buffers of an object do not change once everything is placed.
LEMMA StoredStays ==
  ASSUME link' = link, NEW i, NEW b
  PROVE  Stored(i, b)' = Stored(i, b)
<1>1. \A j : SegsOf(j)' = SegsOf(j) /\ RefsOf(j)' = RefsOf(j)
  BY DEF SegsOf, RefsOf
<1>2. \A buf, r : Store(i, buf, r)' = Store(i, buf, r)
  BY <1>1 DEF Store, RefPos, Known, PackedValue
<1>3. \A r : IsIn(i, b, r)' <=> IsIn(i, b, r)
  BY <1>1 DEF IsIn
<1>4. RefsOf(i)' = RefsOf(i) /\ SegsOf(i)' = SegsOf(i)
  BY <1>1
<1>5. \A n, prev : StoreStep(i, b, n, prev)' = StoreStep(i, b, n, prev)
  BY <1>2, <1>3, <1>4 DEF StoreStep
<1>6. \A buf : IsStored(i, b, buf)' <=> IsStored(i, b, buf)
  BY <1>4, <1>5 DEF IsStored
<1>7. (CHOOSE buf : IsStored(i, b, buf))' = CHOOSE buf : IsStored(i, b, buf)
  BY <1>6, Zenon
<1>8. Stored(i, b)' = (CHOOSE buf : IsStored(i, b, buf))'[Len(RefsOf(i))']
  BY Zenon DEF Stored, IsStored, StoreStep
<1> QED BY <1>4, <1>7, <1>8, StoredIs

\* Nor do they change when an address is only read.
LEMMA RelocatedStays ==
  ASSUME link' = link, load_addr' = load_addr, run_addr' = run_addr, NEW i, NEW b
  PROVE  Relocated(i, b)' = Relocated(i, b)
<1>1. \A j : SegsOf(j)' = SegsOf(j) /\ RefsOf(j)' = RefsOf(j)
  BY DEF SegsOf, RefsOf
<1>2. \A j, segid, v : MappedTo(j, segid, v)' = MappedTo(j, segid, v)
  BY <1>1 DEF MappedTo
<1>3. \A j, k : BaseAddr(j, k)' = BaseAddr(j, k)
  BY <1>1 DEF BaseAddr
<1>4. \A j, segid, v : RuntimeAddr(j, segid, v)' = RuntimeAddr(j, segid, v)
  BY <1>1, <1>2, <1>3 DEF RuntimeAddr, AddrIn
<1>5. \A l : Global(l)' = Global(l) /\ SegIdOf(l)' = SegIdOf(l)
  BY <1>1, <1>4 DEF Global, SegIdOf, PackedValue
<1>6. \A r, found : Target(i, r, found)' = Target(i, r, found)
  BY <1>4, <1>5 DEF Target
<1>7. \A done, r, p, found : PatchFound(i, done, r, p, found)' = PatchFound(i, done, r, p, found)
  BY <1>2, <1>5, <1>6 DEF PatchFound
<1>8. \A done, r, p, known : PatchAt(i, done, r, p, known)' = PatchAt(i, done, r, p, known)
  BY <1>7 DEF PatchAt
<1>9. \A r : RefPos(i, r)' = RefPos(i, r) /\ Known(i, r)' = Known(i, r)
  BY <1>1 DEF RefPos, Known, PackedValue
<1>10. \A done, r : Patch(i, done, r)' = Patch(i, done, r)
  BY <1>8, <1>9 DEF Patch
<1>11. \A r : IsIn(i, b, r)' <=> IsIn(i, b, r)
  BY <1>1 DEF IsIn
<1>12. RefsOf(i)' = RefsOf(i) /\ Stored(i, b)' = Stored(i, b)
  BY <1>1, StoredStays
<1>13. \A n, prev : PatchStep(i, b, n, prev)' = PatchStep(i, b, n, prev)
  BY <1>10, <1>11, <1>12 DEF PatchStep
<1>14. \A done : IsRelocated(i, b, done)' <=> IsRelocated(i, b, done)
  BY <1>12, <1>13 DEF IsRelocated
<1>15. (CHOOSE done : IsRelocated(i, b, done))' = CHOOSE done : IsRelocated(i, b, done)
  BY <1>14, Zenon
<1>16. Relocated(i, b)' = (CHOOSE done : IsRelocated(i, b, done))'[Len(RefsOf(i))']
  BY Zenon DEF Relocated, IsRelocated, PatchStep
<1> QED BY <1>12, <1>15, <1>16, RelocatedIs

\* The references of an object are a sequence.
LEMMA RefsTyped ==
  ASSUME link \in Links, NEW i \in Objs
  PROVE  Len(RefsOf(i)) \in Nat /\ DOMAIN RefsOf(i) = 1 .. Len(RefsOf(i))
         /\ \A n \in DOMAIN RefsOf(i) : RefsOf(i)[n] \in References
<1> DEFINE Object == [segs: Seq(Segments) \ {<<>>}, refs: Seq(References)]
<1>1. link.objects \in Seq(Object)
  BY LinksAssumption DEF WellFormed
<1>2. link.objects[i] \in Object
  <2> HIDE DEF Object
  <2> QED BY <1>1 DEF Objs
<1>3. RefsOf(i) \in Seq(References)
  BY <1>2 DEF RefsOf
<1> QED BY <1>3

StoredUpTo(i, b, m, f) ==
  f = [n \in 0 .. m |-> IF n = 0 THEN Buffer(SegsOf(i), b) ELSE StoreStep(i, b, n, f[n - 1])]
RelocatedUpTo(i, b, m, f) ==
  f = [n \in 0 .. m |->
         IF n = 0 THEN [ok |-> TRUE, buf |-> Stored(i, b)] ELSE PatchStep(i, b, n, f[n - 1])]

\* One more turn.
LEMMA StoredExists ==
  ASSUME NEW i, NEW b, NEW m \in Nat
  PROVE  \E f : StoredUpTo(i, b, m, f)
<1> DEFINE Bad == {n \in Nat : ~ \E f : StoredUpTo(i, b, n, f)}
<1>1. SUFFICES ASSUME Bad # {} PROVE FALSE
  OBVIOUS
<1>2. PICK n \in Bad : \A k \in Bad : n <= k
  <2> HIDE DEF Bad
  <2>1. Bad \subseteq Nat
    BY DEF Bad
  <2> QED BY <1>1, <2>1, FirstIn
<1>3. n # 0
  <2>1. StoredUpTo(i, b, 0, [k \in 0 .. 0 |-> Buffer(SegsOf(i), b)])
    BY DEF StoredUpTo
  <2> QED BY <2>1
<1>4. PICK t : StoredUpTo(i, b, n - 1, t)
  <2>1. n - 1 \in Nat /\ ~(n <= n - 1)
    BY <1>3
  <2> QED BY <1>2, <2>1
<1> DEFINE entry(g, k) == IF k = 0 THEN Buffer(SegsOf(i), b) ELSE StoreStep(i, b, k, g[k - 1])
           more == [k \in 0 .. n |-> IF k < n THEN t[k] ELSE entry(t, n)]
<1>5. \A k \in 0 .. n - 1 : t[k] = entry(t, k)
  BY <1>4 DEF StoredUpTo
<1>6. \A k \in 0 .. n : more[k] = entry(more, k)
  <2> TAKE k \in 0 .. n
  <2>1. k # 0 => more[k - 1] = t[k - 1]
    <3> HIDE DEF entry
    <3> QED OBVIOUS
  <2>2. entry(more, k) = entry(t, k)
    <3> HIDE DEF more
    <3> QED BY <2>1
  <2>3. more[k] = entry(t, k)
    <3> HIDE DEF entry
    <3> QED BY <1>5
  <2> QED BY <2>2, <2>3
<1>7. StoredUpTo(i, b, n, more)
  <2>1. more = [k \in 0 .. n |-> more[k]]
    OBVIOUS
  <2>2. [k \in 0 .. n |-> entry(more, k)] = [k \in 0 .. n |-> more[k]]
    <3> HIDE DEF more, entry
    <3> QED BY <1>6
  <2> HIDE DEF more
  <2> QED BY <2>1, <2>2 DEF StoredUpTo
<1> QED BY <1>7

\* The buffers an object stores in, from its bytes to the last reference.
LEMMA StoredLaw ==
  ASSUME link \in Links, NEW i \in Objs, NEW b
  PROVE  \E f : /\ Stored(i, b) = f[Len(RefsOf(i))] /\ f[0] = Buffer(SegsOf(i), b)
                /\ \A k \in 1 .. Len(RefsOf(i)) : f[k] = StoreStep(i, b, k, f[k - 1])
                /\ Len(RefsOf(i)) \in Nat
<1>1. PICK m \in Nat : m = Len(RefsOf(i))
  BY RefsTyped
<1>2. PICK f : f = CHOOSE g : IsStored(i, b, g)
  OBVIOUS
<1>3. StoredUpTo(i, b, m, f)
  <2>1. \E g : StoredUpTo(i, b, m, g)
    BY StoredExists
  <2>2. \A g : IsStored(i, b, g) <=> StoredUpTo(i, b, m, g)
    BY <1>1 DEF IsStored, StoredUpTo
  <2> QED BY <1>2, <2>1, <2>2
<1>4. Stored(i, b) = f[m]
  BY <1>1, <1>2, StoredIs
<1>5. f[0] = Buffer(SegsOf(i), b) /\ \A k \in 1 .. m : f[k] = StoreStep(i, b, k, f[k - 1])
  BY <1>3 DEF StoredUpTo
<1> QED BY <1>1, <1>4, <1>5

\* One more turn.
LEMMA RelocatedExists ==
  ASSUME NEW i, NEW b, NEW m \in Nat
  PROVE  \E f : RelocatedUpTo(i, b, m, f)
<1> DEFINE Bad == {n \in Nat : ~ \E f : RelocatedUpTo(i, b, n, f)}
<1>1. SUFFICES ASSUME Bad # {} PROVE FALSE
  OBVIOUS
<1>2. PICK n \in Bad : \A k \in Bad : n <= k
  <2> HIDE DEF Bad
  <2>1. Bad \subseteq Nat
    BY DEF Bad
  <2> QED BY <1>1, <2>1, FirstIn
<1>3. n # 0
  <2>1. RelocatedUpTo(i, b, 0, [k \in 0 .. 0 |-> [ok |-> TRUE, buf |-> Stored(i, b)]])
    BY DEF RelocatedUpTo
  <2> QED BY <2>1
<1>4. PICK t : RelocatedUpTo(i, b, n - 1, t)
  <2>1. n - 1 \in Nat /\ ~(n <= n - 1)
    BY <1>3
  <2> QED BY <1>2, <2>1
<1> DEFINE entry(g, k) == IF k = 0 THEN [ok |-> TRUE, buf |-> Stored(i, b)] ELSE PatchStep(i, b, k, g[k - 1])
           more == [k \in 0 .. n |-> IF k < n THEN t[k] ELSE entry(t, n)]
<1>5. \A k \in 0 .. n - 1 : t[k] = entry(t, k)
  BY <1>4 DEF RelocatedUpTo
<1>6. \A k \in 0 .. n : more[k] = entry(more, k)
  <2> TAKE k \in 0 .. n
  <2>1. k # 0 => more[k - 1] = t[k - 1]
    <3> HIDE DEF entry
    <3> QED OBVIOUS
  <2>2. entry(more, k) = entry(t, k)
    <3> HIDE DEF more
    <3> QED BY <2>1
  <2>3. more[k] = entry(t, k)
    <3> HIDE DEF entry
    <3> QED BY <1>5
  <2> QED BY <2>2, <2>3
<1>7. RelocatedUpTo(i, b, n, more)
  <2>1. more = [k \in 0 .. n |-> more[k]]
    OBVIOUS
  <2>2. [k \in 0 .. n |-> entry(more, k)] = [k \in 0 .. n |-> more[k]]
    <3> HIDE DEF more, entry
    <3> QED BY <1>6
  <2> HIDE DEF more
  <2> QED BY <2>1, <2>2 DEF RelocatedUpTo
<1> QED BY <1>7

\* The buffers the linker patches, from the stored one to the last reference.
LEMMA RelocatedLaw ==
  ASSUME link \in Links, NEW i \in Objs, NEW b
  PROVE  \E f : /\ Relocated(i, b) = f[Len(RefsOf(i))] /\ f[0] = [ok |-> TRUE, buf |-> Stored(i, b)]
                /\ \A k \in 1 .. Len(RefsOf(i)) : f[k] = PatchStep(i, b, k, f[k - 1])
                /\ Len(RefsOf(i)) \in Nat
<1>1. PICK m \in Nat : m = Len(RefsOf(i))
  BY RefsTyped
<1>2. PICK f : f = CHOOSE g : IsRelocated(i, b, g)
  OBVIOUS
<1>3. RelocatedUpTo(i, b, m, f)
  <2>1. \E g : RelocatedUpTo(i, b, m, g)
    BY RelocatedExists
  <2>2. \A g : IsRelocated(i, b, g) <=> RelocatedUpTo(i, b, m, g)
    BY <1>1 DEF IsRelocated, RelocatedUpTo
  <2> QED BY <1>2, <2>1, <2>2
<1>4. Relocated(i, b) = f[m]
  BY <1>1, <1>2, RelocatedIs
<1>5. PICK first : first = [ok |-> TRUE, buf |-> Stored(i, b)]
  OBVIOUS
<1>6. f = [n \in 0 .. m |-> IF n = 0 THEN first ELSE PatchStep(i, b, n, f[n - 1])]
  BY <1>3, <1>5 DEF RelocatedUpTo
<1>7. f[0] = first /\ \A k \in 1 .. m : f[k] = PatchStep(i, b, k, f[k - 1])
  BY <1>6
<1> QED BY <1>1, <1>4, <1>5, <1>7

\* Relocation changes bytes of the buffers, not their lengths.
Shaped(buf, m) == buf = [k \in 1 .. m |-> buf[k]]

\* Changing one byte keeps the length of a buffer,
LEMMA ExceptShaped ==
  ASSUME NEW m, NEW buf, Shaped(buf, m), NEW p, NEW v
  PROVE  Shaped([buf EXCEPT ![p] = v], m)
<1> DEFINE new == [buf EXCEPT ![p] = v]
<1>1. DOMAIN buf = 1 .. m
  BY DEF Shaped
<1>2. DOMAIN new = 1 .. m
  BY <1>1
<1>3. new = [k \in DOMAIN new |-> new[k]]
  OBVIOUS
<1> HIDE DEF new
<1> QED BY <1>2, <1>3 DEF Shaped, new

\* and so does storing the known part of a reference,
LEMMA StoreShaped ==
  ASSUME NEW i, NEW m, NEW buf, Shaped(buf, m), NEW r
  PROVE  Shaped(Store(i, buf, r), m)
<1>1. PICK p : p = RefPos(i, r)
  OBVIOUS
<1>2. PICK low : low = [buf EXCEPT ![p] = IF r.part = "HIGH" THEN High(Known(i, r)) ELSE Low(Known(i, r))]
  OBVIOUS
<1>3. Shaped(low, m)
  BY <1>2, ExceptShaped
<1>4. Shaped([low EXCEPT ![p + 1] = High(Known(i, r))], m)
  BY <1>3, ExceptShaped
<1>5. Store(i, buf, r) = IF r.width = 2 THEN [low EXCEPT ![p + 1] = High(Known(i, r))] ELSE low
  BY <1>1, <1>2 DEF Store, StoreAt
<1> QED BY <1>3, <1>4, <1>5

\* and so does writing the address a reference is to,
LEMMA PatchedShaped ==
  ASSUME NEW m, NEW buf, Shaped(buf, m), NEW r, NEW p, NEW target
  PROVE  Shaped(Patched(buf, r, p, target), m)
<1>1. PICK low : low = [buf EXCEPT ![p] = Low(target)]
  OBVIOUS
<1>2. Shaped(low, m)
  BY <1>1, ExceptShaped
<1>3. Shaped([low EXCEPT ![p + 1] = High(target)], m)
  BY <1>2, ExceptShaped
<1>4. Shaped([buf EXCEPT ![p] = IF r.part = "LOW" THEN Low(target) ELSE High(target)], m)
  BY ExceptShaped
<1>5. Patched(buf, r, p, target) =
        IF r.part = "WORD" THEN [low EXCEPT ![p + 1] = High(target)]
        ELSE [buf EXCEPT ![p] = IF r.part = "LOW" THEN Low(target) ELSE High(target)]
  BY <1>1 DEF Patched
<1> QED BY <1>3, <1>4, <1>5

Result(done, m) == DOMAIN done = {"ok", "buf"} /\ Shaped(done.buf, m)

\* and so does a relocation, whether it succeeds or not.
LEMMA PatchShaped ==
  ASSUME NEW i, NEW m, NEW done, Result(done, m), NEW r
  PROVE  Result(Patch(i, done, r), m)
<1>1. Result([done EXCEPT !.ok = FALSE], m)
  BY DEF Result
<1>2. ASSUME NEW p, NEW target
      PROVE  Result([done EXCEPT !.buf = Patched(@, r, p, target)], m)
  <2>1. PICK new : new = Patched(done.buf, r, p, target)
    OBVIOUS
  <2>2. Shaped(new, m)
    BY <2>1, PatchedShaped DEF Result
  <2>3. Result([done EXCEPT !.buf = new], m)
    BY <2>2 DEF Result
  <2> QED BY <2>1, <2>3
<1>3. \A p, found : Result(PatchFound(i, done, r, p, found), m)
  BY <1>1, <1>2 DEF PatchFound
<1>4. \A p, known : Result(PatchAt(i, done, r, p, known), m)
  BY <1>1, <1>3 DEF PatchAt
<1> QED BY <1>4 DEF Patch

\* So the relocated buffers of an object are as long as what the assembler packed.
LEMMA StoredShaped ==
  ASSUME link \in Links, NEW i \in Objs, NEW b
  PROVE  Shaped(Stored(i, b), Length(SegsOf(i), b)) /\ Length(SegsOf(i), b) \in Nat
<1>1. PICK m \in Nat : m = Length(SegsOf(i), b)
  BY ObjectsTyped DEF Objs, SegsOf
<1>2. PICK f : /\ Stored(i, b) = f[Len(RefsOf(i))] /\ f[0] = Buffer(SegsOf(i), b)
               /\ \A k \in 1 .. Len(RefsOf(i)) : f[k] = StoreStep(i, b, k, f[k - 1])
               /\ Len(RefsOf(i)) \in Nat
  BY StoredLaw
<1>3. PICK n \in Nat : n = Len(RefsOf(i))
  BY <1>2
<1>4. Shaped(f[0], m)
  <2>1. SegsOf(i) \in Seq(Segments)
    BY ObjectsTyped DEF Objs, SegsOf
  <2>2. PICK s \in Seq(0 .. Byte - 1) : s = Buffer(SegsOf(i), b)
    BY <2>1, BufferIsSeq
  <2>3. s = [k \in 1 .. Len(s) |-> s[k]]
    OBVIOUS
  <2> QED BY <1>1, <1>2, <2>2, <2>3 DEF Shaped, Length
<1> DEFINE Bad == {k \in 0 .. n : ~Shaped(f[k], m)}
<1>5. Bad = {}
  <2> SUFFICES ASSUME Bad # {} PROVE FALSE
    OBVIOUS
  <2>1. PICK k \in Bad : \A j \in Bad : k <= j
    <3>1. Bad \subseteq Nat
      OBVIOUS
    <3> HIDE DEF Bad
    <3> QED BY <3>1, FirstIn
  <2>2. k \in 1 .. n /\ k - 1 \in 0 .. n /\ ~(k <= k - 1)
    BY <1>4
  <2>3. Shaped(f[k - 1], m)
    BY <2>1, <2>2
  <2>4. Shaped(f[k], m)
    BY <1>2, <1>3, <2>2, <2>3, StoreShaped DEF StoreStep
  <2> QED BY <2>4
<1>6. n \in 0 .. n
  OBVIOUS
<1> QED BY <1>1, <1>2, <1>3, <1>5, <1>6

\* A relocated buffer is as long as the buffer of the object file.
LEMMA RelocatedShaped ==
  ASSUME link \in Links, NEW i \in Objs, NEW b
  PROVE  Shaped(Relocated(i, b).buf, Length(SegsOf(i), b)) /\ Length(SegsOf(i), b) \in Nat
<1>1. PICK m \in Nat : m = Length(SegsOf(i), b) /\ Shaped(Stored(i, b), m)
  BY StoredShaped
<1>2. PICK f : /\ Relocated(i, b) = f[Len(RefsOf(i))] /\ f[0] = [ok |-> TRUE, buf |-> Stored(i, b)]
               /\ \A k \in 1 .. Len(RefsOf(i)) : f[k] = PatchStep(i, b, k, f[k - 1])
               /\ Len(RefsOf(i)) \in Nat
  BY RelocatedLaw
<1>3. PICK n \in Nat : n = Len(RefsOf(i))
  BY <1>2
<1>4. Result(f[0], m)
  BY <1>1, <1>2 DEF Result
<1> DEFINE Bad == {k \in 0 .. n : ~Result(f[k], m)}
<1>5. Bad = {}
  <2> SUFFICES ASSUME Bad # {} PROVE FALSE
    OBVIOUS
  <2>1. PICK k \in Bad : \A j \in Bad : k <= j
    <3>1. Bad \subseteq Nat
      OBVIOUS
    <3> HIDE DEF Bad
    <3> QED BY <3>1, FirstIn
  <2>2. k \in 1 .. n /\ k - 1 \in 0 .. n /\ ~(k <= k - 1)
    BY <1>4
  <2>3. Result(f[k - 1], m)
    BY <2>1, <2>2
  <2>4. Result(f[k], m)
    BY <1>2, <1>3, <2>2, <2>3, PatchShaped DEF PatchStep
  <2> QED BY <2>4
<1>6. n \in 0 .. n
  OBVIOUS
<1>7. Result(f[n], m)
  BY <1>5, <1>6
<1> QED BY <1>1, <1>2, <1>3, <1>7 DEF Result

Outside(a, from, n) == a < from \/ from + n <= a

\* A byte of one block is a byte of no other, and lies below the vectors.
LEMMA BlockOutside ==
  ASSUME IInv, Separate(link), Placed, NEW b \in Blocks, NEW c \in Blocks, b # c,
         NEW a \in Nat, b.from <= a, a < b.from + b.size
  PROVE  a < VectorTable /\ Outside(a, c.from, c.size)
<1>1. Packed(Blocks, link.mem, cur)
  BY DEF IInv, Packing
<1>2. b.from \in Nat /\ b.size \in Nat /\ c.from \in Nat /\ c.size \in Nat
  BY <1>1 DEF Packed
<1>3. b.size > 0
  BY <1>2
<1>4. /\ b.from + b.size <= VectorTable
      /\ c.size > 0 => b.from + b.size <= c.from \/ c.from + c.size <= b.from
  BY <1>3, PackedIsDisjoint DEF BlocksDisjoint
<1>5. a < VectorTable
  BY <1>2, <1>4, SpaceNat
<1>6. Outside(a, c.from, c.size)
  <2>1. CASE c.size = 0
    BY <1>2, <2>1 DEF Outside
  <2>2. CASE c.size > 0
    BY <1>2, <1>4, <2>2 DEF Outside
  <2> QED BY <1>2, <2>1, <2>2
<1> QED BY <1>5, <1>6

\* Every load image lies apart from the others, from the tables and from what runs
\* in RAM.
LoadsOutside(a, i, kind) ==
  /\ a < VectorTable
  /\ \A j \in Objs : /\ j # i \/ kind # "text" => Outside(a, text_load[j], Length(SegsOf(j), "TEXT"))
                     /\ j # i \/ kind # "data" => Outside(a, data_load[j], Length(SegsOf(j), "DATA"))
  /\ Outside(a, table.copy, CopyTableSize)
  /\ Outside(a, table.zero, ZeroTableSize)
  /\ Outside(a, table.init, InitTableSize)
\* The load blocks of an object lie outside every other object's and outside the tables.
LEMMA LoadsApart ==
  ASSUME IInv, Separate(link), Placed, NEW i \in Objs
  PROVE  /\ text_load[i] \in Nat /\ data_load[i] \in Nat
         /\ Length(SegsOf(i), "TEXT") \in Nat /\ Length(SegsOf(i), "DATA") \in Nat
         /\ \A a \in Nat : text_load[i] <= a /\ a < text_load[i] + Length(SegsOf(i), "TEXT")
                           => LoadsOutside(a, i, "text")
         /\ \A a \in Nat : data_load[i] <= a /\ a < data_load[i] + Length(SegsOf(i), "DATA")
                           => LoadsOutside(a, i, "data")
<1> DEFINE C == Block(<<"copy">>, link.data_load, table.copy, CopyTableSize)
           Z == Block(<<"zero">>, link.data_load, table.zero, ZeroTableSize)
           I == Block(<<"init">>, link.data_load, table.init, InitTableSize)
<1>1. \A j \in Objs : TextBlock(j) \in Blocks /\ DataBlock(j) \in Blocks
  BY DEF Blocks, TextBlock, DataBlock
<1>2. C \in Blocks /\ Z \in Blocks /\ I \in Blocks
  BY DEF Blocks
<1>3. \A j : /\ TextBlock(j).id = <<"text", j>> /\ TextBlock(j).from = text_load[j]
             /\ TextBlock(j).size = Length(SegsOf(j), "TEXT")
             /\ DataBlock(j).id = <<"data", j>> /\ DataBlock(j).from = data_load[j]
             /\ DataBlock(j).size = Length(SegsOf(j), "DATA")
  BY DEF TextBlock, DataBlock, Block
<1>4. /\ C.id = <<"copy">> /\ C.from = table.copy /\ C.size = CopyTableSize
      /\ Z.id = <<"zero">> /\ Z.from = table.zero /\ Z.size = ZeroTableSize
      /\ I.id = <<"init">> /\ I.from = table.init /\ I.size = InitTableSize
  BY DEF Block
<1> HIDE DEF C, Z, I
<1>5. \A j : TextBlock(j).id[1] = "text" /\ TextBlock(j).id[2] = j
             /\ DataBlock(j).id[1] = "data" /\ DataBlock(j).id[2] = j
  BY <1>3
<1>6. C.id[1] = "copy" /\ Z.id[1] = "zero" /\ I.id[1] = "init"
  BY <1>4
<1>7. Packed(Blocks, link.mem, cur)
  BY DEF IInv, Packing
<1>8. /\ text_load[i] \in Nat /\ data_load[i] \in Nat
      /\ Length(SegsOf(i), "TEXT") \in Nat /\ Length(SegsOf(i), "DATA") \in Nat
  <2>1. TextBlock(i).from \in Nat /\ TextBlock(i).size \in Nat
        /\ DataBlock(i).from \in Nat /\ DataBlock(i).size \in Nat
    BY <1>1, <1>7 DEF Packed
  <2> QED BY <1>3, <2>1
<1>9. ASSUME NEW a \in Nat, text_load[i] <= a, a < text_load[i] + Length(SegsOf(i), "TEXT")
      PROVE  LoadsOutside(a, i, "text")
  <2>1. PICK b \in Blocks : b = TextBlock(i)
    BY <1>1
  <2>2. b.from <= a /\ a < b.from + b.size /\ b.id[1] = "text" /\ b.id[2] = i
    BY <1>3, <1>5, <1>9, <2>1
  <2>3. \A c \in Blocks : b # c => a < VectorTable /\ Outside(a, c.from, c.size)
    BY <2>2, BlockOutside
  <2>4. ASSUME NEW j \in Objs, j # i PROVE Outside(a, text_load[j], Length(SegsOf(j), "TEXT"))
    BY <1>1, <1>3, <1>5, <2>2, <2>3, <2>4
  <2>5. ASSUME NEW j \in Objs PROVE Outside(a, data_load[j], Length(SegsOf(j), "DATA"))
    BY <1>1, <1>3, <1>5, <2>2, <2>3
  <2>6. b # C /\ b # Z /\ b # I
    BY <1>6, <2>2
  <2>7. a < VectorTable /\ Outside(a, C.from, C.size) /\ Outside(a, Z.from, Z.size)
        /\ Outside(a, I.from, I.size)
    BY <1>2, <2>3, <2>6
  <2> QED BY <1>4, <2>4, <2>5, <2>7 DEF LoadsOutside
<1>10. ASSUME NEW a \in Nat, data_load[i] <= a, a < data_load[i] + Length(SegsOf(i), "DATA")
       PROVE  LoadsOutside(a, i, "data")
  <2>1. PICK b \in Blocks : b = DataBlock(i)
    BY <1>1
  <2>2. b.from <= a /\ a < b.from + b.size /\ b.id[1] = "data" /\ b.id[2] = i
    BY <1>3, <1>5, <1>10, <2>1
  <2>3. \A c \in Blocks : b # c => a < VectorTable /\ Outside(a, c.from, c.size)
    BY <2>2, BlockOutside
  <2>4. ASSUME NEW j \in Objs, j # i PROVE Outside(a, data_load[j], Length(SegsOf(j), "DATA"))
    BY <1>1, <1>3, <1>5, <2>2, <2>3, <2>4
  <2>5. ASSUME NEW j \in Objs PROVE Outside(a, text_load[j], Length(SegsOf(j), "TEXT"))
    BY <1>1, <1>3, <1>5, <2>2, <2>3
  <2>6. b # C /\ b # Z /\ b # I
    BY <1>6, <2>2
  <2>7. a < VectorTable /\ Outside(a, C.from, C.size) /\ Outside(a, Z.from, Z.size)
        /\ Outside(a, I.from, I.size)
    BY <1>2, <2>3, <2>6
  <2> QED BY <1>4, <2>4, <2>5, <2>7 DEF LoadsOutside
<1> QED BY <1>8, <1>9, <1>10

\* A byte of what runs in RAM is no byte of a load image, of a table, or of another
\* segment that runs in RAM.
RunOutside(a, p) ==
  /\ a < VectorTable
  /\ \A j \in Objs : /\ Outside(a, text_load[j], Length(SegsOf(j), "TEXT"))
                     /\ Outside(a, data_load[j], Length(SegsOf(j), "DATA"))
  /\ Outside(a, table.init, InitTableSize)
  /\ \A q \in Running : q # p => Outside(a, run_addr[q], Segment(q).size)
\* The run block of a segment lies outside every load block, the tables and every other run block.
LEMMA RunsApart ==
  ASSUME IInv, Separate(link), Placed, NEW p \in Running, NEW a \in Nat,
         run_addr[p] <= a, a < run_addr[p] + Segment(p).size
  PROVE  RunOutside(a, p)
<1> DEFINE I == Block(<<"init">>, link.data_load, table.init, InitTableSize)
<1>1. \A j \in Objs : TextBlock(j) \in Blocks /\ DataBlock(j) \in Blocks
  BY DEF Blocks, TextBlock, DataBlock
<1>2. I \in Blocks /\ \A q \in Running : RunBlock(q) \in Blocks
  BY DEF Blocks, Running, RunBlock, Segment
<1>3. \A j : /\ TextBlock(j).id = <<"text", j>> /\ TextBlock(j).from = text_load[j]
             /\ TextBlock(j).size = Length(SegsOf(j), "TEXT")
             /\ DataBlock(j).id = <<"data", j>> /\ DataBlock(j).from = data_load[j]
             /\ DataBlock(j).size = Length(SegsOf(j), "DATA")
  BY DEF TextBlock, DataBlock, Block
<1>4. I.id = <<"init">> /\ I.from = table.init /\ I.size = InitTableSize
  BY DEF Block
<1>5. \A q : /\ RunBlock(q).id = <<"run", q>> /\ RunBlock(q).from = run_addr[q]
             /\ RunBlock(q).size = Segment(q).size
  BY DEF RunBlock, Block
<1> HIDE DEF I
<1>6. /\ \A j : TextBlock(j).id[1] = "text" /\ DataBlock(j).id[1] = "data"
      /\ I.id[1] = "init"
      /\ \A q : RunBlock(q).id[1] = "run" /\ RunBlock(q).id[2] = q
  BY <1>3, <1>4, <1>5
<1>7. PICK b \in Blocks : b = RunBlock(p)
  BY <1>2
<1>8. b.from <= a /\ a < b.from + b.size /\ b.id[1] = "run" /\ b.id[2] = p
  BY <1>5, <1>6, <1>7
<1>9. \A c \in Blocks : b # c => a < VectorTable /\ Outside(a, c.from, c.size)
  BY <1>8, BlockOutside
<1>10. ASSUME NEW j \in Objs
       PROVE  /\ Outside(a, text_load[j], Length(SegsOf(j), "TEXT"))
              /\ Outside(a, data_load[j], Length(SegsOf(j), "DATA"))
  BY <1>1, <1>3, <1>6, <1>8, <1>9
<1>11. ASSUME NEW q \in Running, q # p
       PROVE  Outside(a, run_addr[q], Segment(q).size)
  <2>1. RunBlock(q) \in Blocks /\ RunBlock(q) # b
    BY <1>2, <1>6, <1>8, <1>11
  <2> QED BY <1>5, <1>9, <2>1
<1>12. a < VectorTable /\ Outside(a, table.init, InitTableSize)
  BY <1>2, <1>4, <1>6, <1>8, <1>9
<1> QED BY <1>10, <1>11, <1>12 DEF RunOutside

\* What is written elsewhere leaves a block as it is.
LEMMA HoldsKept ==
  ASSUME NEW img, NEW out, NEW a, NEW as, NEW n, Holds(img, a, as, n),
         \A k \in 1 .. n : out[a + k - 1] = img[a + k - 1]
  PROVE  Holds(out, a, as, n)
BY DEF Holds

PutApart(out, img, S, a, as, n) ==
  /\ DOMAIN out = 0 .. S - 1
  /\ a + n <= S => Holds(out, a, as, n)
  /\ \A x \in 0 .. S - 1 : Outside(x, a, n) => out[x] = img[x]
\* Writing a buffer into the image changes no byte outside of it.
LEMMA PutOutside ==
  ASSUME NEW img, NEW S \in Nat, DOMAIN img = 0 .. S - 1,
         NEW a \in Nat, NEW as, NEW n \in Nat, Len(as) = n
  PROVE  PutApart(Put(img, a, as), img, S, a, as, n)
<1>1. PICK out : out = Put(img, a, as)
  OBVIOUS
<1>2. PutsIn(out, img, a, as)
  BY <1>1, PutIs
<1>3. DOMAIN out = 0 .. S - 1
  BY <1>2 DEF PutsIn
<1>4. ASSUME a + n <= S, NEW k \in 1 .. n
      PROVE  out[a + k - 1] = as[k]
  <2>1. a + k - 1 \in 0 .. S - 1
    BY <1>4
  <2> QED BY <1>2, <2>1 DEF PutsIn
<1>5. \A x \in 0 .. S - 1 : Outside(x, a, n) => out[x] = img[x]
  <2> TAKE x \in 0 .. S - 1
  <2>1. x \in Nat
    OBVIOUS
  <2> QED BY <1>2, <2>1 DEF PutsIn, Outside
<1> QED BY <1>1, <1>3, <1>4, <1>5 DEF Holds, PutApart

\* What has been written of an object depends on the layout only.
LEMMA WrittenStays ==
  ASSUME UNCHANGED <<link, load_addr, run_addr, text_load, data_load>>
  PROVE  \A img, i : ObjectWritten(img, i)' <=> ObjectWritten(img, i)
<1>1. \A i, b : Relocated(i, b)' = Relocated(i, b)
  BY RelocatedStays
<1>2. \A i : SegsOf(i)' = SegsOf(i)
  BY DEF SegsOf
<1> QED BY <1>1, <1>2 DEF ObjectWritten

\* An object stays written when the bytes of its load images stay.
LEMMA WrittenKept ==
  ASSUME IInv, Separate(link), Placed, NEW i \in Objs, NEW img, NEW out, ObjectWritten(img, i),
         \A a \in Nat : (\/ LoadsOutside(a, i, "text") /\ text_load[i] <= a
                            /\ a < text_load[i] + Length(SegsOf(i), "TEXT")
                         \/ LoadsOutside(a, i, "data") /\ data_load[i] <= a
                            /\ a < data_load[i] + Length(SegsOf(i), "DATA"))
                        => out[a] = img[a]
  PROVE  ObjectWritten(out, i)
<1>1. PICK n \in Nat, m \in Nat, s \in Nat, t \in Nat :
         /\ n = Length(SegsOf(i), "TEXT") /\ m = Length(SegsOf(i), "DATA")
         /\ s = text_load[i] /\ t = data_load[i]
  BY LoadsApart
<1>2. ASSUME NEW k \in 1 .. n PROVE out[s + k - 1] = img[s + k - 1]
  <2>1. PICK a \in Nat : a = s + k - 1 /\ s <= a /\ a < s + n
    OBVIOUS
  <2>2. LoadsOutside(a, i, "text")
    BY <1>1, <2>1, LoadsApart
  <2> QED BY <1>1, <2>1, <2>2
<1>3. ASSUME NEW k \in 1 .. m PROVE out[t + k - 1] = img[t + k - 1]
  <2>1. PICK a \in Nat : a = t + k - 1 /\ t <= a /\ a < t + m
    OBVIOUS
  <2>2. LoadsOutside(a, i, "data")
    BY <1>1, <2>1, LoadsApart
  <2> QED BY <1>1, <2>1, <2>2
<1>4. PICK text, data : text = Relocated(i, "TEXT").buf /\ data = Relocated(i, "DATA").buf
  OBVIOUS
<1>5. Holds(img, s, text, n) /\ Holds(img, t, data, m)
  BY <1>1, <1>4 DEF ObjectWritten
<1>6. Holds(out, s, text, n) /\ Holds(out, t, data, m)
  BY <1>2, <1>3, <1>5, HoldsKept
<1> QED BY <1>1, <1>4, <1>6 DEF ObjectWritten

\* build_rom_image writes the load images of one object, and those before it stay.
LEMMA ImageOneMore == BInv /\ ImageInv /\ WriteObject => ImageInv'
<1> SUFFICES ASSUME BInv, ImageInv, WriteObject PROVE ImageInv'
  OBVIOUS
<1> SUFFICES ASSUME Separate(link), phase' = "write"
             PROVE  /\ at' \in Nat \ {0}
                    /\ \A i \in Objs : i < at' => \A img : img = image' => ObjectWritten(img, i)'
  <2>1. phase' # "linked" /\ link' = link
    BY DEF WriteObject
  <2>2. Objs' = Objs /\ (Separate(link)' <=> Separate(link))
    BY <2>1 DEF Objs
  <2> QED BY <2>1, <2>2 DEF ImageInv
<1>1. PICK text, data : text = Relocated(at, "TEXT").buf /\ data = Relocated(at, "DATA").buf
  OBVIOUS
<1>2. /\ phase = "write" /\ at \in Objs /\ at' = at + 1
      /\ image' = Put(Put(image, text_load[at], text), data_load[at], data)
      /\ UNCHANGED <<link, load_addr, run_addr, text_load, data_load>>
  BY <1>1 DEF WriteObject
<1>3. at \in Nat \ {0} /\ (\A i \in Objs : i < at => ObjectWritten(image, i)) /\ Placed
  BY <1>2 DEF ImageInv, Placed
<1>4. IInv /\ link \in Links /\ \A i \in Objs : i \in Nat
  BY ObjectsTyped DEF BInv, IInv, Objs
<1>5. PICK n \in Nat, m \in Nat, s \in Nat, t \in Nat :
         /\ n = Length(SegsOf(at), "TEXT") /\ m = Length(SegsOf(at), "DATA")
         /\ s = text_load[at] /\ t = data_load[at]
  BY <1>2, <1>3, <1>4, LoadsApart
<1>6. Len(text) = n /\ Len(data) = m
  <2>1. Shaped(text, n) /\ Shaped(data, m)
    BY <1>1, <1>2, <1>4, <1>5, RelocatedShaped
  <2>2. \A buf, l : l \in Nat /\ Shaped(buf, l) => Len(buf) = l
    BY DEF Shaped
  <2> QED BY <2>1, <2>2
<1>7. PICK S \in Nat : S = Space /\ VectorTable \in Nat /\ VectorTable < S
  BY SpaceNat
<1>8. PICK img, one, out : img = image /\ one = Put(img, s, text) /\ out = Put(one, t, data)
  OBVIOUS
<1>9. out = image' /\ DOMAIN img = 0 .. S - 1
  BY <1>2, <1>5, <1>7, <1>8 DEF BInv, BootInv
<1>10. /\ \A a \in Nat : s <= a /\ a < s + n => LoadsOutside(a, at, "text")
       /\ \A a \in Nat : t <= a /\ a < t + m => LoadsOutside(a, at, "data")
  BY <1>2, <1>3, <1>4, <1>5, LoadsApart
<1>11. /\ n > 0 => s + n <= S
       /\ m > 0 => t + m <= S
  <2>1. ASSUME n > 0 PROVE s + n <= S
    <3>1. s + n - 1 \in Nat /\ s <= s + n - 1 /\ s + n - 1 < s + n
      BY <2>1
    <3>2. s + n - 1 < VectorTable
      BY <1>10, <3>1 DEF LoadsOutside
    <3> QED BY <1>7, <3>2
  <2>2. ASSUME m > 0 PROVE t + m <= S
    <3>1. t + m - 1 \in Nat /\ t <= t + m - 1 /\ t + m - 1 < t + m
      BY <2>2
    <3>2. t + m - 1 < VectorTable
      BY <1>10, <3>1 DEF LoadsOutside
    <3> QED BY <1>7, <3>2
  <2> QED BY <2>1, <2>2
<1>12. /\ DOMAIN one = 0 .. S - 1
       /\ s + n <= S => Holds(one, s, text, n)
       /\ \A x \in 0 .. S - 1 : Outside(x, s, n) => one[x] = img[x]
  <2>1. DOMAIN img = 0 .. S - 1 /\ Len(text) = n /\ n \in Nat
    BY <1>6, <1>9
  <2>2. PutApart(Put(img, s, text), img, S, s, text, n)
    BY <2>1, PutOutside
  <2> QED BY <1>8, <2>2 DEF PutApart
<1>13. /\ t + m <= S => Holds(out, t, data, m)
       /\ \A x \in 0 .. S - 1 : Outside(x, t, m) => out[x] = one[x]
  <2>1. DOMAIN one = 0 .. S - 1 /\ Len(data) = m /\ m \in Nat
    BY <1>6, <1>12
  <2>2. PutApart(Put(one, t, data), one, S, t, data, m)
    BY <2>1, PutOutside
  <2> QED BY <1>8, <2>2 DEF PutApart
<1>14. ASSUME NEW i \in Objs, i < at + 1
       PROVE  ObjectWritten(out, i)
  <2>1. CASE i = at
    <3>1. Holds(out, t, data, m)
      <4>1. CASE m = 0
        BY <4>1 DEF Holds
      <4> QED BY <1>11, <1>13, <4>1
    <3>2. Holds(one, s, text, n)
      <4>1. CASE n = 0
        BY <4>1 DEF Holds
      <4> QED BY <1>11, <1>12, <4>1
    <3>3. ASSUME NEW k \in 1 .. n PROVE out[s + k - 1] = one[s + k - 1]
      <4>1. PICK a \in Nat : a = s + k - 1 /\ s <= a /\ a < s + n
        OBVIOUS
      <4>2. LoadsOutside(a, at, "text")
        BY <1>10, <4>1
      <4>3. a < VectorTable /\ Outside(a, t, m)
        BY <1>2, <1>5, <4>2 DEF LoadsOutside
      <4>4. a \in 0 .. S - 1
        BY <1>7, <4>3
      <4> QED BY <1>13, <4>1, <4>3, <4>4
    <3>4. Holds(out, s, text, n)
      BY <3>2, <3>3, HoldsKept
    <3> QED BY <1>1, <1>5, <2>1, <3>1, <3>4 DEF ObjectWritten
  <2>2. CASE i # at
    <3>1. i < at
      BY <1>3, <1>4, <1>14, <2>2
    <3>2. ASSUME NEW a \in Nat, LoadsOutside(a, i, "text") \/ LoadsOutside(a, i, "data")
          PROVE  out[a] = img[a]
      <4>1. a < VectorTable /\ Outside(a, s, n) /\ Outside(a, t, m)
        BY <1>2, <1>5, <2>2, <3>2 DEF LoadsOutside
      <4>2. a \in 0 .. S - 1
        BY <1>7, <4>1
      <4> QED BY <1>12, <1>13, <4>1, <4>2
    <3>3. ObjectWritten(img, i)
      BY <1>3, <1>8, <3>1
    <3> QED BY <1>3, <1>4, <3>2, <3>3, WrittenKept
  <2> QED BY <2>1, <2>2
<1>15. \A i : ObjectWritten(out, i)' <=> ObjectWritten(out, i)
  BY <1>2, WrittenStays
<1> QED BY <1>2, <1>3, <1>9, <1>14, <1>15

\* Nothing is written before everything is placed.
LEMMA ImageWhilePlacing ==
  BInv /\ (CheckConfig \/ PlaceObject \/ PlaceText \/ PlaceRun \/ PlaceTables) => ImageInv'
<1> SUFFICES ASSUME BInv, CheckConfig \/ PlaceObject \/ PlaceText \/ PlaceRun \/ PlaceTables
             PROVE  ImageInv'
  OBVIOUS
<1>1. phase' # "linked" /\ link' = link /\ link \in Links
  BY DEF CheckConfig, PlaceObject, PlaceText, PlaceRun, PlaceTables, BInv, IInv
<1>2. phase' = "write" => at' = 1
  BY DEF CheckConfig, PlaceObject, PlaceText, PlaceRun, PlaceTables
<1>3. \A i \in Objs : ~(i < 1)
  BY <1>1, ObjectsTyped DEF Objs
<1>4. Objs' = Objs
  BY <1>1 DEF Objs
<1> QED BY <1>1, <1>2, <1>3, <1>4 DEF ImageInv

\* The tables are written apart from the load images.
LEMMA ImageWithTables == BInv /\ ImageInv /\ WriteTables => ImageInv'
<1> SUFFICES ASSUME BInv, ImageInv, WriteTables PROVE ImageInv'
  OBVIOUS
<1>1. /\ phase = "write" /\ at \notin Objs /\ phase' = "linked" /\ Placed
      /\ image' = Put(Put(Put(Put(image, table.copy, CopyTable), table.zero, ZeroTable),
                      table.init, InitTable), VectorTable, VectorWords)
      /\ UNCHANGED <<link, load_addr, run_addr, text_load, data_load, copy_records, zero_records>>
  BY DEF WriteTables, Placed
<1> SUFFICES ASSUME Separate(link), TablesWhole
             PROVE  \A i \in Objs : \A img : img = image' => ObjectWritten(img, i)'
  <2>1. TablesWhole' <=> TablesWhole
    BY <1>1 DEF TablesWhole, CopyTableSize, ZeroTableSize, InitTableSize
  <2>2. Objs' = Objs /\ (Separate(link)' <=> Separate(link))
    BY <1>1 DEF Objs
  <2> QED BY <1>1, <2>1, <2>2 DEF ImageInv
<1>2. IInv /\ RecInv /\ DOMAIN image = 0 .. Space - 1
  BY DEF BInv, BootInv
<1>3. \A i \in Objs : ObjectWritten(image, i)
  <2>1. at \in Nat \ {0} /\ \A i \in Objs : i < at => ObjectWritten(image, i)
    BY <1>1 DEF ImageInv
  <2>2. \A i \in Objs : i < at
    BY <1>1, <1>2, <2>1, ObjectsTyped DEF IInv, Objs
  <2> QED BY <2>1, <2>2
<1>4. PICK S \in Nat, v \in Nat : S = Space /\ v = VectorTable /\ v < S
  BY SpaceNat
<1>5. PICK n \in Nat, m \in Nat, l \in Nat :
         n = CopyTableSize /\ m = ZeroTableSize /\ l = InitTableSize
  BY <1>2, TableSizes
<1>6. PICK a \in Nat, b \in Nat, c \in Nat : a = table.copy /\ b = table.zero /\ c = table.init
  BY <1>1, <1>2, TablesApart
<1>7. PICK as, bs, cs, vs : as = CopyTable /\ bs = ZeroTable /\ cs = InitTable /\ vs = VectorWords
  OBVIOUS
<1>8. Len(as) = n /\ Len(bs) = m /\ Len(cs) = l /\ Len(vs) = 6
  BY <1>2, <1>5, <1>7, TableSizes
<1>9. PICK img, i1, i2, i3, out :
        /\ img = image /\ i1 = Put(img, a, as) /\ i2 = Put(i1, b, bs) /\ i3 = Put(i2, c, cs)
        /\ out = Put(i3, v, vs)
  OBVIOUS
<1>10. out = image' /\ DOMAIN img = 0 .. S - 1
  BY <1>1, <1>2, <1>4, <1>6, <1>7, <1>9
<1>11. DOMAIN i1 = 0 .. S - 1 /\ \A x \in 0 .. S - 1 : Outside(x, a, n) => i1[x] = img[x]
  <2>1. DOMAIN img = 0 .. S - 1 /\ Len(as) = n /\ n \in Nat
    BY <1>8, <1>10
  <2>2. PutApart(Put(img, a, as), img, S, a, as, n)
    BY <2>1, PutOutside
  <2> QED BY <1>9, <2>2 DEF PutApart
<1>12. DOMAIN i2 = 0 .. S - 1 /\ \A x \in 0 .. S - 1 : Outside(x, b, m) => i2[x] = i1[x]
  <2>1. DOMAIN i1 = 0 .. S - 1 /\ Len(bs) = m /\ m \in Nat
    BY <1>8, <1>11
  <2>2. PutApart(Put(i1, b, bs), i1, S, b, bs, m)
    BY <2>1, PutOutside
  <2> QED BY <1>9, <2>2 DEF PutApart
<1>13. DOMAIN i3 = 0 .. S - 1 /\ \A x \in 0 .. S - 1 : Outside(x, c, l) => i3[x] = i2[x]
  <2>1. DOMAIN i2 = 0 .. S - 1 /\ Len(cs) = l /\ l \in Nat
    BY <1>8, <1>12
  <2>2. PutApart(Put(i2, c, cs), i2, S, c, cs, l)
    BY <2>1, PutOutside
  <2> QED BY <1>9, <2>2 DEF PutApart
<1>14. \A x \in 0 .. S - 1 : Outside(x, v, 6) => out[x] = i3[x]
  <2>1. DOMAIN i3 = 0 .. S - 1 /\ Len(vs) = 6 /\ 6 \in Nat
    BY <1>8, <1>13
  <2>2. PutApart(Put(i3, v, vs), i3, S, v, vs, 6)
    BY <2>1, PutOutside
  <2> QED BY <1>9, <2>2 DEF PutApart
<1>15. ASSUME NEW i \in Objs PROVE ObjectWritten(out, i)
  <2>1. ASSUME NEW x \in Nat, LoadsOutside(x, i, "text") \/ LoadsOutside(x, i, "data")
        PROVE  out[x] = img[x]
    <3>1. x < v /\ Outside(x, a, n) /\ Outside(x, b, m) /\ Outside(x, c, l)
      BY <1>4, <1>5, <1>6, <2>1 DEF LoadsOutside
    <3>2. x \in 0 .. S - 1 /\ Outside(x, v, 6)
      BY <1>4, <3>1 DEF Outside
    <3> QED BY <1>11, <1>12, <1>13, <1>14, <3>1, <3>2
  <2>2. ObjectWritten(img, i)
    BY <1>3, <1>9
  <2> QED BY <1>1, <1>2, <2>1, <2>2, WrittenKept
<1>16. \A i : ObjectWritten(out, i)' <=> ObjectWritten(out, i)
  BY <1>1, WrittenStays
<1> QED BY <1>10, <1>15, <1>16

\* Start-up writes where a segment runs in RAM, apart from the load images.
InRun(a, p) == p \in Running /\ a \in Nat /\ run_addr[p] <= a /\ a < run_addr[p] + Segment(p).size
ByteInRun == \E p, a, b : InRun(a, p) /\ image' = [image EXCEPT ![a] = b]

\* The start-up code writes nothing but bytes of run blocks: what was loaded stays.
LEMMA ImageInStartup ==
  ASSUME BInv, ImageInv, Linked, Bootable => image' = image \/ ByteInRun
  PROVE  ImageInv'
<1>1. /\ UNCHANGED <<link, phase, load_addr, run_addr, text_load, data_load>> /\ phase = "linked"
      /\ UNCHANGED <<copy_records, zero_records>>
  BY DEF Linked
<1>2. TablesWhole' <=> TablesWhole
  BY <1>1 DEF TablesWhole, CopyTableSize, ZeroTableSize, InitTableSize
<1>3. Objs' = Objs /\ (Separate(link)' <=> Separate(link))
  BY <1>1 DEF Objs
<1> SUFFICES ASSUME Separate(link), TablesWhole
             PROVE  \A i \in Objs : \A img : img = image' => ObjectWritten(img, i)'
  BY <1>1, <1>2, <1>3 DEF ImageInv
<1>4. Bootable /\ Placed /\ IInv
  BY <1>1 DEF Bootable, Placed, BInv
<1>5. \A i \in Objs : ObjectWritten(image, i)
  BY <1>1 DEF ImageInv
<1>6. PICK img, out : img = image /\ out = image'
  OBVIOUS
<1>7. ASSUME NEW i \in Objs PROVE ObjectWritten(out, i)
  <2>1. CASE image' = image
    BY <1>5, <1>6, <2>1
  <2>2. CASE ByteInRun
    <3>1. PICK p, a, b : InRun(a, p) /\ image' = [image EXCEPT ![a] = b]
      BY <2>2 DEF ByteInRun
    <3>2. RunOutside(a, p) /\ a \in Nat
      BY <1>4, <3>1, RunsApart DEF InRun
    <3>3. \A x : x # a => out[x] = img[x]
      BY <1>6, <3>1
    <3>4. ASSUME NEW x \in Nat,
                 \/ text_load[i] <= x /\ x < text_load[i] + Length(SegsOf(i), "TEXT")
                 \/ data_load[i] <= x /\ x < data_load[i] + Length(SegsOf(i), "DATA")
          PROVE  out[x] = img[x]
      <4>1. PICK s \in Nat, n \in Nat : s = text_load[i] /\ n = Length(SegsOf(i), "TEXT")
        BY <1>4, LoadsApart
      <4>2. PICK t \in Nat, m \in Nat : t = data_load[i] /\ m = Length(SegsOf(i), "DATA")
        BY <1>4, LoadsApart
      <4>3. Outside(a, s, n) /\ Outside(a, t, m)
        BY <3>2, <4>1, <4>2 DEF RunOutside
      <4>4. x # a
        BY <3>2, <3>4, <4>1, <4>2, <4>3 DEF Outside
      <4> QED BY <3>3, <4>4
    <3> QED BY <1>4, <1>5, <1>6, <3>4, WrittenKept
  <2> QED BY <1>4, <2>1, <2>2
<1>8. \A i : ObjectWritten(out, i)' <=> ObjectWritten(out, i)
  BY <1>1, WrittenStays
<1> QED BY <1>6, <1>7, <1>8

\* A step that changes nothing keeps the loaded image.
LEMMA ImageStutter == ImageInv /\ UNCHANGED machine => ImageInv'
<1> SUFFICES ASSUME ImageInv, UNCHANGED machine PROVE ImageInv'
  OBVIOUS
<1>1. UNCHANGED <<link, phase, at, load_addr, run_addr, text_load, data_load, copy_records,
                  zero_records, image>>
  BY DEF machine, vars
<1>2. TablesWhole' <=> TablesWhole
  BY <1>1 DEF TablesWhole, CopyTableSize, ZeroTableSize, InitTableSize
<1>3. Objs' = Objs /\ (Separate(link)' <=> Separate(link))
  BY <1>1 DEF Objs
<1>4. \A img, i : ObjectWritten(img, i)' <=> ObjectWritten(img, i)
  BY <1>1, WrittenStays
<1>5. \A i : ObjectWritten(image, i)' <=> ObjectWritten(image, i)
  BY <1>1, <1>4
<1> QED BY <1>1, <1>2, <1>3, <1>5 DEF ImageInv

\* A sum grows with its length.
LEMMA TotalGrows ==
  ASSUME NEW n \in Nat, NEW f \in [1 .. n -> Nat], NEW k \in 0 .. n, NEW m \in 0 .. n, k <= m
  PROVE  Total(f, k) \in Nat /\ Total(f, m) \in Nat /\ Total(f, k) <= Total(f, m)
<1>1. Total(f, 0) = 0 /\ \A j \in 1 .. n : Total(f, j) = Total(f, j - 1) + f[j] /\ f[j] \in Nat
  BY TotalSteps
<1> DEFINE F(j) == Total(f, j)
           Good(j) == F(j) \in Nat /\ (k <= j => F(k) \in Nat /\ F(k) <= F(j))
           Bad == {j \in 0 .. n : ~Good(j)}
<1>2. F(0) = 0 /\ \A j \in 1 .. n : F(j) = F(j - 1) + f[j] /\ f[j] \in Nat
  BY <1>1
<1> HIDE DEF F
<1>3. Bad = {}
  <2> SUFFICES ASSUME Bad # {} PROVE FALSE
    OBVIOUS
  <2>1. PICK j \in Bad : \A i \in Bad : j <= i
    <3> HIDE DEF Good
    <3>1. Bad \subseteq Nat
      OBVIOUS
    <3> HIDE DEF Bad
    <3> QED BY <3>1, FirstIn
  <2>2. j \in 1 .. n
    BY <1>2
  <2>3. Good(j - 1)
    <3> HIDE DEF Good
    <3> QED BY <2>1, <2>2
  <2>4. f[j] \in Nat /\ F(j) = F(j - 1) + f[j]
    BY <1>2, <2>2
  <2>5. k <= j => k <= j - 1 \/ k = j
    BY <2>2
  <2>6. Good(j)
    BY <2>3, <2>4, <2>5
  <2> QED BY <2>6
<1>4. Good(m) /\ Good(k)
  <2> HIDE DEF Good
  <2> QED BY <1>3
<1> QED BY <1>4 DEF F

\* The addresses at which segments run are numbers.
LEMMA BaseTyped ==
  ASSUME IInv, CompleteInv, Separate(link), Placed, NEW p \in Places
  PROVE  BaseAddr(p[1], p[2]) \in Nat
<1>1. /\ p = <<p[1], p[2]>> /\ p[1] \in Objs /\ p[2] \in DOMAIN SegsOf(p[1]) /\ link \in Links
      /\ p[1] \in DOMAIN link.objects /\ p[2] \in DOMAIN link.objects[p[1]].segs
  <2>1. link \in Links
    BY DEF IInv
  <2>2. p = <<p[1], p[2]>> /\ p[1] \in Objs /\ p[2] \in 1 .. Len(SegsOf(p[1]))
    BY <2>1, PlacesAre
  <2> QED BY <2>1, <2>2, ObjectsTyped DEF Objs, SegsOf
<1>2. CASE Segment(p).segid = "TEXT"
  <2>1. load_addr[p] = LoadAddr(p[1], p[2])
    BY DEF CompleteInv
  <2>2. ImageSeg(SegsOf(p[1])[p[2]]) = "TEXT"
    BY <1>2 DEF Segment, ImageSeg
  <2>3. ImageBase(SegsOf(p[1]), p[2]) \in Nat
    BY <1>1, <2>2, ImageInBuffer DEF SegsOf
  <2>4. text_load[p[1]] \in Nat
    BY <1>1, LoadsApart
  <2>5. load_addr[p] = (text_load[p[1]] + ImageBase(SegsOf(p[1]), p[2])) % Space
    BY <2>1, <2>2 DEF LoadAddr
  <2>6. load_addr[p] \in Nat
    BY <2>3, <2>4, <2>5, SpaceNat, ModRange
  <2> QED BY <1>1, <1>2, <2>6 DEF BaseAddr, Segment
<1>3. CASE Segment(p).segid # "TEXT"
  <2>1. Packed(Blocks, link.mem, cur)
    BY DEF IInv, Packing
  <2>2. RunBlock(p) \in Blocks
    BY <1>3 DEF Blocks, RunBlock, Segment
  <2>3. RunBlock(p).from \in Nat
    BY <2>1, <2>2 DEF Packed
  <2>4. run_addr[p] \in Nat
    BY <2>3 DEF RunBlock, Block
  <2> QED BY <1>1, <1>3, <2>4 DEF BaseAddr, Segment
<1> QED BY <1>2, <1>3

\* A label inside a segment is found there, so that its global value is its address.
LEMMA OwnerIsSegment ==
  ASSUME NEW segs \in Seq(Segments), NEW k0 \in DOMAIN segs, NEW off \in Nat,
         off < segs[k0].size
  PROVE  /\ PackedBase(segs, k0) \in Nat
         /\ Owner(segs, [k \in DOMAIN segs |-> PackedBase(segs, k)], segs[k0].segid,
                  PackedBase(segs, k0) + off) = k0
<1>1. PICK n \in Nat : n = Len(segs) /\ DOMAIN segs = 1 .. n
  OBVIOUS
<1>2. \A j \in DOMAIN segs : segs[j] \in Segments
  OBVIOUS
<1>3. \A j \in DOMAIN segs : segs[j].size \in Nat /\ segs[j].segid \in SegIds
  BY <1>2 DEF Segments
<1> DEFINE with(j) == IF segs[k0].segid = "ZP" THEN segs[j].segid = "ZP"
                      ELSE ImageSeg(segs[j]) = ImageSeg(segs[k0])
           g == [j \in DOMAIN segs |-> IF with(j) THEN segs[j].size ELSE 0]
           base == [k \in DOMAIN segs |-> PackedBase(segs, k)]
           segid == segs[k0].segid
           v == PackedBase(segs, k0) + off
<1>4. \A k \in DOMAIN segs : segs[k].segid = segid => PackedBase(segs, k) = Total(g, k - 1) /\ with(k)
  <2> TAKE k \in DOMAIN segs
  <2> SUFFICES ASSUME segs[k].segid = segid PROVE PackedBase(segs, k) = Total(g, k - 1) /\ with(k)
    OBVIOUS
  <2>1. CASE segid = "ZP"
    BY <2>1 DEF PackedBase, Behind
  <2>2. CASE segid # "ZP"
    <3>1. ImageSeg(segs[k]) = ImageSeg(segs[k0])
      BY <2>2 DEF ImageSeg
    <3> QED BY <2>2, <3>1 DEF PackedBase, Behind
  <2> QED BY <2>1, <2>2
<1>5. g \in [1 .. n -> Nat]
  <2>1. \A j \in 1 .. n : g[j] \in Nat
    BY <1>1, <1>3
  <2>2. g = [j \in 1 .. n |-> g[j]]
    BY <1>1
  <2> HIDE DEF g
  <2> QED BY <2>1, <2>2
<1>6. \A k \in DOMAIN segs : segs[k].segid = segid => g[k] = segs[k].size
  BY <1>4
<1> HIDE DEF g, with
<1>7. ASSUME NEW k \in DOMAIN segs, segs[k].segid = segid
      PROVE  /\ PackedBase(segs, k) \in Nat /\ segs[k].size \in Nat
             /\ PackedBase(segs, k) = Total(g, k - 1)
             /\ PackedBase(segs, k) + segs[k].size = Total(g, k)
  <2>1. k \in 1 .. n /\ k - 1 \in 0 .. n /\ k \in 0 .. n /\ k - 1 <= k /\ k \in Nat \ {0}
    BY <1>1
  <2>2. Total(g, k - 1) \in Nat
    BY <1>5, <2>1, TotalGrows
  <2>3. Total(g, k) = Total(g, k - 1) + g[k]
    BY <2>1, TotalSteps
  <2> QED BY <1>3, <1>4, <1>6, <1>7, <2>2, <2>3
<1>8. ASSUME NEW k \in DOMAIN segs, segs[k].segid = segid, base[k] <= v,
             v < base[k] + segs[k].size
      PROVE  k = k0
  <2>1. k \in 1 .. n /\ k0 \in 1 .. n /\ segs[k0].segid = segid
    BY <1>1
  <2>2. /\ PackedBase(segs, k) \in Nat /\ PackedBase(segs, k) = Total(g, k - 1)
        /\ PackedBase(segs, k) + segs[k].size = Total(g, k)
    BY <1>7, <1>8
  <2>3. /\ PackedBase(segs, k0) \in Nat /\ PackedBase(segs, k0) = Total(g, k0 - 1)
        /\ PackedBase(segs, k0) + segs[k0].size = Total(g, k0)
    BY <1>7, <2>1
  <2>4. Total(g, k - 1) <= v /\ v < Total(g, k) /\ Total(g, k0 - 1) <= v /\ v < Total(g, k0)
        /\ v \in Nat
    BY <1>3, <1>8, <2>2, <2>3
  <2>5. CASE k < k0
    <3>1. k \in 0 .. n /\ k0 - 1 \in 0 .. n /\ k <= k0 - 1
      BY <2>1, <2>5
    <3>2. Total(g, k) \in Nat /\ Total(g, k0 - 1) \in Nat /\ Total(g, k) <= Total(g, k0 - 1)
      BY <1>5, <3>1, TotalGrows
    <3> HIDE DEF v
    <3> QED BY <2>4, <3>2
  <2>6. CASE k0 < k
    <3>1. k0 \in 0 .. n /\ k - 1 \in 0 .. n /\ k0 <= k - 1
      BY <2>1, <2>6
    <3>2. Total(g, k0) \in Nat /\ Total(g, k - 1) \in Nat /\ Total(g, k0) <= Total(g, k - 1)
      BY <1>5, <3>1, TotalGrows
    <3> HIDE DEF v
    <3> QED BY <2>4, <3>2
  <2> QED BY <2>1, <2>5, <2>6
<1>9. PackedBase(segs, k0) \in Nat /\ segs[k0].size \in Nat
  BY <1>7
<1>10. base[k0] <= v /\ v < base[k0] + segs[k0].size
  BY <1>9
<1> DEFINE inside == {k \in {j \in DOMAIN segs : segs[j].segid = segid} :
                        base[k] <= v /\ v < base[k] + segs[k].size}
<1> HIDE DEF base, v
<1>11. inside = {k0}
  BY <1>8, <1>10
<1>12. Min(inside) = k0
  <2>1. k0 \in Int
    BY <1>1
  <2> HIDE DEF inside
  <2> QED BY <1>11, <2>1 DEF Min
<1>13. Owner(segs, base, segid, v) = k0
  <2>1. inside # {}
    BY <1>11
  <2>2. Owner(segs, base, segid, v) =
          IF inside # {} THEN Min(inside)
          ELSE LET ending == {k \in {j \in DOMAIN segs : segs[j].segid = segid} : v = base[k] + segs[k].size}
               IN  IF ending # {} THEN Max(ending) ELSE 0
    BY DEF Owner
  <2> HIDE DEF inside
  <2> QED BY <1>12, <2>1, <2>2
<1> QED BY <1>9, <1>13 DEF base, v

\* The address the linker computes for an init label is the label's address.
LEMMA GlobalIsTruth ==
  ASSUME IInv, CompleteInv, Separate(link), Placed,
         NEW x \in Labels, IsLabel(link, x), Inside(x, 0)
  PROVE  Global(x) = Truth(x) /\ Truth(x) \in 0 .. Space - 1
<1>1. /\ x.obj \in Objs /\ x.seg \in DOMAIN SegsOf(x.obj) /\ x.off \in Nat /\ link \in Links
  BY DEF IsLabel, Objs, SegsOf, Labels, IInv
<1>2. PICK off \in Nat, i \in Objs, k \in DOMAIN SegsOf(x.obj) :
         i = x.obj /\ k = x.seg /\ off = x.off
  BY <1>1
<1>3. i \in Objs /\ k \in DOMAIN SegsOf(i) /\ SegsOf(i) \in Seq(Segments)
  BY <1>1, <1>2, ObjectsTyped DEF Objs, SegsOf
<1>4. off < SegsOf(i)[k].size
  BY <1>2 DEF Inside
<1>5. /\ PackedBase(SegsOf(i), k) \in Nat
      /\ MappedTo(i, SegsOf(i)[k].segid, PackedBase(SegsOf(i), k) + off) = k
  BY <1>3, <1>4, OwnerIsSegment DEF MappedTo
<1>6. BaseAddr(i, k) \in Nat
  <2>1. <<i, k>> \in Places
    BY <1>3 DEF Places
  <2>2. PICK p \in Places : p = <<i, k>>
    BY <2>1
  <2>3. BaseAddr(p[1], p[2]) \in Nat
    BY BaseTyped
  <2> QED BY <2>2, <2>3
<1>7. PICK b \in Nat, q \in Nat : b = BaseAddr(i, k) /\ q = PackedBase(SegsOf(i), k)
  BY <1>5, <1>6
<1>8. Global(x) = AddrIn(i, k, q + off)
  BY <1>2, <1>5, <1>7 DEF Global, RuntimeAddr, SegIdOf, PackedValue
<1>9. b + (q + off) - q = b + off
  OBVIOUS
<1>10. Global(x) = (b + off) % Space
  BY <1>7, <1>8, <1>9 DEF AddrIn
<1>11. Truth(x) = (b + off) % Space
  BY <1>2, <1>7 DEF Truth
<1>12. (b + off) % Space \in 0 .. Space - 1
  <2>1. \A S \in Nat \ {0} : \A w \in Nat : w % S \in 0 .. S - 1
    OBVIOUS
  <2> QED BY <2>1, SpaceNat
<1> QED BY <1>10, <1>11, <1>12

\* Words that are held at an address are read there.
LEMMA WordsHeld ==
  ASSUME NEW img, NEW a \in Nat, NEW ws, NEW n \in Nat, Len(ws) = n,
         Holds(img, a, Words(ws), 2 * n), a + 2 * n <= VectorTable
  PROVE  \A k \in 1 .. n : Reads(img, a + 2 * (k - 1), ws[k])
<1> SUFFICES ASSUME NEW k \in 1 .. n, ws[k] \in 0 .. Space - 1
             PROVE  WordIn(img, a + 2 * (k - 1)) = ws[k]
  BY DEF Reads
<1>1. PICK S \in Nat : S = Space /\ VectorTable = S - 6
  BY SpaceNat DEF VectorTable
<1>2. PICK x \in Nat : x = a + 2 * (k - 1) /\ x + 1 < S
  <2>1. a + 2 * (k - 1) \in Nat /\ a + 2 * (k - 1) + 1 < S
    BY <1>1
  <2> QED BY <2>1
<1>3. x % S = x /\ (x + 1) % S = x + 1
  <2>1. x \in 0 .. S - 1 /\ x + 1 \in 0 .. S - 1
    BY <1>2
  <2> QED BY <2>1, ModSmall
<1>4. Words(ws)[2 * k - 1] = Low(ws[k]) /\ Words(ws)[2 * k] = High(ws[k])
  BY WordsAre
<1>5. img[x] = Low(ws[k]) /\ img[x + 1] = High(ws[k])
  <2>1. 2 * k - 1 \in 1 .. 2 * n /\ 2 * k \in 1 .. 2 * n
    OBVIOUS
  <2>2. x = a + (2 * k - 1) - 1 /\ x + 1 = a + (2 * k) - 1
    BY <1>2
  <2>3. img[a + (2 * k - 1) - 1] = Words(ws)[2 * k - 1] /\ img[a + (2 * k) - 1] = Words(ws)[2 * k]
    BY <2>1 DEF Holds
  <2> QED BY <1>4, <2>2, <2>3
<1>6. WordIn(img, x) = ws[k]
  BY <1>1, <1>3, <1>5, Decode DEF WordIn
<1> QED BY <1>2, <1>6

\* build_rom_image writes the table of init functions, and only the vectors after it.
LEMMA InitTableWritten ==
  ASSUME BInv, Separate(link), TablesWhole, WriteTables
  PROVE  \A img : img = image' => Holds(img, table.init, InitTable, InitTableSize)
<1>1. /\ Placed
      /\ image' = Put(Put(Put(Put(image, table.copy, CopyTable), table.zero, ZeroTable),
                      table.init, InitTable), VectorTable, VectorWords)
  BY DEF WriteTables, Placed
<1>2. IInv /\ RecInv /\ DOMAIN image = 0 .. Space - 1
  BY DEF BInv, BootInv
<1>3. PICK S \in Nat, v \in Nat : S = Space /\ v = VectorTable /\ v < S
  BY SpaceNat
<1>4. PICK l \in Nat, c \in Nat : l = InitTableSize /\ c = table.init /\ c + l <= v
  BY <1>1, <1>2, <1>3, TableSizes, TablesApart
<1>5. PICK cs, vs, old, out :
        /\ cs = InitTable /\ vs = VectorWords
        /\ old = Put(Put(image, table.copy, CopyTable), table.zero, ZeroTable)
        /\ out = Put(Put(old, c, cs), v, vs)
  OBVIOUS
<1>6. out = image' /\ DOMAIN old = 0 .. S - 1
  <2>1. \A img, from, bytes : DOMAIN Put(img, from, bytes) = DOMAIN img
    BY DEF Put
  <2>2. DOMAIN old = 0 .. S - 1
    BY <1>2, <1>3, <1>5, <2>1
  <2> QED BY <1>1, <1>3, <1>4, <1>5, <2>2
<1>7. Len(cs) = l /\ Len(vs) = 6
  BY <1>2, <1>4, <1>5, TableSizes
<1>8. PICK mid : mid = Put(old, c, cs)
  OBVIOUS
<1>9. Holds(mid, c, cs, l) /\ DOMAIN mid = 0 .. S - 1
  <2>1. PutApart(Put(old, c, cs), old, S, c, cs, l)
    BY <1>6, <1>7, PutOutside
  <2> QED BY <1>3, <1>4, <1>8, <2>1 DEF PutApart
<1>10. PutApart(out, mid, S, v, vs, 6)
  <2>1. Len(vs) = 6 /\ 6 \in Nat
    BY <1>7
  <2>2. PutApart(Put(mid, v, vs), mid, S, v, vs, 6)
    BY <1>9, <2>1, PutOutside
  <2> QED BY <1>5, <1>8, <2>2
<1>11. ASSUME NEW k \in 1 .. l PROVE out[c + k - 1] = mid[c + k - 1]
  <2>1. c + k - 1 \in 0 .. S - 1 /\ c + k - 1 < v
    BY <1>3, <1>4
  <2>2. Outside(c + k - 1, v, 6)
    BY <2>1 DEF Outside
  <2> QED BY <1>10, <2>1, <2>2 DEF PutApart
<1>12. Holds(out, c, cs, l)
  BY <1>9, <1>11, HoldsKept
<1> QED BY <1>4, <1>5, <1>6, <1>12

\* What the table of init functions must hold depends on the layout only.
InitWords == Append([k \in DOMAIN link.inits |-> Global(link.inits[k])], 0)

\* The init table has one word per init function and a zero word to end it.
LEMMA InitsAre ==
  ASSUME IInv
  PROVE  /\ Len(link.inits) \in Nat /\ DOMAIN link.inits = 1 .. Len(link.inits)
         /\ \A k \in 1 .. Len(link.inits) : link.inits[k] \in Labels /\ IsLabel(link, link.inits[k])
         /\ Len(InitWords) = Len(link.inits) + 1 /\ InitTable = Words(InitWords)
         /\ \A k \in 1 .. Len(link.inits) : InitWords[k] = Global(link.inits[k])
         /\ InitWords[Len(link.inits) + 1] = 0
<1>1. link.inits \in Seq(Labels) /\ \A k \in DOMAIN link.inits : IsLabel(link, link.inits[k])
  BY LinksAssumption DEF IInv, WellFormed
<1>2. PICK n \in Nat, x \in Seq(Labels) : x = link.inits /\ n = Len(x) /\ DOMAIN x = 1 .. n
  BY <1>1
<1>3. \A k \in 1 .. n : x[k] \in Labels
  BY <1>1, <1>2
<1>4. PICK g : g = [k \in DOMAIN link.inits |-> Global(link.inits[k])]
  OBVIOUS
<1>5. IsSeq(g) /\ Len(g) = n
  <2>1. \A f : IsSeq([k \in 1 .. n |-> f[k]]) /\ Len([k \in 1 .. n |-> f[k]]) = n
    BY DEF IsSeq
  <2>2. g = [k \in 1 .. n |-> g[k]]
    BY <1>2, <1>4
  <2> QED BY <2>1, <2>2
<1>6. /\ Len(Append(g, 0)) = n + 1 /\ \A k \in 1 .. n : Append(g, 0)[k] = g[k]
      /\ Append(g, 0)[n + 1] = 0
  BY <1>5, AppendIs
<1>7. InitWords = Append(g, 0) /\ InitTable = Words(Append(g, 0))
  BY <1>4 DEF InitWords, InitTable
<1>8. \A k \in 1 .. n : g[k] = Global(link.inits[k])
  BY <1>2, <1>4
<1> QED BY <1>1, <1>2, <1>3, <1>6, <1>7, <1>8

\* What the init table says does not change after the link.
LEMMA InitsStay ==
  ASSUME UNCHANGED <<link, table, load_addr, run_addr>>
  PROVE  /\ \A x : Truth(x)' = Truth(x)
         /\ \A img : InitsTabled(img)' <=> InitsTabled(img)
<1>1. \A x : Truth(x)' = Truth(x)
  BY DEF Truth, BaseAddr, SegsOf
<1>2. \A x : Inside(x, 0)' <=> Inside(x, 0)
  BY DEF Inside, SegsOf
<1> QED BY <1>1, <1>2 DEF InitsTabled

\* After WriteTables the init table holds the addresses of the init functions.
LEMMA InitsWritten ==
  ASSUME BInv, CompleteInv, Separate(link), TablesWhole, WriteTables
  PROVE  \A img : img = image' => InitsTabled(img)
<1>1. IInv /\ RecInv /\ Placed
  BY DEF BInv, WriteTables, Placed
<1>2. PICK n \in Nat : n = Len(link.inits) /\ InitTableSize = 2 * (n + 1)
  BY <1>1, InitsAre DEF TablesWhole
<1>3. PICK c \in Nat : c = table.init /\ c + 2 * (n + 1) <= VectorTable
  BY <1>1, <1>2, TablesApart
<1>4. PICK ws : ws = InitWords
  OBVIOUS
<1>5. Len(ws) = n + 1 /\ n + 1 \in Nat /\ ws[n + 1] = 0
  BY <1>1, <1>2, <1>4, InitsAre
<1> TAKE img
<1> SUFFICES ASSUME img = image' PROVE InitsTabled(img)
  OBVIOUS
<1>6. Holds(img, c, Words(ws), 2 * (n + 1))
  BY <1>1, <1>2, <1>3, <1>4, InitsAre, InitTableWritten
<1>7. \A k \in 1 .. n + 1 : Reads(img, c + 2 * (k - 1), ws[k])
  BY <1>3, <1>5, <1>6, WordsHeld
<1>8. ASSUME NEW k \in 1 .. n, Inside(link.inits[k], 0)
      PROVE  WordIn(img, c + 2 * (k - 1)) = Truth(link.inits[k])
  <2>1. PICK x : x = link.inits[k]
    OBVIOUS
  <2>2. x \in Labels /\ IsLabel(link, x)
    BY <1>1, <1>2, <2>1, InitsAre
  <2>3. Global(x) = Truth(x) /\ Truth(x) \in 0 .. Space - 1
    BY <1>1, <1>8, <2>1, <2>2, GlobalIsTruth
  <2>4. ws[k] = Truth(x)
    BY <1>1, <1>2, <1>4, <2>1, <2>3, InitsAre
  <2>5. Reads(img, c + 2 * (k - 1), ws[k])
    BY <1>7
  <2> QED BY <2>1, <2>3, <2>4, <2>5 DEF Reads
<1>9. WordIn(img, c + 2 * n) = 0
  <2>1. Reads(img, c + 2 * ((n + 1) - 1), ws[n + 1])
    BY <1>7
  <2>2. 0 \in 0 .. Space - 1
    BY SpaceNat
  <2>3. (n + 1) - 1 = n
    OBVIOUS
  <2> QED BY <1>5, <2>1, <2>2, <2>3 DEF Reads
<1> QED BY <1>2, <1>3, <1>8, <1>9 DEF InitsTabled

\* A byte that is written elsewhere leaves the table as it is.
LEMMA InitsKept ==
  ASSUME BInv, Bootable, InitsTabled(image), NEW a \in Nat, NEW b,
         Outside(a, table.init, InitTableSize)
  PROVE  \A img : img = [image EXCEPT ![a] = b] => InitsTabled(img)
<1>1. IInv /\ RecInv /\ Placed /\ Separate(link) /\ TablesWhole
  BY DEF BInv, Bootable, Placed
<1>2. PICK n \in Nat : n = Len(link.inits) /\ InitTableSize = 2 * (n + 1)
  BY <1>1, InitsAre DEF TablesWhole
<1>3. PICK S \in Nat, v \in Nat : S = Space /\ v = VectorTable /\ v < S
  BY SpaceNat
<1>4. PICK c \in Nat : c = table.init /\ c + 2 * (n + 1) <= v
  BY <1>1, <1>2, <1>3, TablesApart
<1> TAKE img
<1> SUFFICES ASSUME img = [image EXCEPT ![a] = b] PROVE InitsTabled(img)
  OBVIOUS
<1>5. \A x : x # a => img[x] = image[x]
  OBVIOUS
<1>6. a < c \/ c + 2 * (n + 1) <= a
  BY <1>2, <1>4 DEF Outside
<1>7. ASSUME NEW k \in 0 .. n PROVE WordIn(img, c + 2 * k) = WordIn(image, c + 2 * k)
  <2>1. PICK x \in Nat : /\ x = c + 2 * k /\ x \in 0 .. S - 1 /\ x + 1 \in 0 .. S - 1
                         /\ x # a /\ x + 1 # a
    <3>1. PICK x \in Nat : x = c + 2 * k
      OBVIOUS
    <3>2. c <= x /\ x + 1 < c + 2 * (n + 1)
      BY <3>1
    <3>3. x \in 0 .. S - 1 /\ x + 1 \in 0 .. S - 1
      BY <1>3, <1>4, <3>2
    <3>4. x # a /\ x + 1 # a
      BY <1>6, <3>2
    <3> QED BY <3>1, <3>3, <3>4
  <2>2. x % S = x /\ (x + 1) % S = x + 1
    BY <2>1, ModSmall
  <2>3. img[x] = image[x] /\ img[x + 1] = image[x + 1]
    BY <1>5, <2>1
  <2>4. WordIn(img, x) = WordIn(image, x)
    BY <1>3, <2>2, <2>3 DEF WordIn
  <2> QED BY <2>1, <2>4
<1>8. \A k \in 1 .. n : WordIn(img, c + 2 * (k - 1)) = WordIn(image, c + 2 * (k - 1))
  <2> TAKE k \in 1 .. n
  <2>1. k - 1 \in 0 .. n
    OBVIOUS
  <2> QED BY <1>7, <2>1
<1>9. WordIn(img, c + 2 * n) = WordIn(image, c + 2 * n)
  <2>1. n \in 0 .. n
    OBVIOUS
  <2> QED BY <1>7, <2>1
<1> QED BY <1>2, <1>4, <1>8, <1>9 DEF InitsTabled

\* The segment of a record.
CopiedAt(e, q) == q \in Places /\ Copied(q) /\ e = CopyRow(q)
ZeroedAt(e, q) == q \in Places /\ Zeroed(q) /\ e = ZeroRow(q)

\* Every row of the copy and zero tables is of one placed segment, and every such segment has a row.
LEMMA RowsAre ==
  ASSUME BInv, CompleteInv, Bootable
  PROVE  /\ Len(copy_records) \in Nat /\ Len(zero_records) \in Nat
         /\ \A k \in 1 .. Len(copy_records) : \E q : CopiedAt(CopyList[k], q)
         /\ \A k \in 1 .. Len(zero_records) : \E q : ZeroedAt(ZeroList[k], q)
         /\ \A q \in Places : Copied(q) =>
              \E k \in 1 .. Len(copy_records) : CopyList[k] = CopyRow(q)
         /\ \A q \in Places : Zeroed(q) =>
              \E k \in 1 .. Len(zero_records) : ZeroList[k] = ZeroRow(q)
<1>1. /\ \A p \in Places : /\ Copied(p) => CopyRow(p) \in Members(copy_records)
                           /\ Zeroed(p) => ZeroRow(p) \in Members(zero_records)
      /\ \A e \in Members(copy_records) : \E p \in Places : Copied(p) /\ e = CopyRow(p)
      /\ \A e \in Members(zero_records) : \E p \in Places : Zeroed(p) /\ e = ZeroRow(p)
  BY DEF CompleteInv, Bootable, Placed
<1>2. IsSeq(copy_records) /\ IsSeq(zero_records)
      /\ Len(copy_records) \in Nat /\ Len(zero_records) \in Nat
  BY DEF BInv, IInv, Records, IsSeq
<1>3. /\ \A k \in 1 .. Len(copy_records) : CopyList[k] = copy_records[k]
      /\ \A k \in 1 .. Len(zero_records) : ZeroList[k] = zero_records[k]
  BY <1>2, AppendIs DEF CopyList, ZeroList
<1>4. /\ \A k \in 1 .. Len(copy_records) : \E q : CopiedAt(CopyList[k], q)
      /\ \A k \in 1 .. Len(zero_records) : \E q : ZeroedAt(ZeroList[k], q)
  BY <1>1, <1>3 DEF Members, CopiedAt, ZeroedAt
<1>5. /\ \A q \in Places : Copied(q) =>
              \E k \in 1 .. Len(copy_records) : CopyList[k] = CopyRow(q)
      /\ \A q \in Places : Zeroed(q) =>
              \E k \in 1 .. Len(zero_records) : ZeroList[k] = ZeroRow(q)
  BY <1>1, <1>3 DEF Members
<1> QED BY <1>2, <1>4, <1>5

\* The image of a copied segment lies in the load image of its object.
CopyLies(q, i, k) ==
  /\ q \in Running /\ load_addr[q] \in Nat /\ run_addr[q] \in Nat
  /\ Segment(q).size \in Nat \ {0} /\ i \in Objs
  /\ ImageBase(SegsOf(i), k) \in Nat /\ data_load[i] \in Nat
  /\ Length(SegsOf(i), "DATA") \in Nat
  /\ load_addr[q] = data_load[i] + ImageBase(SegsOf(i), k)
  /\ ImageBase(SegsOf(i), k) + Segment(q).size <= Length(SegsOf(i), "DATA")
  /\ load_addr[q] + Segment(q).size <= VectorTable
  /\ run_addr[q] + Segment(q).size <= VectorTable

\* The run block of a segment ends below the vectors.
LEMMA RunLies ==
  ASSUME IInv, Separate(link), Placed, NEW q \in Running, Segment(q).size > 0
  PROVE  run_addr[q] \in Nat /\ run_addr[q] + Segment(q).size <= VectorTable
<1>1. RunBlock(q) \in Blocks
  BY DEF Blocks, Running, RunBlock, Segment
<1>2. RunBlock(q).from = run_addr[q] /\ RunBlock(q).size = Segment(q).size
  BY DEF RunBlock, Block
<1>3. Packed(Blocks, link.mem, cur)
  BY DEF IInv, Packing
<1>4. RunBlock(q).from \in Nat
  BY <1>1, <1>3 DEF Packed
<1>5. RunBlock(q).from + RunBlock(q).size <= VectorTable
  BY <1>1, <1>2, PackedIsDisjoint DEF BlocksDisjoint
<1> QED BY <1>2, <1>4, <1>5

\* The load bytes of a copied segment are part of the load block of its object.
LEMMA CopyLiesIn ==
  ASSUME IInv, CompleteInv, Separate(link), Placed, NEW q \in Places, Copied(q)
  PROVE  CopyLies(q, q[1], q[2])
<1>1. PICK i, k : i = q[1] /\ k = q[2]
  OBVIOUS
<1>2. link \in Links
  BY DEF IInv
<1>3. /\ i \in Objs /\ k \in 1 .. Len(SegsOf(i)) /\ Segment(q) = SegsOf(i)[k]
      /\ Segment(q).size \in Nat
  BY <1>1, <1>2, PlacesAre DEF Segment
<1>4. SegsOf(i) \in Seq(Segments)
  BY <1>2, <1>3, ObjectsTyped DEF SegsOf, Objs
<1>5. k \in DOMAIN SegsOf(i)
  BY <1>3, <1>4
<1>6. /\ Segment(q).segid # "TEXT" /\ ImageSeg(SegsOf(i)[k]) = "DATA" /\ Segment(q).size > 0
  BY <1>3 DEF Copied
<1>7. q \in Running
  BY <1>6 DEF Running
<1>8. run_addr[q] \in Nat /\ run_addr[q] + Segment(q).size <= VectorTable
  BY <1>6, <1>7, RunLies
<1>9. PICK n \in Nat : n = Segment(q).size /\ n > 0
  BY <1>3, <1>6
<1>10. PICK m \in Nat : m = Length(SegsOf(i), "DATA")
  BY <1>3, LoadsApart
<1>11. PICK t \in Nat : t = data_load[i]
  BY <1>3, LoadsApart
<1>12. PICK b \in Nat : b = ImageBase(SegsOf(i), k) /\ b + n <= m
  <2>1. i \in DOMAIN link.objects /\ k \in DOMAIN link.objects[i].segs
        /\ ImageSeg(link.objects[i].segs[k]) = "DATA" /\ "DATA" \in {"TEXT", "DATA"}
    BY <1>3, <1>5, <1>6 DEF Objs, SegsOf
  <2>2. /\ ImageBase(link.objects[i].segs, k) \in Nat
        /\ ImageBase(link.objects[i].segs, k) + link.objects[i].segs[k].size
              <= Length(link.objects[i].segs, "DATA")
    BY <1>2, <2>1, ImageInBuffer
  <2> QED BY <1>3, <1>9, <1>10, <2>2 DEF SegsOf
<1>13. PICK v \in Nat, S \in Nat : v = VectorTable /\ S = Space /\ v < S
  BY SpaceNat
<1>14. t + m <= v
  <2>1. t + m - 1 \in Nat /\ t <= t + m - 1 /\ t + m - 1 < t + m
    BY <1>9, <1>12
  <2>2. LoadsOutside(t + m - 1, i, "data")
    BY <1>3, <1>10, <1>11, <2>1, LoadsApart
  <2>3. t + m - 1 < v
    BY <1>13, <2>2 DEF LoadsOutside
  <2> QED BY <2>1, <2>3
<1>15. load_addr[q] = t + b
  <2>1. load_addr[q] = LoadAddr(i, k)
    BY <1>1 DEF CompleteInv
  <2>2. LoadAddr(i, k) = (t + b) % S
    BY <1>6, <1>11, <1>12, <1>13 DEF LoadAddr
  <2>3. t + b \in 0 .. S - 1
    BY <1>9, <1>12, <1>13, <1>14
  <2> QED BY <1>13, <2>1, <2>2, <2>3, ModSmall
<1>16. t + b \in Nat /\ (t + b) + n <= v
  BY <1>12, <1>13, <1>14
<1>17. CopyLies(q, i, k)
  BY <1>3, <1>7, <1>8, <1>9, <1>10, <1>11, <1>12, <1>13, <1>15, <1>16 DEF CopyLies
<1> QED BY <1>1, <1>17

\* A byte that start-up writes is no byte of an image that is still to be copied, and
\* is a byte of one segment only.
CopyApart(q, p, a) ==
  \A o \in 0 .. Segment(q).size - 1 :
    /\ load_addr[q] + o # a
    /\ run_addr[q] + o = a => q = p
\* No byte of a run block is a load byte of a copied segment.
LEMMA CopiesApart ==
  ASSUME IInv, CompleteInv, Separate(link), Placed, NEW q \in Places, Copied(q),
         NEW p, NEW a, InRun(a, p)
  PROVE  CopyApart(q, p, a)
<1>1. PICK i, k : i = q[1] /\ k = q[2] /\ CopyLies(q, i, k)
  BY CopyLiesIn
<1>2. RunOutside(a, p) /\ a \in Nat
  BY RunsApart DEF InRun
<1>3. PICK n \in Nat, l \in Nat, r \in Nat, t \in Nat, b \in Nat, m \in Nat :
        /\ n = Segment(q).size /\ l = load_addr[q] /\ r = run_addr[q] /\ l = t + b /\ b + n <= m
        /\ t = data_load[i] /\ m = Length(SegsOf(i), "DATA")
  BY <1>1 DEF CopyLies
<1>4. Outside(a, t, m)
  BY <1>1, <1>2, <1>3 DEF RunOutside, CopyLies
<1>5. q # p => Outside(a, r, n)
  BY <1>1, <1>2, <1>3 DEF RunOutside, CopyLies
<1>6. ASSUME NEW o \in 0 .. n - 1
      PROVE  l + o # a /\ (r + o = a => q = p)
  <2>1. l + o # a
    BY <1>2, <1>3, <1>4 DEF Outside
  <2>2. ASSUME q # p PROVE r + o # a
    BY <1>2, <1>5, <2>2 DEF Outside
  <2> QED BY <2>1, <2>2
<1> QED BY <1>3, <1>6 DEF CopyApart

\* What is copied already stays so.
LEMMA CopyKept ==
  ASSUME BInv, CompleteInv, Bootable, NEW e, NEW q, CopiedAt(e, q),
         NEW n \in Nat, n <= e[3], CopyOf(image, e, n),
         NEW p, NEW a, InRun(a, p), NEW b,
         q = p => \A o \in 0 .. n - 1 : e[2] + o = a => b = image[e[1] + o]
  PROVE  \A img : img = [image EXCEPT ![a] = b] => CopyOf(img, e, n)
<1>1. IInv /\ Separate(link) /\ Placed
  BY DEF BInv, Bootable, Placed
<1>2. /\ q \in Places /\ Copied(q)
      /\ e[1] = load_addr[q] /\ e[2] = run_addr[q] /\ e[3] = Segment(q).size
  BY DEF CopiedAt, CopyRow
<1>3. CopyLies(q, q[1], q[2]) /\ CopyApart(q, p, a)
  BY <1>1, <1>2, CopyLiesIn, CopiesApart
<1>4. PICK l \in Nat, r \in Nat, m \in Nat : l = e[1] /\ r = e[2] /\ m = e[3]
  BY <1>2, <1>3 DEF CopyLies
<1>5. \A o \in 0 .. m - 1 : l + o # a /\ (r + o = a => q = p)
  BY <1>2, <1>3, <1>4 DEF CopyApart
<1>6. \A x \in 0 .. Space - 1 : x # a => [image EXCEPT ![a] = b][x] = image[x]
  BY DEF BInv, BootInv
<1> TAKE img
<1> SUFFICES ASSUME img = [image EXCEPT ![a] = b] PROVE CopyOf(img, e, n)
  OBVIOUS
<1>7. ASSUME NEW o \in 0 .. n - 1
      PROVE  img[r + o] = img[l + o]
  <2>1. o \in 0 .. m - 1
    BY <1>4
  <2>2. image[r + o] = image[l + o]
    BY <1>4 DEF CopyOf
  <2>3. img[l + o] = image[l + o]
    BY <1>5, <2>1
  <2>4. CASE r + o # a
    BY <2>2, <2>3, <2>4
  <2>5. CASE r + o = a
    <3>1. b = image[l + o]
      BY <1>4, <1>5, <2>1, <2>5
    <3>2. a \in DOMAIN image
      <4>1. DOMAIN image = 0 .. Space - 1
        BY DEF BInv, BootInv
      <4>2. RunOutside(a, p) /\ a \in Nat
        BY <1>1, RunsApart DEF InRun
      <4>3. PICK v \in Nat, S \in Nat : v = VectorTable /\ S = Space /\ v < S
        BY SpaceNat
      <4> QED BY <4>1, <4>2, <4>3 DEF RunOutside
    <3>3. img[a] = b
      BY <3>2
    <3> QED BY <2>3, <2>5, <3>1, <3>3
  <2> QED BY <2>4, <2>5
<1> QED BY <1>4, <1>7 DEF CopyOf

\* The byte the copy loop writes is a byte of the run block of the row it is at.
LEMMA ByteOfRun ==
  ASSUME BInv, CompleteInv, Bootable, NEW e, NEW q, CopiedAt(e, q), NEW d \in Nat, d < e[3]
  PROVE  /\ InRun(e[2] + d, q) /\ e[2] + d \in DOMAIN image
         /\ e[1] \in Nat /\ e[2] \in Nat /\ e[3] \in Nat \ {0}
         /\ e[1] + e[3] <= VectorTable /\ e[2] + e[3] <= VectorTable
         /\ e[1] = load_addr[q] /\ e[2] = run_addr[q] /\ e[3] = Segment(q).size
<1>1. IInv /\ Separate(link) /\ Placed /\ DOMAIN image = 0 .. Space - 1
  BY DEF BInv, Bootable, Placed, BootInv
<1>2. /\ q \in Places /\ Copied(q)
      /\ e[1] = load_addr[q] /\ e[2] = run_addr[q] /\ e[3] = Segment(q).size
  BY DEF CopiedAt, CopyRow
<1>3. CopyLies(q, q[1], q[2])
  BY <1>1, <1>2, CopyLiesIn
<1>4. PICK l \in Nat, r \in Nat, m \in Nat \ {0}, v \in Nat, S \in Nat :
         /\ l = e[1] /\ r = e[2] /\ m = e[3] /\ v = VectorTable /\ S = Space /\ v < S
         /\ l + m <= v /\ r + m <= v /\ q \in Running
  BY <1>2, <1>3, SpaceNat DEF CopyLies
<1>5. r + d \in Nat /\ r <= r + d /\ r + d < r + m /\ r + d \in 0 .. S - 1
  BY <1>4
<1>6. InRun(r + d, q)
  BY <1>2, <1>4, <1>5 DEF InRun
<1> QED BY <1>1, <1>2, <1>4, <1>5, <1>6

\* A byte of one segment is copied: what is copied of it and of the others stays.
LEMMA CopyByteKeeps ==
  ASSUME BInv, CompleteInv, Bootable, NEW e, NEW q, CopiedAt(e, q), NEW d \in Nat, d < e[3],
         NEW f, NEW p, CopiedAt(f, p), NEW n \in Nat, n <= f[3], CopyOf(image, f, n)
  PROVE  \A img : img = [image EXCEPT ![e[2] + d] = image[e[1] + d]] => CopyOf(img, f, n)
<1>1. InRun(e[2] + d, q) /\ e[2] \in Nat
  BY ByteOfRun
<1>2. PICK a, b : a = e[2] + d /\ b = image[e[1] + d]
  OBVIOUS
<1>3. ASSUME p = q, NEW o \in 0 .. n - 1, f[2] + o = a
      PROVE  b = image[f[1] + o]
  <2>1. f[1] = e[1] /\ f[2] = e[2]
    BY <1>3 DEF CopiedAt, CopyRow
  <2>2. PICK r \in Nat, u \in Nat : r = e[2] /\ u = o
    BY <1>1
  <2>3. r + u = r + d
    BY <1>2, <1>3, <2>1, <2>2
  <2>4. u = d
    BY <2>3
  <2> QED BY <1>2, <2>1, <2>2, <2>4
<1>4. InRun(a, q)
  BY <1>1, <1>2
<1>5. \A img : img = [image EXCEPT ![a] = b] => CopyOf(img, f, n)
  BY <1>3, <1>4, CopyKept
<1> QED BY <1>2, <1>5

\* One turn of the copy loop copies one byte more of its row,
LEMMA CopyOneByte ==
  ASSUME BInv, CompleteInv, Bootable, NEW e, NEW q, CopiedAt(e, q), NEW d \in Nat, d < e[3],
         CopyOf(image, e, d)
  PROVE  \A img : img = [image EXCEPT ![e[2] + d] = image[e[1] + d]] => CopyOf(img, e, d + 1)
<1>1. /\ InRun(e[2] + d, q) /\ e[2] + d \in DOMAIN image
      /\ e[1] \in Nat /\ e[2] \in Nat /\ e[3] \in Nat
      /\ e[1] = load_addr[q] /\ e[3] = Segment(q).size
  BY ByteOfRun
<1>2. PICK l \in Nat, r \in Nat, m \in Nat : l = e[1] /\ r = e[2] /\ m = e[3]
  BY <1>1
<1>3. l + d # r + d
  <2>1. CopyApart(q, q, r + d)
    BY <1>1, <1>2, CopiesApart DEF CopiedAt, BInv, Bootable, Placed
  <2>2. d \in 0 .. m - 1
    BY <1>2
  <2> QED BY <1>1, <1>2, <2>1, <2>2 DEF CopyApart
<1> TAKE img
<1> SUFFICES ASSUME img = [image EXCEPT ![e[2] + d] = image[e[1] + d]] PROVE CopyOf(img, e, d + 1)
  OBVIOUS
<1>4. CopyOf(img, e, d)
  <2>1. d <= e[3]
    BY <1>2
  <2> QED BY <2>1, CopyByteKeeps
<1>5. img[r + d] = image[l + d] /\ img[l + d] = image[l + d]
  BY <1>1, <1>2, <1>3
<1>6. ASSUME NEW o \in 0 .. d
      PROVE  img[r + o] = img[l + o]
  <2>1. CASE o = d
    BY <1>5, <2>1
  <2>2. CASE o # d
    <3>1. o \in 0 .. d - 1
      BY <2>2
    <3> QED BY <1>2, <1>4, <3>1 DEF CopyOf
  <2> QED BY <2>1, <2>2
<1>7. (d + 1) - 1 = d
  OBVIOUS
<1> QED BY <1>2, <1>6, <1>7 DEF CopyOf

\* The same for a byte that is cleared.
LEMMA ByteOfZero ==
  ASSUME BInv, CompleteInv, Bootable, NEW e, NEW q, ZeroedAt(e, q), NEW d \in Nat, d < e[2]
  PROVE  /\ InRun(e[1] + d, q) /\ e[1] + d \in DOMAIN image
         /\ e[1] \in Nat /\ e[2] \in Nat \ {0} /\ e[1] + e[2] <= VectorTable
         /\ e[1] = run_addr[q] /\ e[2] = Segment(q).size
<1>1. IInv /\ Separate(link) /\ Placed /\ DOMAIN image = 0 .. Space - 1 /\ link \in Links
  BY DEF BInv, Bootable, Placed, BootInv, IInv
<1>2. /\ q \in Places /\ Segment(q).segid = "BSS" /\ Segment(q).size > 0
      /\ e[1] = run_addr[q] /\ e[2] = Segment(q).size
  BY DEF ZeroedAt, ZeroRow, Zeroed
<1>3. q \in Running /\ Segment(q).size \in Nat
  BY <1>1, <1>2, PlacesAre DEF Running
<1>4. run_addr[q] \in Nat /\ run_addr[q] + Segment(q).size <= VectorTable
  BY <1>1, <1>2, <1>3, RunLies
<1>5. PICK r \in Nat, m \in Nat \ {0}, v \in Nat, S \in Nat :
         /\ r = e[1] /\ m = e[2] /\ v = VectorTable /\ S = Space /\ v < S
         /\ r + m <= v
  BY <1>2, <1>3, <1>4, SpaceNat
<1>6. r + d \in Nat /\ r <= r + d /\ r + d < r + m /\ r + d \in 0 .. S - 1
  BY <1>5
<1>7. InRun(r + d, q)
  BY <1>2, <1>3, <1>5, <1>6 DEF InRun
<1> QED BY <1>1, <1>2, <1>5, <1>6, <1>7

\* A zero written anywhere leaves what was zeroed at zero.
LEMMA ZeroByteKeeps ==
  ASSUME BInv, CompleteInv, Bootable, NEW e, NEW p, ZeroedAt(e, p),
         NEW n \in Nat, n <= e[2], ZeroOf(image, e, n), NEW a \in DOMAIN image
  PROVE  \A img : img = [image EXCEPT ![a] = 0] => ZeroOf(img, e, n)
<1> TAKE img
<1> SUFFICES ASSUME img = [image EXCEPT ![a] = 0], NEW o \in 0 .. n - 1
             PROVE  img[e[1] + o] = 0
  BY DEF ZeroOf
<1>1. image[e[1] + o] = 0
  BY DEF ZeroOf
<1>2. e[1] + o \in DOMAIN image
  <2>1. Segment(p).size \in Nat
    BY PlacesAre DEF ZeroedAt, BInv, IInv
  <2>2. e[2] \in Nat
    BY <2>1 DEF ZeroedAt, ZeroRow
  <2>3. o \in Nat /\ o < e[2]
    BY <2>2
  <2> QED BY <2>3, ByteOfZero
<1>3. \A x \in DOMAIN image : image[x] = 0 => [image EXCEPT ![a] = 0][x] = 0
  OBVIOUS
<1> QED BY <1>1, <1>2, <1>3

\* One turn of the zero loop clears one byte more of its row.
LEMMA ZeroOneByte ==
  ASSUME BInv, CompleteInv, Bootable, NEW e, NEW q, ZeroedAt(e, q), NEW d \in Nat, d < e[2],
         ZeroOf(image, e, d)
  PROVE  \A img : img = [image EXCEPT ![e[1] + d] = 0] => ZeroOf(img, e, d + 1)
<1>1. e[1] + d \in DOMAIN image
  BY ByteOfZero
<1> TAKE img
<1> SUFFICES ASSUME img = [image EXCEPT ![e[1] + d] = 0] PROVE ZeroOf(img, e, d + 1)
  OBVIOUS
<1>2. ZeroOf(img, e, d)
  <2>1. d <= e[2]
    BY ByteOfZero
  <2> QED BY <1>1, <2>1, ZeroByteKeeps
<1>3. img[e[1] + d] = 0
  BY <1>1
<1>4. ASSUME NEW o \in 0 .. d
      PROVE  img[e[1] + o] = 0
  <2>1. CASE o = d
    BY <1>3, <2>1
  <2>2. CASE o # d
    <3>1. o \in 0 .. d - 1
      BY <2>2
    <3> QED BY <1>2, <3>1 DEF ZeroOf
  <2> QED BY <2>1, <2>2
<1>5. (d + 1) - 1 = d
  OBVIOUS
<1> QED BY <1>4, <1>5 DEF ZeroOf

\* BSS has no image, and is no place that is copied to.
LEMMA CopyOutOfZero ==
  ASSUME BInv, CompleteInv, Bootable, NEW e, NEW q, ZeroedAt(e, q), NEW d \in Nat, d < e[2],
         NEW f, NEW p, CopiedAt(f, p), NEW n \in Nat, n <= f[3], CopyOf(image, f, n)
  PROVE  \A img : img = [image EXCEPT ![e[1] + d] = 0] => CopyOf(img, f, n)
<1>1. InRun(e[1] + d, q)
  BY ByteOfZero
<1>2. p # q
  <2>1. Segment(q).segid = "BSS"
    BY DEF ZeroedAt, Zeroed
  <2>2. ImageSeg(Segment(q)) # "DATA"
    BY <2>1 DEF ImageSeg
  <2> QED BY <2>2 DEF CopiedAt, Copied
<1>3. PICK a, b : a = e[1] + d /\ b = 0
  OBVIOUS
<1>4. InRun(a, q) /\ (p = q => \A o \in 0 .. n - 1 : f[2] + o = a => b = image[f[1] + o])
  BY <1>1, <1>2, <1>3
<1>5. \A img : img = [image EXCEPT ![a] = b] => CopyOf(img, f, n)
  BY <1>4, CopyKept
<1> QED BY <1>3, <1>5

Progress == CopyProgress /\ ZeroProgress /\ InitProgress

\* What progress is measured against does not change after the link.
LEMMA ProgressStays ==
  ASSUME BInv, Linked
  PROVE  /\ link' = link /\ table' = table /\ stack' = stack
         /\ copy_records' = copy_records /\ zero_records' = zero_records
         /\ CopyList' = CopyList /\ ZeroList' = ZeroList /\ (Bootable' <=> Bootable)
         /\ \A img, n : AllCopied(img, n)' <=> AllCopied(img, n)
         /\ \A img, n : AllZero(img, n)' <=> AllZero(img, n)
         /\ \A img, e, n : CopyOf(img, e, n)' <=> CopyOf(img, e, n)
         /\ \A img, e, n : ZeroOf(img, e, n)' <=> ZeroOf(img, e, n)
         /\ \A x : Truth(x)' = Truth(x)
         /\ \A img : InitsTabled(img)' <=> InitsTabled(img)
         /\ (InitsCallable' <=> InitsCallable)
<1>1. /\ CopyList' = CopyList /\ ZeroList' = ZeroList /\ (Bootable' <=> Bootable)
      /\ table' = table
      /\ copy_records' = copy_records /\ zero_records' = zero_records
  BY LayoutStays DEF BInv
<1>2. UNCHANGED <<link, table, load_addr, run_addr, stack>>
  BY DEF Linked
<1>3. (\A x : Truth(x)' = Truth(x)) /\ \A img : InitsTabled(img)' <=> InitsTabled(img)
  BY <1>2, InitsStay
<1>4. InitsCallable' <=> InitsCallable
  BY <1>2, <1>3 DEF InitsCallable, Inside, SegsOf
<1>5. /\ \A img, e, n : CopyOf(img, e, n)' <=> CopyOf(img, e, n)
      /\ \A img, e, n : ZeroOf(img, e, n)' <=> ZeroOf(img, e, n)
  BY DEF CopyOf, ZeroOf
<1>6. /\ \A img, n : AllCopied(img, n)' <=> AllCopied(img, n)
      /\ \A img, n : AllZero(img, n)' <=> AllZero(img, n)
  BY <1>1 DEF AllCopied, AllZero, CopyOf, ZeroOf
<1> QED BY <1>1, <1>2, <1>3, <1>4, <1>5, <1>6

\* DoneInv of a start-up step, from its progress and the init table in the image.
LEMMA DoneKept ==
  ASSUME BInv, Linked, boot' # "off", Bootable => Progress' /\ \A img : img = image' => InitsTabled(img)
  PROVE  DoneInv'
<1>1. (Bootable' <=> Bootable) /\ \A img : InitsTabled(img)' <=> InitsTabled(img)
  BY ProgressStays
<1>2. Bootable => Progress' /\ \A img : img = image' => InitsTabled(img)'
  BY <1>1
<1> QED BY <1>1, <1>2 DEF DoneInv, Progress

\* Where a record is loaded from.
LEMMA CopyFrom ==
  ASSUME BInv, CompleteInv, Bootable, NEW k \in 1 .. Len(copy_records),
         NEW a \in Nat, a = table.copy + 6 * (k - 1)
  PROVE  WordAt(a) = CopyList[k][1]
<1>1. Separate(link) /\ TablesWhole /\ Placed /\ IInv /\ RecInv /\ Tabled(image)
  BY DEF Bootable, Placed, BInv, BootInv
<1>2. PICK n \in Nat : n = Len(CopyList) /\ n = Len(copy_records) + 1
  BY ListsAre, <1>1 DEF IInv, Records, IsSeq
<1>3. PICK from \in Nat : from = table.copy /\ from + 2 * (3 * n) <= VectorTable
  BY <1>1, <1>2, TablesApart, TableSizes
<1>4. PICK recs, img : recs = CopyList /\ img = image
  OBVIOUS
<1>5. TableIs(img, from, 3, recs) /\ Len(recs) = n
  BY <1>1, <1>2, <1>3, <1>4 DEF Tabled
<1>6. a = from + 2 * (3 * (k - 1) + (1 - 1))
  BY <1>2, <1>3
<1>7. recs[k][1] \in 0 .. Space - 1
  <2>1. PICK q : CopiedAt(recs[k], q)
    BY <1>4, RowsAre
  <2>2. CopyLies(q, q[1], q[2]) /\ recs[k][1] = load_addr[q]
    BY <1>1, <2>1, CopyLiesIn DEF CopiedAt, CopyRow
  <2>3. PICK l \in Nat, m \in Nat, v \in Nat, S \in Nat :
           l = load_addr[q] /\ m = Segment(q).size /\ v = VectorTable /\ S = Space /\ v < S
           /\ l + m <= v
    BY <2>2, SpaceNat DEF CopyLies
  <2> QED BY <2>2, <2>3
<1>8. PICK w \in {2, 3}, j \in 1 .. 3, i \in 1 .. n : w = 3 /\ j = 1 /\ i = k
  BY <1>2
<1>9. j \in 1 .. w /\ a = WordAddr(from, w, i, j)
  BY <1>6, <1>8 DEF WordAddr
<1>10. recs[i][j] \in 0 .. Space - 1 /\ TableAt(img, from, w, recs, n)
  BY <1>3, <1>5, <1>7, <1>8 DEF TableAt
<1>11. Reads(img, a, recs[i][j])
  BY <1>9, <1>10, WordOf
<1> QED BY <1>4, <1>8, <1>10, <1>11 DEF WordAt, WordIn, Reads

\* The reset starts the copy loop with nothing copied.
LEMMA DoneReset ==
  ASSUME BInv, DoneInv, Bootable, Reset
  PROVE  Progress' /\ (\A img : img = image' => InitsTabled(img))
<1>1. /\ Linked /\ boot = "off" /\ boot' = "_copy_record" /\ ptr0' = table.copy
      /\ image' = image /\ called' = called
  BY DEF Reset
<1>2. table' = table /\ copy_records' = copy_records
  BY <1>1, ProgressStays
<1>3. table.copy \in Nat /\ Len(copy_records) \in Nat
  BY TablesApart DEF BInv, Bootable, Placed, IInv, Records, IsSeq
<1>4. 1 \in 1 .. Len(copy_records) + 1 /\ table.copy = table.copy + 6 * (1 - 1)
  BY <1>3
<1>5. AllCopied(image, 1 - 1)'
  BY DEF AllCopied
<1>6. CopyProgress'
  BY <1>1, <1>2, <1>4, <1>5 DEF CopyProgress
<1>7. ZeroProgress' /\ InitProgress'
  BY <1>1 DEF ZeroProgress, InitProgress, DoneInv
<1> QED BY <1>1, <1>6, <1>7 DEF DoneInv, Progress

\* _copy_record: the rows before are copied; the word 0 that ends the table ends the loop.
LEMMA DoneCopyRecord ==
  ASSUME BInv, CompleteInv, DoneInv, Bootable, CopyRecord
  PROVE  Progress' /\ (\A img : img = image' => InitsTabled(img))
<1>1. /\ Linked /\ image' = image /\ boot = "_copy_record" /\ ptr1' = WordAt(ptr0)
      /\ ptr2' = WordAt(ptr0 + 2) /\ arg0' = WordAt(ptr0 + 4) /\ called' = called
      /\ IF arg0' = 0 THEN boot' = "_zero_record" /\ ptr0' = table.zero
                      ELSE boot' = "_copy_loop" /\ ptr0' = ptr0
  BY DEF CopyRecord
<1>2. /\ table' = table /\ copy_records' = copy_records /\ zero_records' = zero_records
      /\ CopyList' = CopyList
      /\ \A img, n : AllCopied(img, n)' <=> AllCopied(img, n)
      /\ \A img, e, n : CopyOf(img, e, n)' <=> CopyOf(img, e, n)
  BY <1>1, ProgressStays
<1>3. PICK k \in 1 .. Len(copy_records) + 1 :
        ptr0 = table.copy + 6 * (k - 1) /\ AllCopied(image, k - 1)
  BY <1>1 DEF DoneInv, CopyProgress
<1>4. /\ table.copy \in Nat /\ table.zero \in Nat
      /\ Len(copy_records) \in Nat /\ Len(zero_records) \in Nat
  BY TablesApart DEF BInv, Bootable, Placed, IInv, Records, IsSeq
<1>5. PICK a \in Nat : a = ptr0 /\ a = table.copy + 6 * (k - 1)
  BY <1>3, <1>4
<1>6. /\ k \in 1 .. Len(copy_records) =>
             WordAt(a + 2) = CopyList[k][2] /\ WordAt(a + 4) = CopyList[k][3]
      /\ k = Len(copy_records) + 1 => WordAt(a + 4) = 0
  BY <1>5, CopyWords DEF BInv, BootInv
<1>7. boot' \notin {"off", "_call_init_loop", "main", "_zero_loop"}
  BY <1>1
<1>8. InitProgress'
  BY <1>1, <1>7 DEF InitProgress, DoneInv
<1>9. \A n : AllCopied(image, n)' <=> AllCopied(image, n)
  BY <1>1, <1>2
<1>10. CASE k \in 1 .. Len(copy_records)
  <2>1. PICK l \in Nat, r \in Nat, m \in Nat \ {0} :
           l = CopyList[k][1] /\ r = CopyList[k][2] /\ m = CopyList[k][3]
    <3>1. PICK q : CopiedAt(CopyList[k], q)
      BY <1>10, RowsAre
    <3>2. CopyLies(q, q[1], q[2])
      BY <3>1, CopyLiesIn DEF CopiedAt, BInv, Bootable, Placed
    <3> QED BY <3>1, <3>2 DEF CopyLies, CopiedAt, CopyRow
  <2>2. ptr1' = l /\ ptr2' = r /\ arg0' = m
    BY <1>1, <1>5, <1>6, <1>10, <2>1, CopyFrom
  <2>3. boot' = "_copy_loop" /\ ptr0' = table.copy + 6 * (k - 1)
    BY <1>1, <1>3, <2>1, <2>2
  <2>4. l + (m - m) = l /\ r + (m - m) = r /\ m - m = 0 /\ m \in 1 .. m
    OBVIOUS
  <2>5. CopyOf(image, CopyList[k], 0)
    BY DEF CopyOf
  <2>6. AllCopied(image, k - 1)' /\ CopyOf(image, CopyList[k], 0)'
    BY <1>1, <1>2, <1>3, <1>9, <2>5
  <2>7. /\ ptr1' = CopyList[k][1] + (CopyList[k][3] - arg0')
        /\ ptr2' = CopyList[k][2] + (CopyList[k][3] - arg0')
        /\ arg0' \in 1 .. CopyList[k][3] /\ CopyList[k][3] - arg0' = 0
    BY <2>1, <2>2, <2>4
  <2>8. CopyProgress'
    BY <1>2, <1>10, <2>3, <2>6, <2>7 DEF CopyProgress
  <2>9. ZeroProgress'
    BY <2>3 DEF ZeroProgress
  <2> QED BY <1>1, <1>8, <2>8, <2>9 DEF Progress, DoneInv
<1>11. CASE k = Len(copy_records) + 1
  <2>1. boot' = "_zero_record" /\ ptr0' = table.zero
    BY <1>1, <1>5, <1>6, <1>11
  <2>2. k - 1 = Len(copy_records)
    BY <1>4, <1>11
  <2>3. AllCopied(image, Len(copy_records))'
    BY <1>2, <1>3, <1>9, <2>2
  <2>4. CopyProgress'
    BY <1>2, <2>1, <2>3 DEF CopyProgress
  <2>5. 1 \in 1 .. Len(zero_records) + 1 /\ table.zero = table.zero + 4 * (1 - 1)
    BY <1>4
  <2>6. AllZero(image, 1 - 1)'
    BY DEF AllZero
  <2>7. ZeroProgress'
    BY <1>2, <2>1, <2>5, <2>6 DEF ZeroProgress
  <2> QED BY <1>1, <1>8, <2>4, <2>7 DEF Progress, DoneInv
<1> QED BY <1>4, <1>10, <1>11

\* The three tables end below the vectors, so that their addresses do not wrap.
LEMMA TablesFit ==
  ASSUME BInv, Bootable
  PROVE  /\ table.copy \in Nat /\ table.copy + 6 * (Len(copy_records) + 1) <= VectorTable
         /\ table.zero \in Nat /\ table.zero + 4 * (Len(zero_records) + 1) <= VectorTable
         /\ table.init \in Nat /\ table.init + 2 * (Len(link.inits) + 1) <= VectorTable
         /\ Len(copy_records) \in Nat /\ Len(zero_records) \in Nat /\ Len(link.inits) \in Nat
<1>1. IInv /\ Separate(link) /\ Placed /\ TablesWhole
  BY DEF BInv, Bootable, Placed
<1>2. Len(copy_records) \in Nat /\ Len(zero_records) \in Nat /\ Len(link.inits) \in Nat
  BY <1>1, InitsAre DEF IInv, Records, IsSeq
<1>3. /\ table.copy \in Nat /\ table.copy + CopyTableSize <= VectorTable
      /\ table.zero \in Nat /\ table.zero + ZeroTableSize <= VectorTable
      /\ table.init \in Nat /\ table.init + InitTableSize <= VectorTable
  BY <1>1, TablesApart
<1> QED BY <1>1, <1>2, <1>3 DEF TablesWhole

\* _copy_loop: one byte more of the row is copied; after the last one comes the next row.
LEMMA DoneCopyByte ==
  ASSUME BInv, CompleteInv, DoneInv, Bootable, CopyByte
  PROVE  /\ Progress' /\ (\A img : img = image' => InitsTabled(img))
         /\ ByteInRun
<1>1. /\ Linked /\ image' = [image EXCEPT ![ptr2] = image[ptr1]] /\ boot = "_copy_loop"
      /\ ptr1' = Plus(ptr1, 1) /\ ptr2' = Plus(ptr2, 1) /\ arg0' = arg0 - 1 /\ called' = called
      /\ IF arg0' = 0 THEN boot' = "_copy_record" /\ ptr0' = Plus(ptr0, 6)
                      ELSE boot' = boot /\ ptr0' = ptr0
  BY DEF CopyByte
<1>2. /\ table' = table /\ copy_records' = copy_records
      /\ CopyList' = CopyList
      /\ \A img, n : AllCopied(img, n)' <=> AllCopied(img, n)
      /\ \A img, e, n : CopyOf(img, e, n)' <=> CopyOf(img, e, n)
  BY <1>1, ProgressStays
<1>3. PICK k \in 1 .. Len(copy_records), e \in {CopyList[j] : j \in 1 .. Len(copy_records)} :
        /\ e = CopyList[k]
        /\ ptr0 = table.copy + 6 * (k - 1) /\ AllCopied(image, k - 1)
        /\ arg0 \in 1 .. e[3]
        /\ ptr1 = e[1] + (e[3] - arg0) /\ ptr2 = e[2] + (e[3] - arg0)
        /\ CopyOf(image, e, e[3] - arg0)
  BY <1>1 DEF DoneInv, CopyProgress
<1>4. PICK q : CopiedAt(e, q)
  BY <1>3, RowsAre
<1>5. PICK l \in Nat, r \in Nat, m \in Nat \ {0} :
        /\ l = e[1] /\ r = e[2] /\ m = e[3]
        /\ l + m <= VectorTable /\ r + m <= VectorTable
  <2>1. CopyLies(q, q[1], q[2])
    BY <1>4, CopyLiesIn DEF CopiedAt, BInv, Bootable, Placed
  <2> QED BY <1>4, <2>1 DEF CopyLies, CopiedAt, CopyRow
<1>6. PICK S \in Nat, v \in Nat : S = Space /\ v = VectorTable /\ v < S
  BY SpaceNat
<1>7. PICK left \in 1 .. m, d \in Nat : left = arg0 /\ d = m - left /\ d < m
  <2>1. PICK left \in 1 .. m : left = arg0
    BY <1>3, <1>5
  <2>2. m - left \in Nat /\ m - left < m
    OBVIOUS
  <2> QED BY <2>1, <2>2
<1>8. /\ ptr1 = l + d /\ ptr2 = r + d
      /\ CopyOf(image, e, d)
  BY <1>3, <1>5, <1>7
<1>9. PICK img : img = image' /\ img = [image EXCEPT ![e[2] + d] = image[e[1] + d]]
  BY <1>1, <1>5, <1>8
<1>10. d < e[3]
  BY <1>5, <1>7
<1>11. AllCopied(img, k - 1)
  <2>1. ASSUME NEW j \in 1 .. k - 1 PROVE CopyOf(img, CopyList[j], CopyList[j][3])
    <3>1. j \in 1 .. Len(copy_records)
      BY TablesFit
    <3>2. PICK f, p : f = CopyList[j] /\ CopiedAt(f, p)
      BY <3>1, RowsAre
    <3>3. PICK n \in Nat : n = f[3] /\ n <= f[3]
      <4>1. CopyLies(p, p[1], p[2])
        BY <3>2, CopyLiesIn DEF CopiedAt, BInv, Bootable, Placed
      <4>2. f[3] \in Nat
        BY <3>2, <4>1 DEF CopyLies, CopiedAt, CopyRow
      <4> QED BY <4>2
    <3>4. CopyOf(image, f, n)
      BY <1>3, <3>2, <3>3 DEF AllCopied
    <3>5. CopyOf(img, f, n)
      BY <1>4, <1>9, <1>10, <3>2, <3>3, <3>4, CopyByteKeeps
    <3> QED BY <3>2, <3>3, <3>5
  <2> QED BY <2>1 DEF AllCopied
<1>12. CopyOf(img, e, d + 1)
  BY <1>4, <1>8, <1>9, <1>10, CopyOneByte
<1>13. InRun(r + d, q)
  BY <1>4, <1>5, <1>10, ByteOfRun
<1>14. ByteInRun
  BY <1>1, <1>8, <1>13 DEF ByteInRun
<1>15. \A out : out = image' => InitsTabled(out)
  <2>1. Outside(r + d, table.init, InitTableSize)
    BY <1>13, RunsApart DEF InRun, RunOutside, BInv, Bootable, Placed
  <2>2. r + d \in Nat /\ InitsTabled(image)
    BY DEF DoneInv
  <2>3. \A out : out = [image EXCEPT ![r + d] = image[ptr1]] => InitsTabled(out)
    BY <2>1, <2>2, InitsKept
  <2> QED BY <1>1, <1>8, <2>3
<1>16. boot' \notin {"off", "_call_init_loop", "main", "_zero_loop", "_zero_record"}
  BY <1>1
<1>17. ZeroProgress' /\ InitProgress'
  BY <1>1, <1>16 DEF ZeroProgress, InitProgress, DoneInv
<1>18. AllCopied(img, k - 1)' /\ CopyOf(img, e, d + 1)'
  BY <1>2, <1>11, <1>12
<1>19. CASE left = 1
  <2>1. boot' = "_copy_record" /\ ptr0' = Plus(ptr0, 6)
    BY <1>1, <1>7, <1>19
  <2>2. d + 1 = m
    BY <1>7, <1>19
  <2>3. PICK w \in Nat, n \in Nat, from \in Nat :
          /\ w = k /\ n = Len(copy_records) /\ from = table.copy /\ w <= n
          /\ from + 6 * (n + 1) <= v
    <3>1. PICK n \in Nat : n = Len(copy_records)
      BY TablesFit
    <3>2. PICK from \in Nat : from = table.copy
      BY TablesFit
    <3>3. from + 6 * (n + 1) <= v
      BY <1>6, <3>1, <3>2, TablesFit
    <3>4. k \in Nat /\ k <= n
      BY <3>1
    <3> QED BY <3>1, <3>2, <3>3, <3>4
  <2>4. AllCopied(img, w)
    <3>1. ASSUME NEW j \in 1 .. w PROVE CopyOf(img, CopyList[j], CopyList[j][3])
      <4>1. CASE j = w
        BY <1>3, <1>5, <1>12, <2>2, <2>3, <4>1
      <4>2. CASE j # w
        <5>1. j \in 1 .. k - 1
          BY <2>3, <4>2
        <5> QED BY <1>11, <5>1 DEF AllCopied
      <4> QED BY <4>1, <4>2
    <3> QED BY <3>1 DEF AllCopied
  <2>5. ptr0' = from + 6 * w
    <3>1. ptr0 + 6 = from + 6 * w /\ from + 6 * w \in 0 .. S - 1
      <4>1. ptr0 = from + 6 * (w - 1)
        BY <1>3, <2>3
      <4>2. from + 6 * w \in 0 .. S - 1
        BY <1>6, <2>3
      <4> QED BY <4>1, <4>2
    <3> QED BY <1>6, <2>1, <3>1, ModSmall DEF Plus
  <2>6. w + 1 \in 1 .. Len(copy_records) + 1 /\ (w + 1) - 1 = w
    BY <2>3
  <2>7. PICK w1 : w1 = w + 1
    OBVIOUS
  <2>8. w1 \in 1 .. Len(copy_records) + 1 /\ ptr0' = table.copy + 6 * (w1 - 1)
    BY <2>3, <2>5, <2>6, <2>7
  <2>9. AllCopied(img, w1 - 1)'
    BY <1>2, <2>4, <2>6, <2>7
  <2>10. AllCopied(image, w1 - 1)'
    BY <1>9, <2>9
  <2>11. CopyProgress'
    BY <1>2, <2>1, <2>8, <2>10 DEF CopyProgress
  <2> QED BY <1>14, <1>15, <1>17, <2>11 DEF Progress
<1>20. CASE left # 1
  <2>1. arg0' = left - 1 /\ arg0' # 0 /\ left - 1 \in 1 .. m
    BY <1>1, <1>7, <1>20
  <2>2. boot' = "_copy_loop" /\ ptr0' = table.copy + 6 * (k - 1)
    BY <1>1, <1>3, <2>1
  <2>3. m - (left - 1) = d + 1
    BY <1>7
  <2>4. ptr1' = l + (d + 1) /\ ptr2' = r + (d + 1)
    <3>1. /\ (l + d) + 1 \in 0 .. S - 1 /\ (l + d) + 1 = l + (d + 1)
          /\ (r + d) + 1 \in 0 .. S - 1 /\ (r + d) + 1 = r + (d + 1)
      <4>1. l + m <= v /\ r + m <= v /\ d < m /\ v < S
        BY <1>5, <1>6, <1>7
      <4> QED BY <4>1
    <3> QED BY <1>1, <1>6, <1>8, <3>1, ModSmall DEF Plus
  <2>5. /\ arg0' \in 1 .. e[3] /\ e[3] - arg0' = d + 1
        /\ ptr1' = e[1] + (e[3] - arg0') /\ ptr2' = e[2] + (e[3] - arg0')
    BY <1>5, <2>1, <2>3, <2>4
  <2>6. AllCopied(image, k - 1)' /\ CopyOf(image, CopyList[k], d + 1)'
    <3>1. AllCopied(image, k - 1)'
      BY <1>9, <1>18
    <3>2. CopyOf(image, CopyList[k], d + 1)'
      BY <1>2, <1>3, <1>9, <1>18
    <3> QED BY <3>1, <3>2
  <2>7. /\ arg0' \in 1 .. CopyList[k][3] /\ CopyList[k][3] - arg0' = d + 1
        /\ ptr1' = CopyList[k][1] + (CopyList[k][3] - arg0')
        /\ ptr2' = CopyList[k][2] + (CopyList[k][3] - arg0')
    BY <1>3, <2>5
  <2>8. CopyProgress'
    BY <1>2, <2>2, <2>6, <2>7 DEF CopyProgress
  <2> QED BY <1>14, <1>15, <1>17, <2>8 DEF Progress
<1> QED BY <1>19, <1>20

\* _zero_record: the rows before are cleared; the word 0 that ends the table ends the loop.
LEMMA DoneZeroRecord ==
  ASSUME BInv, CompleteInv, DoneInv, Bootable, ZeroRecord
  PROVE  Progress' /\ (\A img : img = image' => InitsTabled(img))
<1>1. /\ Linked /\ image' = image /\ boot = "_zero_record" /\ ptr1' = WordAt(ptr0)
      /\ arg0' = WordAt(ptr0 + 2) /\ called' = called
      /\ IF arg0' = 0 THEN boot' = "_call_init_loop" /\ ptr0' = table.init /\ sp' = stack.start
                      ELSE boot' = "_zero_loop" /\ ptr0' = ptr0 /\ sp' = sp
  BY DEF ZeroRecord
<1>2. /\ table' = table /\ copy_records' = copy_records /\ zero_records' = zero_records
      /\ ZeroList' = ZeroList /\ link' = link /\ stack' = stack
      /\ \A img, n : AllCopied(img, n)' <=> AllCopied(img, n)
      /\ \A img, n : AllZero(img, n)' <=> AllZero(img, n)
      /\ \A img, e, n : ZeroOf(img, e, n)' <=> ZeroOf(img, e, n)
  BY <1>1, ProgressStays
<1>3. PICK k \in 1 .. Len(zero_records) + 1 :
        ptr0 = table.zero + 4 * (k - 1) /\ AllZero(image, k - 1)
  BY <1>1 DEF DoneInv, ZeroProgress
<1>4. table.zero \in Nat /\ Len(zero_records) \in Nat /\ table.init \in Nat
  BY TablesFit
<1>5. PICK a \in Nat : a = ptr0 /\ a = table.zero + 4 * (k - 1)
  BY <1>3, <1>4
<1>6. /\ k \in 1 .. Len(zero_records) =>
             WordAt(a) = ZeroList[k][1] /\ WordAt(a + 2) = ZeroList[k][2]
      /\ k = Len(zero_records) + 1 => WordAt(a + 2) = 0
  BY <1>5, ZeroWords DEF BInv, BootInv
<1>7. boot' \notin {"off", "_copy_record", "_copy_loop", "main"}
  BY <1>1
<1>8. CopyProgress'
  <2>1. AllCopied(image, Len(copy_records))
    BY <1>1 DEF DoneInv, CopyProgress
  <2>2. \A n : AllCopied(image, n)' <=> AllCopied(image, n)
    BY <1>1, <1>2
  <2>3. AllCopied(image, Len(copy_records))'
    BY <1>2, <2>1, <2>2
  <2> QED BY <1>7, <2>3 DEF CopyProgress
<1>9. called = <<>>
  BY <1>1 DEF DoneInv, InitProgress
<1>10. \A n : AllZero(image, n)' <=> AllZero(image, n)
  BY <1>1, <1>2
<1>11. CASE k \in 1 .. Len(zero_records)
  <2>1. PICK r \in Nat, m \in Nat \ {0} : r = ZeroList[k][1] /\ m = ZeroList[k][2]
    <3>1. ZeroList[k][1] \in Nat /\ ZeroList[k][2] \in 1 .. Space - 1
      BY <1>11, ZeroEntry DEF BInv
    <3>2. \A x \in 1 .. Space - 1 : x \in Nat \ {0}
      BY SpaceNat
    <3> QED BY <3>1, <3>2
  <2>2. ptr1' = r /\ arg0' = m
    BY <1>1, <1>5, <1>6, <1>11, <2>1
  <2>3. boot' = "_zero_loop" /\ ptr0' = table.zero + 4 * (k - 1)
    BY <1>1, <1>3, <2>1, <2>2
  <2>4. r + (m - m) = r /\ m - m = 0 /\ m \in 1 .. m
    OBVIOUS
  <2>5. ZeroOf(image, ZeroList[k], 0)
    BY DEF ZeroOf
  <2>6. AllZero(image, k - 1)' /\ ZeroOf(image, ZeroList[k], 0)'
    BY <1>1, <1>2, <1>3, <1>10, <2>5
  <2>7. /\ ptr1' = ZeroList[k][1] + (ZeroList[k][2] - arg0')
        /\ arg0' \in 1 .. ZeroList[k][2] /\ ZeroList[k][2] - arg0' = 0
    BY <2>1, <2>2, <2>4
  <2>8. ZeroProgress'
    BY <1>2, <1>11, <2>3, <2>6, <2>7 DEF ZeroProgress
  <2>9. InitProgress'
    BY <1>1, <1>9, <2>3 DEF InitProgress
  <2> QED BY <1>1, <1>8, <2>8, <2>9 DEF Progress, DoneInv
<1>12. CASE k = Len(zero_records) + 1
  <2>1. boot' = "_call_init_loop" /\ ptr0' = table.init /\ sp' = stack.start
    BY <1>1, <1>5, <1>6, <1>12
  <2>2. k - 1 = Len(zero_records)
    BY <1>4, <1>12
  <2>3. AllZero(image, Len(zero_records))'
    BY <1>2, <1>3, <1>10, <2>2
  <2>4. ZeroProgress'
    BY <1>2, <2>1, <2>3 DEF ZeroProgress
  <2>5. Len(link.inits) \in Nat /\ called' = <<>> /\ Len(<<>>) = 0
    BY <1>1, <1>9, TablesFit
  <2>6. CalledAre'
    <3>1. Len(called') = 0 /\ called' = [k1 \in 1 .. 0 |-> Truth(link.inits[k1])']
      BY <2>5
    <3> QED BY <1>2, <2>5, <3>1 DEF CalledAre
  <2>7. table.init = table.init + 2 * 0
    BY <1>4
  <2>8. InitProgress'
    BY <1>2, <2>1, <2>5, <2>6, <2>7 DEF InitProgress
  <2> QED BY <1>1, <1>8, <2>4, <2>8 DEF Progress, DoneInv
<1> QED BY <1>4, <1>11, <1>12

\* _zero_loop: one byte more of the row is cleared; after the last one comes the next row.
LEMMA DoneZeroByte ==
  ASSUME BInv, CompleteInv, DoneInv, Bootable, ZeroByte
  PROVE  /\ Progress' /\ (\A img : img = image' => InitsTabled(img))
         /\ ByteInRun
<1>1. /\ Linked /\ image' = [image EXCEPT ![ptr1] = 0] /\ boot = "_zero_loop"
      /\ ptr1' = Plus(ptr1, 1) /\ arg0' = arg0 - 1 /\ called' = called
      /\ IF arg0' = 0 THEN boot' = "_zero_record" /\ ptr0' = Plus(ptr0, 4)
                      ELSE boot' = boot /\ ptr0' = ptr0
  BY DEF ZeroByte
<1>2. /\ table' = table /\ copy_records' = copy_records /\ zero_records' = zero_records
      /\ ZeroList' = ZeroList
      /\ \A img, n : AllCopied(img, n)' <=> AllCopied(img, n)
      /\ \A img, n : AllZero(img, n)' <=> AllZero(img, n)
      /\ \A img, e, n : ZeroOf(img, e, n)' <=> ZeroOf(img, e, n)
  BY <1>1, ProgressStays
<1>3. PICK k \in 1 .. Len(zero_records), e \in {ZeroList[j] : j \in 1 .. Len(zero_records)} :
        /\ e = ZeroList[k]
        /\ ptr0 = table.zero + 4 * (k - 1) /\ AllZero(image, k - 1)
        /\ arg0 \in 1 .. e[2]
        /\ ptr1 = e[1] + (e[2] - arg0)
        /\ ZeroOf(image, e, e[2] - arg0)
  BY <1>1 DEF DoneInv, ZeroProgress
<1>4. PICK q : ZeroedAt(e, q)
  BY <1>3, RowsAre
<1>5. PICK r \in Nat, m \in Nat \ {0}, S \in Nat, v \in Nat :
        /\ r = e[1] /\ m = e[2] /\ S = Space /\ v = VectorTable /\ v < S
        /\ r + m <= v
  <2>1. e[1] \in Nat /\ e[2] \in 1 .. Space - 1 /\ e[1] + e[2] <= VectorTable
    BY <1>3, ZeroEntry DEF BInv
  <2>2. \A x \in 1 .. Space - 1 : x \in Nat \ {0}
    BY SpaceNat
  <2> QED BY <2>1, <2>2, SpaceNat
<1>6. PICK left \in 1 .. m, d \in Nat : left = arg0 /\ d = m - left /\ d < m
  <2>1. PICK left \in 1 .. m : left = arg0
    BY <1>3, <1>5
  <2>2. m - left \in Nat /\ m - left < m
    OBVIOUS
  <2> QED BY <2>1, <2>2
<1>7. ptr1 = r + d /\ ZeroOf(image, e, d) /\ d < e[2]
  BY <1>3, <1>5, <1>6
<1>8. PICK img : img = image' /\ img = [image EXCEPT ![e[1] + d] = 0]
  BY <1>1, <1>5, <1>7
<1>9. InRun(r + d, q) /\ e[1] + d \in DOMAIN image
  BY <1>4, <1>5, <1>7, ByteOfZero
<1>10. AllZero(img, k - 1)
  <2>1. ASSUME NEW j \in 1 .. k - 1 PROVE ZeroOf(img, ZeroList[j], ZeroList[j][2])
    <3>1. j \in 1 .. Len(zero_records)
      BY TablesFit
    <3>2. PICK f, p : f = ZeroList[j] /\ ZeroedAt(f, p)
      BY <3>1, RowsAre
    <3>3. PICK n \in Nat : n = f[2] /\ n <= f[2]
      <4>1. f[2] \in 1 .. Space - 1
        BY <3>1, <3>2, ZeroEntry DEF BInv
      <4>2. \A x \in 1 .. Space - 1 : x \in Nat /\ x <= x
        BY SpaceNat
      <4> QED BY <4>1, <4>2
    <3>4. ZeroOf(image, f, n)
      BY <1>3, <3>2, <3>3 DEF AllZero
    <3>5. ZeroOf(img, f, n)
      BY <1>8, <1>9, <3>2, <3>3, <3>4, ZeroByteKeeps
    <3> QED BY <3>2, <3>3, <3>5
  <2> QED BY <2>1 DEF AllZero
<1>11. ZeroOf(img, e, d + 1)
  BY <1>4, <1>7, <1>8, ZeroOneByte
<1>12. AllCopied(img, Len(copy_records))
  <2>1. AllCopied(image, Len(copy_records))
    BY <1>1 DEF DoneInv, CopyProgress
  <2>2. ASSUME NEW j \in 1 .. Len(copy_records) PROVE CopyOf(img, CopyList[j], CopyList[j][3])
    <3>1. PICK f, p : f = CopyList[j] /\ CopiedAt(f, p)
      BY RowsAre
    <3>2. PICK n \in Nat : n = f[3] /\ n <= f[3]
      <4>1. CopyLies(p, p[1], p[2])
        BY <3>1, CopyLiesIn DEF CopiedAt, BInv, Bootable, Placed
      <4>2. f[3] \in Nat
        BY <3>1, <4>1 DEF CopyLies, CopiedAt, CopyRow
      <4> QED BY <4>2
    <3>3. CopyOf(image, f, n)
      BY <2>1, <3>1, <3>2 DEF AllCopied
    <3>4. CopyOf(img, f, n)
      BY <1>4, <1>7, <1>8, <3>1, <3>2, <3>3, CopyOutOfZero
    <3> QED BY <3>1, <3>2, <3>4
  <2> QED BY <2>2 DEF AllCopied
<1>13. ByteInRun
  BY <1>1, <1>7, <1>9 DEF ByteInRun
<1>14. \A out : out = image' => InitsTabled(out)
  <2>1. Outside(r + d, table.init, InitTableSize)
    BY <1>9, RunsApart DEF InRun, RunOutside, BInv, Bootable, Placed
  <2>2. r + d \in Nat /\ InitsTabled(image)
    BY DEF DoneInv
  <2>3. \A out : out = [image EXCEPT ![r + d] = 0] => InitsTabled(out)
    BY <2>1, <2>2, InitsKept
  <2> QED BY <1>1, <1>7, <2>3
<1>15. boot' \notin {"off", "_call_init_loop", "main", "_copy_loop", "_copy_record"}
  BY <1>1
<1>16. CopyProgress'
  <2>1. AllCopied(img, Len(copy_records))'
    BY <1>2, <1>12
  <2>2. AllCopied(image, Len(copy_records))'
    BY <1>8, <2>1
  <2> QED BY <1>15, <2>2 DEF CopyProgress
<1>17. InitProgress'
  BY <1>1, <1>15 DEF InitProgress, DoneInv
<1>18. AllZero(img, k - 1)' /\ ZeroOf(img, e, d + 1)'
  BY <1>2, <1>10, <1>11
<1>19. CASE left = 1
  <2>1. boot' = "_zero_record" /\ ptr0' = Plus(ptr0, 4)
    BY <1>1, <1>6, <1>19
  <2>2. d + 1 = m
    BY <1>6, <1>19
  <2>3. PICK w \in Nat, n \in Nat, from \in Nat :
          /\ w = k /\ n = Len(zero_records) /\ from = table.zero /\ w <= n
          /\ from + 4 * (n + 1) <= v
    <3>1. PICK n \in Nat : n = Len(zero_records)
      BY TablesFit
    <3>2. PICK from \in Nat : from = table.zero
      BY TablesFit
    <3>3. from + 4 * (n + 1) <= v
      BY <1>5, <3>1, <3>2, TablesFit
    <3>4. k \in Nat /\ k <= n
      BY <3>1
    <3> QED BY <3>1, <3>2, <3>3, <3>4
  <2>4. AllZero(img, w)
    <3>1. ASSUME NEW j \in 1 .. w PROVE ZeroOf(img, ZeroList[j], ZeroList[j][2])
      <4>1. CASE j = w
        BY <1>3, <1>5, <1>11, <2>2, <2>3, <4>1
      <4>2. CASE j # w
        <5>1. j \in 1 .. k - 1
          BY <2>3, <4>2
        <5> QED BY <1>10, <5>1 DEF AllZero
      <4> QED BY <4>1, <4>2
    <3> QED BY <3>1 DEF AllZero
  <2>5. ptr0' = from + 4 * w
    <3>1. ptr0 + 4 = from + 4 * w /\ from + 4 * w \in 0 .. S - 1
      <4>1. ptr0 = from + 4 * (w - 1)
        BY <1>3, <2>3
      <4>2. v < S
        BY <1>5
      <4>3. from + 4 * w \in 0 .. S - 1
        BY <2>3, <4>2
      <4> QED BY <4>1, <4>3
    <3> QED BY <1>5, <2>1, <3>1, ModSmall DEF Plus
  <2>6. w + 1 \in 1 .. Len(zero_records) + 1 /\ (w + 1) - 1 = w
    BY <2>3
  <2>7. PICK w1 : w1 = w + 1
    OBVIOUS
  <2>8. w1 \in 1 .. Len(zero_records) + 1 /\ ptr0' = table.zero + 4 * (w1 - 1)
    BY <2>3, <2>5, <2>6, <2>7
  <2>9. AllZero(img, w1 - 1)'
    BY <1>2, <2>4, <2>6, <2>7
  <2>10. AllZero(image, w1 - 1)'
    BY <1>8, <2>9
  <2>11. ZeroProgress'
    BY <1>2, <2>1, <2>8, <2>10 DEF ZeroProgress
  <2> QED BY <1>13, <1>14, <1>16, <1>17, <2>11 DEF Progress
<1>20. CASE left # 1
  <2>1. arg0' = left - 1 /\ arg0' # 0 /\ left - 1 \in 1 .. m
    BY <1>1, <1>6, <1>20
  <2>2. boot' = "_zero_loop" /\ ptr0' = table.zero + 4 * (k - 1)
    BY <1>1, <1>3, <2>1
  <2>3. m - (left - 1) = d + 1
    BY <1>6
  <2>4. ptr1' = r + (d + 1)
    <3>1. (r + d) + 1 \in 0 .. S - 1 /\ (r + d) + 1 = r + (d + 1)
      <4>1. r + m <= v /\ d < m /\ v < S
        BY <1>5, <1>6
      <4> QED BY <4>1
    <3> QED BY <1>1, <1>5, <1>7, <3>1, ModSmall DEF Plus
  <2>5. arg0' \in 1 .. e[2] /\ e[2] - arg0' = d + 1 /\ ptr1' = e[1] + (e[2] - arg0')
    BY <1>5, <2>1, <2>3, <2>4
  <2>6. AllZero(image, k - 1)' /\ ZeroOf(image, ZeroList[k], d + 1)'
    <3>1. AllZero(image, k - 1)'
      BY <1>8, <1>18
    <3>2. ZeroOf(image, ZeroList[k], d + 1)'
      BY <1>2, <1>3, <1>8, <1>18
    <3> QED BY <3>1, <3>2
  <2>7. /\ arg0' \in 1 .. ZeroList[k][2] /\ ZeroList[k][2] - arg0' = d + 1
        /\ ptr1' = ZeroList[k][1] + (ZeroList[k][2] - arg0')
    BY <1>3, <2>5
  <2>8. ZeroProgress'
    BY <1>2, <2>2, <2>6, <2>7 DEF ZeroProgress
  <2> QED BY <1>13, <1>14, <1>16, <1>17, <2>8 DEF Progress
<1> QED BY <1>19, <1>20

\* _call_init_loop: the next init function is called, or main when the word 0 is reached.
LEMMA DoneCallInit ==
  ASSUME BInv, CompleteInv, DoneInv, Bootable, CallInit
  PROVE  Progress' /\ (\A img : img = image' => InitsTabled(img))
<1>1. /\ Linked /\ image' = image /\ boot = "_call_init_loop" /\ ptr1' = WordAt(ptr0) /\ sp' = sp
      /\ IF ptr1' = 0 THEN boot' = "main" /\ called' = called
                      ELSE called' = Append(called, ptr1') /\ ptr0' = Plus(ptr0, 2) /\ boot' = boot
  BY DEF CallInit
<1>2. /\ table' = table /\ copy_records' = copy_records /\ zero_records' = zero_records
      /\ link' = link /\ stack' = stack
      /\ \A img, n : AllCopied(img, n)' <=> AllCopied(img, n)
      /\ \A img, n : AllZero(img, n)' <=> AllZero(img, n)
      /\ (\A x : Truth(x)' = Truth(x)) /\ (InitsCallable' <=> InitsCallable)
  BY <1>1, ProgressStays
<1>3. boot' \in {"_call_init_loop", "main"}
  BY <1>1
<1>4. CopyProgress'
  <2>1. AllCopied(image, Len(copy_records))
    BY <1>1 DEF DoneInv, CopyProgress
  <2>2. \A n : AllCopied(image, n)' <=> AllCopied(image, n)
    BY <1>1, <1>2
  <2>3. AllCopied(image, Len(copy_records))'
    BY <1>2, <2>1, <2>2
  <2> QED BY <1>3, <2>3 DEF CopyProgress
<1>5. ZeroProgress'
  <2>1. AllZero(image, Len(zero_records))
    BY <1>1 DEF DoneInv, ZeroProgress
  <2>2. \A n : AllZero(image, n)' <=> AllZero(image, n)
    BY <1>1, <1>2
  <2>3. AllZero(image, Len(zero_records))'
    BY <1>2, <2>1, <2>2
  <2> QED BY <1>3, <2>3 DEF ZeroProgress
<1>6. sp' = stack'.start
  BY <1>1, <1>2 DEF DoneInv, InitProgress
<1>7. InitsTabled(image)
  BY DEF DoneInv
<1>8. ASSUME InitsCallable
      PROVE  /\ boot' = "_call_init_loop" => CalledAre' /\ ptr0' = table'.init + 2 * Len(called')
             /\ boot' = "main" => CalledAre' /\ Len(called') = Len(link'.inits)
  <2>1. CalledAre /\ ptr0 = table.init + 2 * Len(called)
    BY <1>1, <1>8 DEF DoneInv, InitProgress
  <2>2. PICK n \in Nat, N \in Nat, from \in Nat, v \in Nat, S \in Nat :
          /\ n = Len(called) /\ N = Len(link.inits) /\ n <= N /\ from = table.init
          /\ v = VectorTable /\ S = Space /\ v < S /\ from + 2 * (N + 1) <= v
    <3>1. PICK N \in Nat : N = Len(link.inits)
      BY TablesFit
    <3>2. PICK n \in Nat : n = Len(called) /\ n <= N
      BY <2>1, <3>1 DEF CalledAre
    <3>3. PICK from \in Nat : from = table.init /\ from + 2 * (N + 1) <= VectorTable
      BY <3>1, TablesFit
    <3> QED BY <3>1, <3>2, <3>3, SpaceNat
  <2>3. called = [k \in 1 .. n |-> Truth(link.inits[k])]
    BY <2>1, <2>2 DEF CalledAre
  <2>4. ptr0 = from + 2 * n /\ WordAt(ptr0) = WordIn(image, from + 2 * n)
    BY <2>1, <2>2 DEF WordAt, WordIn
  <2>5. CASE n = N
    <3>1. WordAt(ptr0) = 0
      BY <1>7, <2>2, <2>4, <2>5 DEF InitsTabled
    <3>2. boot' = "main" /\ called' = called
      BY <1>1, <3>1
    <3>3. CalledAre'
      BY <1>2, <2>1, <3>2 DEF CalledAre
    <3> QED BY <1>2, <2>2, <2>5, <3>2, <3>3
  <2>6. CASE n # N
    <3>1. PICK k \in 1 .. N : k = n + 1 /\ k - 1 = n
      <4>1. n + 1 \in 1 .. N /\ (n + 1) - 1 = n
        BY <2>2, <2>6
      <4> QED BY <4>1
    <3>2. PICK w : w = Truth(link.inits[k])
      OBVIOUS
    <3>3. Inside(link.inits[k], 0) /\ w # 0
      <4>1. k \in DOMAIN link.inits
        <5>1. DOMAIN link.inits = 1 .. Len(link.inits)
          BY InitsAre DEF BInv
        <5> QED BY <2>2, <5>1
      <4> QED BY <1>8, <3>2, <4>1 DEF InitsCallable
    <3>4. WordAt(ptr0) = w
      BY <1>7, <2>2, <2>4, <3>1, <3>2, <3>3 DEF InitsTabled
    <3>5. called' = Append(called, w) /\ ptr0' = Plus(ptr0, 2) /\ boot' = boot
      BY <1>1, <3>3, <3>4
    <3>6. IsSeq(called)
      BY <2>2, <2>3 DEF IsSeq
    <3>7. PICK c : c = called'
      OBVIOUS
    <3>8. /\ IsSeq(c) /\ Len(c) = n + 1 /\ \A j \in 1 .. n : c[j] = called[j]
          /\ c[n + 1] = w
      BY <2>2, <3>5, <3>6, <3>7, AppendIs
    <3>9. \A j \in 1 .. n + 1 : c[j] = Truth(link.inits[j])
      <4>1. ASSUME NEW j \in 1 .. n + 1 PROVE c[j] = Truth(link.inits[j])
        <5>1. CASE j = n + 1
          BY <3>1, <3>2, <3>8, <5>1
        <5>2. CASE j # n + 1
          <6>1. j \in 1 .. n
            BY <5>2
          <6> QED BY <2>3, <3>8, <6>1
        <5> QED BY <5>1, <5>2
      <4> QED BY <4>1
    <3>10. c = [j \in 1 .. n + 1 |-> Truth(link.inits[j])]
      BY <3>8, <3>9 DEF IsSeq
    <3>11. CalledAre'
      <4>1. c = [j \in 1 .. n + 1 |-> Truth(link.inits[j])']
        BY <1>2, <3>10
      <4>2. n + 1 \in Nat /\ n + 1 <= N
        BY <3>1
      <4> QED BY <1>2, <2>2, <3>7, <3>8, <4>1, <4>2 DEF CalledAre
    <3>12. ptr0' = from + 2 * (n + 1)
      <4>1. ptr0 + 2 = from + 2 * (n + 1) /\ from + 2 * (n + 1) \in 0 .. S - 1
        <5>1. n + 1 <= N
          BY <3>1
        <5>2. from + 2 * (n + 1) \in 0 .. S - 1
          BY <2>2, <5>1
        <5> QED BY <2>4, <5>2
      <4> QED BY <2>2, <3>5, <4>1, ModSmall DEF Plus
    <3> QED BY <1>1, <1>2, <2>2, <3>5, <3>7, <3>8, <3>11, <3>12
  <2> QED BY <2>5, <2>6
<1>9. InitProgress'
  BY <1>2, <1>3, <1>6, <1>8 DEF InitProgress
<1> QED BY <1>1, <1>4, <1>5, <1>7, <1>9 DEF Progress

\* The invariant holds before the link,
LEMMA ReadyStarts == StartupInit => ReadyInv
<1> SUFFICES ASSUME StartupInit PROVE ReadyInv
  OBVIOUS
<1>1. Init /\ boot = "off" /\ called = <<>>
  BY DEF StartupInit
<1>2. BInv
  BY BootStarts
<1>3. CompleteInv
  BY <1>1, CompleteInit
<1>4. phase = "config"
  BY <1>1 DEF Init
<1>5. ImageInv
  BY <1>4 DEF ImageInv
<1>6. DoneInv
  BY <1>1, <1>4 DEF DoneInv, Bootable
<1> QED BY <1>2, <1>3, <1>5, <1>6 DEF ReadyInv

\* every step of the linker keeps it,
LEMMA ReadyLinking == ReadyInv /\ LinkNext /\ UNCHANGED registers => ReadyInv'
<1> SUFFICES ASSUME ReadyInv, LinkNext, UNCHANGED registers PROVE ReadyInv'
  OBVIOUS
<1>1. BInv /\ CompleteInv /\ ImageInv /\ DoneInv /\ IInv
  BY DEF ReadyInv, BInv
<1>2. phase # "linked" /\ boot = "off" /\ boot' = boot /\ called' = called
  BY <1>1 DEF LinkNext, CheckConfig, PlaceObject, PlaceText, PlaceRun, PlaceTables, WriteObject,
              WriteTables, registers, BInv, BootInv
<1>3. BInv'
  BY <1>1, StepLink
<1>4. CompleteInv'
  BY <1>1, CompleteInText, CompleteInRun, CompleteElsewhere DEF LinkNext
<1>5. ImageInv'
  BY <1>1, ImageWhilePlacing, ImageOneMore, ImageWithTables DEF LinkNext
<1>6. called = <<>>
  BY <1>1, <1>2 DEF DoneInv
<1>7. Progress'
  BY <1>2, <1>6 DEF Progress, CopyProgress, ZeroProgress, InitProgress
<1>8. ASSUME Bootable' PROVE \A img : img = image' => InitsTabled(img)'
  <2>1. WriteTables
    BY <1>2, <1>8 DEF Bootable, LinkNext, CheckConfig, PlaceObject, PlaceText, PlaceRun,
                      PlaceTables, WriteObject
  <2>2. Separate(link) /\ TablesWhole /\ UNCHANGED <<link, table, load_addr, run_addr>>
    BY <1>8, <2>1 DEF WriteTables, Bootable, TablesWhole, CopyTableSize, ZeroTableSize,
                      InitTableSize
  <2>3. \A img : img = image' => InitsTabled(img)
    BY <1>1, <2>1, <2>2, InitsWritten
  <2>4. \A img : InitsTabled(img)' <=> InitsTabled(img)
    BY <2>2, InitsStay
  <2> QED BY <2>3, <2>4
<1>9. DoneInv'
  BY <1>2, <1>6, <1>7, <1>8 DEF DoneInv, Progress
<1> QED BY <1>3, <1>4, <1>5, <1>9 DEF ReadyInv

\* every step of the start-up code keeps it,
LEMMA ReadyBooting == ReadyInv /\ StartupNext => ReadyInv'
<1> SUFFICES ASSUME ReadyInv, StartupNext PROVE ReadyInv'
  OBVIOUS
<1>1. BInv /\ CompleteInv /\ ImageInv /\ DoneInv /\ IInv
  BY DEF ReadyInv, BInv
<1>2. Linked
  BY DEF StartupNext, Reset, CopyRecord, CopyByte, ZeroRecord, ZeroByte, CallInit
<1>3. boot' # "off"
  BY DEF StartupNext, Reset, CopyRecord, CopyByte, ZeroRecord, ZeroByte, CallInit
<1>4. BInv'
  BY <1>1, StepReset, StepCopyRecord, StepCopyByte, StepZeroRecord, StepZeroByte, StepCallInit
     DEF StartupNext
<1>5. CompleteInv'
  BY <1>1, <1>2, CompleteElsewhere
<1>6. Bootable => image' = image \/ ByteInRun
  <2>1. CASE Reset \/ CopyRecord \/ ZeroRecord \/ CallInit
    BY <2>1 DEF Reset, CopyRecord, ZeroRecord, CallInit
  <2>2. CASE CopyByte
    BY <1>1, <2>2, DoneCopyByte
  <2>3. CASE ZeroByte
    BY <1>1, <2>3, DoneZeroByte
  <2> QED BY <2>1, <2>2, <2>3 DEF StartupNext
<1>7. ImageInv'
  BY <1>1, <1>2, <1>6, ImageInStartup
<1>8. Bootable => Progress' /\ \A img : img = image' => InitsTabled(img)
  BY <1>1, DoneReset, DoneCopyRecord, DoneCopyByte, DoneZeroRecord, DoneZeroByte, DoneCallInit
     DEF StartupNext
<1>9. DoneInv'
  BY <1>1, <1>2, <1>3, <1>8, DoneKept
<1> QED BY <1>4, <1>5, <1>7, <1>9 DEF ReadyInv

\* and so does a step that changes nothing.
LEMMA ReadyStutter == ReadyInv /\ UNCHANGED machine => ReadyInv'
<1> SUFFICES ASSUME ReadyInv, UNCHANGED machine PROVE ReadyInv'
  OBVIOUS
<1>1. BInv /\ CompleteInv /\ ImageInv /\ DoneInv /\ IInv /\ UNCHANGED vars /\ UNCHANGED registers
  BY DEF ReadyInv, BInv, machine
<1>2. BInv' /\ CompleteInv' /\ ImageInv'
  BY <1>1, StepNone, CompleteElsewhere, ImageStutter
<1>3. UNCHANGED <<link, table, load_addr, run_addr, stack, copy_records, zero_records, image, phase>>
  BY <1>1 DEF vars
<1>4. UNCHANGED <<boot, ptr0, ptr1, ptr2, arg0, sp, called>>
  BY <1>1 DEF registers
<1>5. (\A x : Truth(x)' = Truth(x)) /\ \A img : InitsTabled(img)' <=> InitsTabled(img)
  BY <1>3, InitsStay
<1>6. InitsTabled(image)' <=> InitsTabled(image)
  BY <1>3, <1>5
<1>7. Bootable' <=> Bootable
  BY <1>3 DEF Bootable, TablesWhole, CopyTableSize, ZeroTableSize, InitTableSize
<1>8. CopyList' = CopyList /\ ZeroList' = ZeroList
  BY <1>3 DEF CopyList, ZeroList
<1>9. CopyProgress' <=> CopyProgress
  BY <1>3, <1>4, <1>8 DEF CopyProgress, AllCopied, CopyOf
<1>10. ZeroProgress' <=> ZeroProgress
  BY <1>3, <1>4, <1>8 DEF ZeroProgress, AllZero, ZeroOf
<1>11. (InitsCallable' <=> InitsCallable) /\ (CalledAre' <=> CalledAre)
  BY <1>3, <1>4, <1>5 DEF InitsCallable, Inside, SegsOf, CalledAre
<1>12. InitProgress' <=> InitProgress
  BY <1>3, <1>4, <1>11 DEF InitProgress
<1>13. DoneInv'
  BY <1>1, <1>4, <1>6, <1>7, <1>9, <1>10, <1>12 DEF DoneInv
<1> QED BY <1>2, <1>13 DEF ReadyInv

\* At every point of the link and of start-up the records are those of the segments placed,
\* the image holds what was written, and the loops have done all that lies behind them.
THEOREM StartupDoes == MachineSpec => []ReadyInv
<1>1. ReadyInv /\ [MachineNext]_machine => ReadyInv'
  BY ReadyLinking, ReadyBooting, ReadyStutter DEF MachineNext
<1> QED BY <1>1, ReadyStarts, PTL DEF MachineSpec

\* A segment of an image in the buffer of its object.
LEMMA InImage ==
  ASSUME IInv, Separate(link), Placed, NEW p \in Places, NEW b \in {"TEXT", "DATA"},
         ImageSeg(Segment(p)) = b
  PROVE  /\ ImageBase(SegsOf(p[1]), p[2]) \in Nat /\ Segment(p).size \in Nat
         /\ ImageBase(SegsOf(p[1]), p[2]) + Segment(p).size <= Length(SegsOf(p[1]), b)
         /\ Length(SegsOf(p[1]), b) \in Nat
         /\ DOMAIN Segment(p).bytes = 1 .. Segment(p).size
<1>1. PICK i, k : i = p[1] /\ k = p[2]
  OBVIOUS
<1>2. link \in Links
  BY DEF IInv
<1>3. /\ i \in Objs /\ k \in 1 .. Len(SegsOf(i)) /\ Segment(p) = SegsOf(i)[k]
      /\ Segment(p).size \in Nat
  BY <1>1, <1>2, PlacesAre DEF Segment
<1>4. SegsOf(i) \in Seq(Segments)
  BY <1>2, <1>3, ObjectsTyped DEF SegsOf, Objs
<1>5. k \in DOMAIN SegsOf(i)
  BY <1>3, <1>4
<1>6. /\ i \in DOMAIN link.objects /\ k \in DOMAIN link.objects[i].segs
      /\ ImageSeg(link.objects[i].segs[k]) = b
  BY <1>3, <1>5 DEF Objs, SegsOf
<1>7. /\ ImageBase(link.objects[i].segs, k) \in Nat
      /\ ImageBase(link.objects[i].segs, k) + link.objects[i].segs[k].size
              <= Length(link.objects[i].segs, b)
      /\ Len(link.objects[i].segs[k].bytes) = link.objects[i].segs[k].size
  BY <1>2, <1>6, ImageInBuffer
<1>8. Length(SegsOf(i), b) \in Nat
  BY <1>3, LoadsApart
<1>9. Segment(p).bytes \in Seq(0 .. Byte - 1)
  <2>1. Segment(p) \in Segments
    BY <1>3, <1>4, <1>5
  <2> QED BY <2>1 DEF Segments
<1>10. DOMAIN Segment(p).bytes = 1 .. Len(Segment(p).bytes)
  BY <1>9
<1> QED BY <1>1, <1>3, <1>7, <1>8, <1>10 DEF SegsOf

\* The code of a segment is where it was loaded, relocated: no loop wrote over it.
LEMMA TextReady ==
  ASSUME ReadyInv, Bootable, NEW p \in Places, Segment(p).segid = "TEXT"
  PROVE  \A o \in DOMAIN Segment(p).bytes :
           image[BaseAddr(p[1], p[2]) + o - 1]
             = Relocated(p[1], "TEXT").buf[ImageBase(SegsOf(p[1]), p[2]) + o]
<1>1. PICK i, k : i = p[1] /\ k = p[2]
  OBVIOUS
<1>2. IInv /\ Separate(link) /\ TablesWhole /\ Placed /\ phase = "linked" /\ link \in Links
      /\ BInv /\ CompleteInv /\ ImageInv
  BY DEF ReadyInv, BInv, Bootable, Placed, IInv
<1>3. ImageSeg(Segment(p)) = "TEXT"
  BY DEF ImageSeg
<1>4. PICK b \in Nat, n \in Nat, m \in Nat, t \in Nat, S \in Nat, v \in Nat :
        /\ b = ImageBase(SegsOf(i), k) /\ n = Segment(p).size /\ m = Length(SegsOf(i), "TEXT")
        /\ b + n <= m /\ t = text_load[i] /\ S = Space /\ v = VectorTable /\ v < S
        /\ DOMAIN Segment(p).bytes = 1 .. n
  <2>1. i \in Objs
    BY <1>1, <1>2, PlacesAre
  <2>2. text_load[i] \in Nat
    BY <1>2, <2>1, LoadsApart
  <2> QED BY <1>1, <1>2, <1>3, <2>2, InImage, SpaceNat
<1>5. i \in Objs /\ Segment(p) = SegsOf(i)[k]
  BY <1>1, <1>2, PlacesAre DEF Segment
<1>6. PICK buf : buf = Relocated(i, "TEXT").buf
  OBVIOUS
<1>7. Holds(image, t, buf, m)
  BY <1>2, <1>4, <1>5, <1>6 DEF ImageInv, ObjectWritten
<1>8. ASSUME NEW o \in 1 .. n
      PROVE  image[BaseAddr(i, k) + o - 1] = buf[b + o]
  <2>1. t + m <= v
    <3>1. t + m - 1 \in Nat /\ t <= t + m - 1 /\ t + m - 1 < t + m
      BY <1>4
    <3>2. LoadsOutside(t + m - 1, i, "text")
      BY <1>2, <1>4, <1>5, <3>1, LoadsApart
    <3>3. t + m - 1 < v
      BY <1>4, <3>2 DEF LoadsOutside
    <3> QED BY <3>1, <3>3
  <2>2. load_addr[p] = LoadAddr(i, k)
    BY <1>1, <1>2 DEF CompleteInv
  <2>3. LoadAddr(i, k) = (t + b) % S
    BY <1>3, <1>4, <1>5 DEF LoadAddr
  <2>4. t + b \in 0 .. S - 1
    <3>1. b + n <= m /\ v < S
      BY <1>4
    <3> QED BY <2>1, <3>1
  <2>5. load_addr[p] = t + b
    BY <1>4, <2>2, <2>3, <2>4, ModSmall
  <2>6. p = <<i, k>>
    BY <1>1, <1>2, PlacesAre
  <2>7. BaseAddr(i, k) = t + b
    BY <1>5, <2>5, <2>6 DEF BaseAddr
  <2>8. b + o \in 1 .. m /\ (t + b) + o - 1 = t + (b + o) - 1
    <3>1. o \in Nat /\ 1 <= o /\ o <= n
      OBVIOUS
    <3>2. b + n <= m
      BY <1>4
    <3> QED BY <3>1, <3>2
  <2>9. image[t + (b + o) - 1] = buf[b + o]
    BY <1>7, <2>8 DEF Holds
  <2> QED BY <2>7, <2>8, <2>9
<1> QED BY <1>1, <1>4, <1>6, <1>8

\* The data of a segment is, relocated, where the segment runs: the copy loop put it there.
LEMMA DataReady ==
  ASSUME ReadyInv, Bootable, boot = "main", NEW p \in Places, Segment(p).segid # "TEXT",
         ImageSeg(Segment(p)) = "DATA"
  PROVE  \A o \in DOMAIN Segment(p).bytes :
           image[BaseAddr(p[1], p[2]) + o - 1]
             = Relocated(p[1], "DATA").buf[ImageBase(SegsOf(p[1]), p[2]) + o]
<1>1. PICK i, k : i = p[1] /\ k = p[2]
  OBVIOUS
<1>2. IInv /\ Separate(link) /\ TablesWhole /\ Placed /\ phase = "linked" /\ link \in Links
      /\ BInv /\ CompleteInv /\ ImageInv /\ DoneInv
  BY DEF ReadyInv, BInv, Bootable, Placed, IInv
<1>3. PICK n \in Nat : n = Segment(p).size /\ DOMAIN Segment(p).bytes = 1 .. n
  BY <1>2, InImage
<1> SUFFICES ASSUME NEW o \in 1 .. n
             PROVE  image[BaseAddr(i, k) + o - 1]
                      = Relocated(i, "DATA").buf[ImageBase(SegsOf(i), k) + o]
  BY <1>1, <1>3
<1>4. Copied(p)
  <2>1. n > 0
    OBVIOUS
  <2> QED BY <1>3, <2>1 DEF Copied
<1>5. PICK l \in Nat, r \in Nat, t \in Nat, b \in Nat, m \in Nat :
        /\ l = load_addr[p] /\ r = run_addr[p] /\ t = data_load[i] /\ b = ImageBase(SegsOf(i), k)
        /\ m = Length(SegsOf(i), "DATA") /\ l = t + b /\ b + n <= m
  <2>1. CopyLies(p, i, k)
    BY <1>1, <1>2, <1>4, CopyLiesIn
  <2> QED BY <1>3, <2>1 DEF CopyLies
<1>6. i \in Objs /\ Segment(p) = SegsOf(i)[k] /\ p = <<i, k>>
  BY <1>1, <1>2, PlacesAre DEF Segment
<1>7. BaseAddr(i, k) = r
  BY <1>5, <1>6 DEF BaseAddr
<1>8. PICK buf : buf = Relocated(i, "DATA").buf
  OBVIOUS
<1>9. Holds(image, t, buf, m)
  BY <1>2, <1>5, <1>6, <1>8 DEF ImageInv, ObjectWritten
<1>10. image[l + (o - 1)] = buf[b + o]
  <2>1. b + o \in 1 .. m /\ t + (b + o) - 1 = l + (o - 1)
    <3>1. b + n <= m /\ l = t + b
      BY <1>5
    <3> QED BY <3>1
  <2>2. image[t + (b + o) - 1] = buf[b + o]
    BY <1>9, <2>1 DEF Holds
  <2> QED BY <2>1, <2>2
<1>11. image[r + (o - 1)] = image[l + (o - 1)]
  <2>1. PICK j \in 1 .. Len(copy_records) : CopyList[j] = CopyRow(p)
    BY <1>2, <1>4, RowsAre
  <2>2. AllCopied(image, Len(copy_records))
    BY <1>2 DEF DoneInv, CopyProgress
  <2>3. CopyOf(image, CopyList[j], CopyList[j][3])
    BY <2>2 DEF AllCopied
  <2>4. PICK e : e = CopyList[j]
    OBVIOUS
  <2>5. e[1] = l /\ e[2] = r /\ e[3] = n
    <3>1. e[1] = load_addr[p] /\ e[2] = run_addr[p] /\ e[3] = Segment(p).size
      BY <2>1, <2>4 DEF CopyRow
    <3> QED BY <1>3, <1>5, <3>1
  <2>6. CopyOf(image, e, n)
    BY <2>3, <2>4, <2>5
  <2>7. o - 1 \in 0 .. n - 1
    OBVIOUS
  <2>8. image[e[2] + (o - 1)] = image[e[1] + (o - 1)]
    BY <2>6, <2>7 DEF CopyOf
  <2> QED BY <2>5, <2>8
<1>12. r + (o - 1) = r + o - 1
  OBVIOUS
<1> QED BY <1>5, <1>7, <1>8, <1>10, <1>11, <1>12

\* A BSS segment is zero: the zero loop cleared it and no copy came after.
LEMMA BssReady ==
  ASSUME ReadyInv, Bootable, boot = "main", NEW p \in Places, Segment(p).segid = "BSS"
  PROVE  \A o \in 0 .. Segment(p).size - 1 : image[BaseAddr(p[1], p[2]) + o] = 0
<1>1. link \in Links /\ BInv /\ CompleteInv /\ DoneInv
  BY DEF ReadyInv, BInv, IInv
<1>2. PICK n \in Nat : n = Segment(p).size
  BY <1>1, PlacesAre
<1> SUFFICES ASSUME NEW o \in 0 .. n - 1 PROVE image[BaseAddr(p[1], p[2]) + o] = 0
  BY <1>2
<1>3. Zeroed(p)
  <2>1. n > 0
    OBVIOUS
  <2> QED BY <1>2, <2>1 DEF Zeroed
<1>4. PICK j \in 1 .. Len(zero_records) : ZeroList[j] = ZeroRow(p)
  BY <1>1, <1>3, RowsAre
<1>5. AllZero(image, Len(zero_records))
  BY <1>1 DEF DoneInv, ZeroProgress
<1>6. ZeroOf(image, ZeroList[j], ZeroList[j][2])
  BY <1>5 DEF AllZero
<1>7. ZeroOf(image, <<run_addr[p], n>>, n)
  BY <1>2, <1>4, <1>6 DEF ZeroRow
<1>8. image[run_addr[p] + o] = 0
  BY <1>7 DEF ZeroOf
<1>9. BaseAddr(p[1], p[2]) = run_addr[p]
  <2>1. p = <<p[1], p[2]>>
    BY <1>1, PlacesAre
  <2> QED BY <2>1 DEF BaseAddr, Segment
<1> QED BY <1>8, <1>9

\* When main starts, the progress of the loops is all of the work.
LEMMA ReadyIsReady == ReadyInv => ReadyForMain
<1> SUFFICES ASSUME ReadyInv, Bootable, boot = "main" PROVE ReadyForMain
  BY DEF ReadyForMain
<1>1. BInv /\ IInv /\ DoneInv /\ link \in Links
  BY DEF ReadyInv, BInv, IInv
<1>2. sp = stack.start
  BY <1>1 DEF DoneInv, InitProgress
<1>3. InitsCallable => called = [k \in DOMAIN link.inits |-> Truth(link.inits[k])]
  <2>1. DOMAIN link.inits = 1 .. Len(link.inits)
    BY <1>1, InitsAre
  <2> QED BY <1>1, <2>1 DEF DoneInv, InitProgress, CalledAre
<1>4. ASSUME NEW p \in Places
      PROVE  LET s == SegsOf(p[1])[p[2]]
                 b == ImageSeg(s)
                 home == BaseAddr(p[1], p[2])
             IN  IF s.segid = "BSS" THEN \A o \in 0 .. s.size - 1 : image[home + o] = 0
                 ELSE LET buf == Relocated(p[1], b).buf IN
                      \A o \in DOMAIN s.bytes : image[home + o - 1] = buf[ImageBase(SegsOf(p[1]), p[2]) + o]
  <2>1. Segment(p) = SegsOf(p[1])[p[2]]
    BY DEF Segment
  <2>2. Segment(p) \in Segments
    <3>1. p[1] \in Objs /\ p[2] \in 1 .. Len(SegsOf(p[1]))
      BY <1>1, PlacesAre
    <3>2. SegsOf(p[1]) \in Seq(Segments)
      BY <1>1, <3>1, ObjectsTyped DEF SegsOf, Objs
    <3> QED BY <2>1, <3>1, <3>2
  <2>3. CASE Segment(p).segid = "BSS"
    BY <2>1, <2>3, BssReady
  <2>4. CASE Segment(p).segid = "TEXT"
    <3>1. ImageSeg(Segment(p)) = "TEXT"
      BY <2>4 DEF ImageSeg
    <3> QED BY <2>1, <2>4, <3>1, TextReady
  <2>5. CASE Segment(p).segid \notin {"BSS", "TEXT"} /\ ImageSeg(Segment(p)) = "DATA"
    BY <2>1, <2>5, DataReady
  <2>6. CASE Segment(p).segid \notin {"BSS", "TEXT"} /\ ImageSeg(Segment(p)) # "DATA"
    <3>1. Segment(p).bytes = <<>>
      BY <2>2, <2>6 DEF Segments, SegIds, ImageSeg
    <3>2. DOMAIN Segment(p).bytes = {}
      BY <3>1
    <3> QED BY <2>1, <2>6, <3>2
  <2> QED BY <2>3, <2>4, <2>5, <2>6
<1> QED BY <1>2, <1>3, <1>4 DEF ReadyForMain

\* When main starts, every byte of code and initialised data is, relocated, at the address
\* where its segment runs, BSS is zero, the init functions have been called in the order of
\* their table (when each is a label inside a segment) and the stack is empty.
THEOREM MainFindsItsMemory == MachineSpec => []ReadyForMain
BY StartupDoes, ReadyIsReady, PTL

-----------------------------------------------------------------------------
\* The references of an object: what the assembler leaves in their operands, what the
\* linker makes of it one after the other, and where that goes in the image.

\* Intervals that are apart are no longer, all together, than what they lie in.
LEMMA ApartFits ==
  ASSUME NEW n \in Nat, NEW f \in [1 .. n -> Nat], NEW a, NEW S \in Nat,
         \A j \in 1 .. n : f[j] > 0 => a[j] \in Nat /\ a[j] + f[j] <= S,
         \A j, l \in 1 .. n : j # l /\ f[j] > 0 /\ f[l] > 0
                              => a[j] + f[j] <= a[l] \/ a[l] + f[l] <= a[j]
  PROVE  Total(f, n) <= S
<1>0. Total(f, 0) = 0 /\ \A j \in 1 .. n : Total(f, j) = Total(f, j - 1) + f[j] /\ f[j] \in Nat
  <2>1. Total(f, 0) = 0 /\ \A k \in Nat \ {0} : Total(f, k) = Total(f, k - 1) + f[k]
    BY TotalSteps
  <2>2. 1 .. n \subseteq Nat \ {0} /\ \A j \in 1 .. n : f[j] \in Nat
    OBVIOUS
  <2> QED BY <2>1, <2>2, Zenon
<1> DEFINE I(j) == {x \in 0 .. S - 1 : f[j] > 0 /\ a[j] <= x /\ x < a[j] + f[j]}
           U(k) == {x \in 0 .. S - 1 : \E j \in 1 .. k : x \in I(j)}
           F(k) == Total(f, k)
           Good(k) == F(k) = Cardinality(U(k))
           Bad == {k \in 0 .. n : ~Good(k)}
<1>1. F(0) = 0 /\ \A j \in 1 .. n : F(j) = F(j - 1) + f[j] /\ f[j] \in Nat
  BY <1>0
<1>2. IsFiniteSet(0 .. S - 1) /\ Cardinality(0 .. S - 1) = S
  BY FS_Interval
<1>3. \A k : IsFiniteSet(U(k)) /\ Cardinality(U(k)) <= S
  <2> TAKE k
  <2>1. U(k) \in SUBSET (0 .. S - 1)
    OBVIOUS
  <2> HIDE DEF U
  <2> QED BY <1>2, <2>1, FS_Subset
<1>4. ASSUME NEW j \in 1 .. n
      PROVE  IsFiniteSet(I(j)) /\ Cardinality(I(j)) = f[j]
  <2>1. CASE f[j] = 0
    <3>1. I(j) = {}
      BY <2>1
    <3> HIDE DEF I
    <3> QED BY <2>1, <3>1, FS_EmptySet
  <2>2. CASE f[j] # 0
    <3>1. f[j] \in Nat /\ f[j] > 0
      BY <2>2
    <3>2. PICK from \in Nat, m \in Nat : from = a[j] /\ m = f[j] /\ from + m <= S /\ m > 0
      BY <3>1
    <3>3. I(j) = from .. from + m - 1
      <4>1. \A x \in 0 .. S - 1 : x \in I(j) <=> from <= x /\ x < from + m
        BY <3>2
      <4>2. I(j) \subseteq 0 .. S - 1
        OBVIOUS
      <4>3. \A x : x \in from .. from + m - 1 <=> x \in 0 .. S - 1 /\ from <= x /\ x < from + m
        BY <3>2
      <4> HIDE DEF I
      <4>4. \A x : x \in I(j) <=> x \in from .. from + m - 1
        BY <4>1, <4>2, <4>3
      <4> QED BY <4>4
    <3>4. from \in Int /\ from + m - 1 \in Int /\ ~(from > from + m - 1) /\ (from + m - 1) - from + 1 = m
      BY <3>2
    <3> HIDE DEF I
    <3> QED BY <3>2, <3>3, <3>4, FS_Interval
  <2> QED BY <2>1, <2>2
<1>5. \A k \in 1 .. n : U(k) = U(k - 1) \cup I(k) /\ U(k - 1) \cap I(k) = {}
  <2> TAKE k \in 1 .. n
  <2>1. \A j : j \in 1 .. k <=> j \in 1 .. k - 1 \/ j = k
    OBVIOUS
  <2>2. \A j \in 1 .. k - 1 : I(j) \cap I(k) = {}
    <3> TAKE j \in 1 .. k - 1
    <3> SUFFICES ASSUME NEW x \in I(j), x \in I(k) PROVE FALSE
      OBVIOUS
    <3>1. j \in 1 .. n /\ j # k
      OBVIOUS
    <3>2. f[j] > 0 /\ f[k] > 0 /\ a[j] <= x /\ x < a[j] + f[j] /\ a[k] <= x /\ x < a[k] + f[k] /\ x \in Nat
      OBVIOUS
    <3>3. a[j] \in Nat /\ a[k] \in Nat /\ f[j] \in Nat /\ f[k] \in Nat
      BY <3>1, <3>2
    <3>4. a[j] + f[j] <= a[k] \/ a[k] + f[k] <= a[j]
      BY <3>1, <3>2
    <3> QED BY <3>2, <3>3, <3>4
  <2>3. I(k) \subseteq 0 .. S - 1
    OBVIOUS
  <2> HIDE DEF I
  <2> QED BY <2>1, <2>2, <2>3
<1>6. U(0) = {}
  OBVIOUS
<1> HIDE DEF F, U, I
<1>7. Good(0)
  BY <1>1, <1>6, FS_EmptySet
<1>8. Bad = {}
  <2> SUFFICES ASSUME Bad # {} PROVE FALSE
    OBVIOUS
  <2>1. PICK k \in Bad : \A j \in Bad : k <= j
    <3> HIDE DEF Good
    <3>1. Bad \subseteq Nat
      OBVIOUS
    <3> HIDE DEF Bad
    <3> QED BY <3>1, FirstIn
  <2>2. k \in 1 .. n
    BY <1>7
  <2>3. F(k - 1) = Cardinality(U(k - 1))
    <3>1. k - 1 \in 0 .. n /\ ~(k <= k - 1)
      BY <2>2
    <3> QED BY <2>1, <3>1
  <2>4. Cardinality(U(k)) = Cardinality(U(k - 1)) + Cardinality(I(k)) - Cardinality(U(k - 1) \cap I(k))
    BY <1>3, <1>4, <1>5, <2>2, FS_Union
  <2>5. Cardinality(U(k - 1) \cap I(k)) = 0
    BY <1>5, <2>2, FS_EmptySet
  <2>6. Cardinality(U(k - 1)) \in Nat
    BY <1>3, FS_CardinalityType
  <2>7. Good(k)
    BY <1>1, <1>4, <2>2, <2>3, <2>4, <2>5, <2>6
  <2> QED BY <2>7
<1>9. Good(n)
  BY <1>8
<1> QED BY <1>3, <1>9 DEF F

\* So a packed address of a placed segment fits into 16 bits.
LEMMA PackedFits ==
  ASSUME IInv, Separate(link), Placed, NEW i \in Objs, NEW k \in DOMAIN SegsOf(i)
  PROVE  PackedBase(SegsOf(i), k) \in Nat /\ PackedBase(SegsOf(i), k) + SegsOf(i)[k].size <= Space
<1> DEFINE segs == SegsOf(i)
           with(j) == IF segs[k].segid = "ZP" THEN segs[j].segid = "ZP"
                      ELSE ImageSeg(segs[j]) = ImageSeg(segs[k])
           g == [j \in DOMAIN segs |-> IF with(j) THEN segs[j].size ELSE 0]
<1>1. link \in Links /\ segs \in Seq(Segments)
  BY ObjectsTyped DEF IInv, Objs, SegsOf
<1>2. PICK n \in Nat, S \in Nat : n = Len(segs) /\ DOMAIN segs = 1 .. n /\ S = Space /\ k \in 1 .. n
  BY <1>1, SpaceNat
<1>3. \A j \in 1 .. n : segs[j] \in Segments
  BY <1>1, <1>2
<1>4. \A j \in 1 .. n : segs[j].size \in Nat /\ segs[j].segid \in SegIds
  BY <1>3 DEF Segments
<1>5. PackedBase(segs, k) = Total(g, k - 1)
  BY DEF PackedBase, Behind
<1>6. g[k] = segs[k].size /\ g \in [1 .. n -> Nat] /\ DOMAIN g = 1 .. n
  BY <1>2, <1>4
<1>7. /\ Total(g, k - 1) \in Nat /\ Total(g, k) = Total(g, k - 1) + g[k]
      /\ Total(g, n) \in Nat /\ Total(g, k) <= Total(g, n)
  <2> HIDE DEF g
  <2> QED BY <1>2, <1>6, TotalsOrder
<1>8. Total(g, n) <= S
  <2>1. CASE segs[k].segid = "TEXT"
    <3>1. PICK p : p = <<i, k>>
      OBVIOUS
    <3>2. p \in Places /\ Segment(p) = segs[k] /\ p[1] = i /\ p[2] = k
      BY <3>1 DEF Places, Segment
    <3>3. ImageSeg(segs[k]) = "TEXT"
      BY <2>1 DEF ImageSeg
    <3>4. TextBlock(i) \in Blocks /\ TextBlock(i).size = Length(segs, "TEXT") /\ TextBlock(i).from = text_load[i]
      BY DEF Blocks, TextBlock, Block
    <3>5. Length(segs, "TEXT") = Total(g, n)
      <4> DEFINE c == [j \in DOMAIN segs |-> IF ImageSeg(segs[j]) = "TEXT" THEN segs[j].bytes ELSE <<>>]
      <4>1. \A j \in 1 .. n : Len(c[j]) = g[j]
        <5> TAKE j \in 1 .. n
        <5>1. ImageSeg(segs[j]) = "TEXT" => segs[j].segid = "TEXT"
          BY DEF ImageSeg
        <5>2. segs[j].segid = "TEXT" => Len(segs[j].bytes) = segs[j].size
          BY <1>1, <1>2, LinksAssumption DEF WellFormed, SegsOf, Objs
        <5>3. with(j) <=> ImageSeg(segs[j]) = "TEXT"
          BY <2>1, <3>3
        <5> QED BY <1>2, <5>1, <5>2, <5>3
      <4>2. c \in Seq(Seq(0 .. Byte - 1)) /\ Len(c) = n
        <5>1. \A j \in 1 .. n : c[j] \in Seq(0 .. Byte - 1)
          <6> TAKE j \in 1 .. n
          <6>1. segs[j].bytes \in Seq(0 .. Byte - 1)
            BY <1>3 DEF Segments
          <6>2. <<>> \in Seq(0 .. Byte - 1)
            OBVIOUS
          <6> QED BY <1>2, <6>1, <6>2
        <5>2. DOMAIN c = 1 .. n /\ c = [j \in 1 .. n |-> c[j]]
          BY <1>2
        <5> HIDE DEF c
        <5> QED BY <5>1, <5>2
      <4>3. Buffer(segs, "TEXT") = FlattenSeq(c)
        BY DEF Buffer
      <4> HIDE DEF c, g
      <4>4. Len(FlattenSeq(c)) = Total(g, n)
        BY <4>1, <4>2, FlattenLength
      <4> QED BY <4>3, <4>4 DEF Length
    <3>6. Packed(Blocks, link.mem, cur) /\ Cursors(link.mem, cur)
      BY DEF IInv, Packing
    <3>7. PICK b \in Blocks : b = TextBlock(i)
      BY <3>4
    <3>8. /\ b.region \in DOMAIN link.mem /\ b.from \in Nat /\ b.size \in Nat
          /\ b.from + b.size <= cur[b.region] /\ cur[b.region] \in 0 .. Space - 1
      BY <3>6 DEF Packed, Cursors
    <3> QED BY <1>2, <1>7, <3>4, <3>5, <3>7, <3>8
  <2>2. CASE segs[k].segid # "TEXT"
    <3> DEFINE a == [j \in 1 .. n |-> run_addr[<<i, j>>]]
    <3>1. ASSUME NEW j \in 1 .. n, g[j] > 0
          PROVE  /\ g[j] = segs[j].size /\ <<i, j>> \in Running /\ Segment(<<i, j>>) = segs[j]
                 /\ a[j] = run_addr[<<i, j>>]
      <4>1. with(j) /\ g[j] = segs[j].size
        BY <1>2, <3>1
      <4>2. segs[j].segid # "TEXT"
        BY <1>4, <2>2, <4>1 DEF ImageSeg, SegIds
      <4>3. <<i, j>> \in Places
        BY <1>2 DEF Places
      <4>4. Segment(<<i, j>>) = segs[j]
        BY DEF Segment
      <4> QED BY <4>1, <4>2, <4>3, <4>4 DEF Running
    <3>2. ASSUME NEW j \in 1 .. n, g[j] > 0
          PROVE  /\ RunBlock(<<i, j>>) \in Blocks /\ RunBlock(<<i, j>>).from = a[j]
                 /\ RunBlock(<<i, j>>).size = g[j] /\ RunBlock(<<i, j>>).id = <<"run", <<i, j>>>>
                 /\ a[j] \in Nat /\ a[j] + g[j] <= S
      <4>1. PICK p : p = <<i, j>>
        OBVIOUS
      <4>2. p \in Running /\ Segment(p) = segs[j] /\ g[j] = segs[j].size /\ a[j] = run_addr[p]
        BY <3>1, <3>2, <4>1
      <4>3. RunBlock(p) \in Blocks
        BY <4>2 DEF Blocks, Running, RunBlock, Segment
      <4>4. RunBlock(p).from = a[j] /\ RunBlock(p).size = g[j] /\ RunBlock(p).id = <<"run", p>>
        BY <4>2 DEF RunBlock, Block
      <4>5. run_addr[p] \in Nat /\ run_addr[p] + Segment(p).size <= VectorTable
        BY <3>2, <4>2, RunLies
      <4>6. VectorTable < S /\ VectorTable \in Nat
        BY <1>2, SpaceNat
      <4> HIDE DEF a, g
      <4>7. g[j] \in Nat
        BY <1>6
      <4> QED BY <4>1, <4>2, <4>3, <4>4, <4>5, <4>6, <4>7
    <3>3. ASSUME NEW j \in 1 .. n, NEW l \in 1 .. n, j # l, g[j] > 0, g[l] > 0
          PROVE  a[j] + g[j] <= a[l] \/ a[l] + g[l] <= a[j]
      <4>1. PICK b \in Blocks, d \in Blocks : b = RunBlock(<<i, j>>) /\ d = RunBlock(<<i, l>>)
        BY <3>2, <3>3
      <4>2. b.id # d.id
        BY <3>2, <3>3, <4>1
      <4>3. b.size > 0 /\ d.size > 0
        BY <3>2, <3>3, <4>1
      <4>4. b.from + b.size <= d.from \/ d.from + d.size <= b.from
        BY <4>2, <4>3, PackedIsDisjoint DEF BlocksDisjoint
      <4> HIDE DEF a, g
      <4> QED BY <3>2, <3>3, <4>1, <4>4
    <3> HIDE DEF a, g
    <3>4. \A j \in 1 .. n : g[j] > 0 => a[j] \in Nat /\ a[j] + g[j] <= S
      BY <3>2
    <3>5. \A j, l \in 1 .. n : j # l /\ g[j] > 0 /\ g[l] > 0
                              => a[j] + g[j] <= a[l] \/ a[l] + g[l] <= a[j]
      BY <3>3
    <3> QED BY <1>6, <3>4, <3>5, ApartFits
  <2> QED BY <2>1, <2>2
<1> HIDE DEF g
<1>9. PackedBase(segs, k) \in Nat /\ PackedBase(segs, k) + segs[k].size <= S
  BY <1>2, <1>4, <1>5, <1>6, <1>7, <1>8
<1> QED BY <1>2, <1>9

\* A remainder is determined by what it is the remainder of.
LEMMA ModIs ==
  ASSUME NEW S \in Nat \ {0}, NEW c \in Nat, NEW r \in 0 .. S - 1
  PROVE  (S * c + r) % S = r /\ (S * c + r) \div S = c
<1>1. PICK w \in Nat : w = S * c + r
  <2>1. S * c \in Nat
    OBVIOUS
  <2> QED BY <2>1
<1>2. PICK q \in Nat, d \in Nat : q = w \div S /\ d = w % S
  <2>1. w \div S \in Nat /\ w % S \in Nat
    BY <1>1
  <2> QED BY <2>1
<1>3. w = S * q + d /\ d < S
  BY <1>1, <1>2
<1>4. q = c
  <2>1. CASE q > c
    <3>1. q >= c + 1 /\ S * q >= S * (c + 1) /\ S * (c + 1) = S * c + S
      BY <2>1
    <3>2. S * q \in Nat /\ S * c \in Nat
      OBVIOUS
    <3> QED BY <1>1, <1>3, <3>1, <3>2
  <2>2. CASE q < c
    <3>1. c >= q + 1 /\ S * c >= S * (q + 1) /\ S * (q + 1) = S * q + S
      BY <2>2
    <3>2. S * q \in Nat /\ S * c \in Nat
      OBVIOUS
    <3> QED BY <1>1, <1>3, <3>1, <3>2
  <2> QED BY <2>1, <2>2
<1>5. d = r
  <2>1. S * q = S * c /\ S * c \in Nat
    BY <1>4
  <2> QED BY <1>1, <1>3, <2>1
<1> QED BY <1>1, <1>2, <1>4, <1>5

\* Quotient and remainder.
LEMMA DivMod ==
  ASSUME NEW S \in Nat \ {0}, NEW z \in Nat
  PROVE  \E q \in Nat, d \in 0 .. S - 1 : z = S * q + d /\ d = z % S
<1>1. PICK q \in Nat, d \in 0 .. S - 1 : q = z \div S /\ d = z % S
  <2>1. z \div S \in Nat /\ z % S \in 0 .. S - 1
    OBVIOUS
  <2> QED BY <2>1
<1>2. z = S * q + d
  BY <1>1
<1> QED BY <1>1, <1>2

\* Whole turns of the address space do not count,
LEMMA ModTurns ==
  ASSUME NEW S \in Nat \ {0}, NEW c \in Nat, NEW z \in Nat
  PROVE  (S * c + z) % S = z % S
<1>1. PICK q \in Nat, d \in 0 .. S - 1 : z = S * q + d /\ d = z % S
  BY DivMod
<1>2. S * c + z = S * (c + q) + d
  <2>1. S * (c + q) = S * c + S * q /\ S * c \in Nat /\ S * q \in Nat
    OBVIOUS
  <2> QED BY <1>1, <2>1
<1>3. PICK e \in Nat : e = c + q
  OBVIOUS
<1>4. (S * e + d) % S = d
  BY ModIs
<1>5. S * c + z = S * e + d
  BY <1>2, <1>3
<1> QED BY <1>1, <1>4, <1>5, Zenon

\* so that a remainder may be taken of a summand first.
LEMMA ModSum ==
  ASSUME NEW S \in Nat \ {0}, NEW x \in Nat, NEW y \in Nat
  PROVE  ((x % S) + y) % S = (x + y) % S /\ (x + (y % S)) % S = (x + y) % S
<1>1. ASSUME NEW a \in Nat, NEW e \in Nat
      PROVE  ((a % S) + e) % S = (a + e) % S
  <2>1. PICK q \in Nat, d \in 0 .. S - 1 : a = S * q + d /\ d = a % S
    BY DivMod
  <2>2. a + e = S * q + (d + e) /\ d + e \in Nat
    <3>1. S * q \in Nat
      OBVIOUS
    <3> QED BY <2>1, <3>1
  <2>3. PICK y0 \in Nat : y0 = d + e
    OBVIOUS
  <2>4. (S * q + y0) % S = y0 % S
    BY ModTurns
  <2>5. a + e = S * q + y0 /\ (a % S) + e = y0
    BY <2>1, <2>2, <2>3
  <2> QED BY <2>4, <2>5, Zenon
<1>3. ((y % S) + x) % S = (y + x) % S /\ ((x % S) + y) % S = (x + y) % S
  BY <1>1
<1>4. (y % S) + x = x + (y % S) /\ y + x = x + y
  <2>1. y % S \in Nat
    BY ModRange
  <2> QED BY <2>1
<1> QED BY <1>3, <1>4

\* The two bytes of an address.
LEMMA LowHigh ==
  ASSUME NEW w \in Nat
  PROVE  /\ Low(w) \in 0 .. Byte - 1 /\ High(w) \in 0 .. Byte - 1
         /\ w < Space => Low(w) + Byte * High(w) = w
<1>1. PICK B \in Nat : B = Byte /\ B >= 3
  BY ByteAssumption
<1>2. PICK q \in Nat, r \in 0 .. B - 1 : q = w \div B /\ r = w % B
  <2>1. w \div B \in Nat /\ w % B \in 0 .. B - 1
    BY <1>1
  <2> QED BY <2>1
<1>3. PICK h \in 0 .. B - 1 : h = q % B
  <2>1. q % B \in 0 .. B - 1
    BY <1>1
  <2> QED BY <2>1
<1>4. Low(w) = r /\ High(w) = h
  BY <1>1, <1>2, <1>3 DEF Low, High
<1>5. ASSUME w < Space PROVE r + B * h = w
  <2>1. PICK x \in Nat : x = r + B * h /\ x < B * B
    <3>1. B * h <= B * (B - 1) /\ B * (B - 1) = B * B - B /\ B * h \in Nat /\ B * B \in Nat
      BY <1>1
    <3>2. r + B * h < B * B
      BY <1>1, <3>1
    <3> QED BY <3>1, <3>2
  <2>2. PICK S \in Nat : S = Space /\ S = B * B
    BY <1>1, SpaceNat DEF Space
  <2>3. w \in 0 .. S - 1 /\ x \in 0 .. S - 1
    BY <1>5, <2>1, <2>2
  <2>4. x % S = w
    BY <1>1, <1>4, <2>1, <2>2, <2>3, Decode
  <2>5. x % S = x
    BY <2>2, <2>3, ModSmall
  <2> QED BY <2>1, <2>4, <2>5
<1> QED BY <1>1, <1>4, <1>5

\* And an address of two bytes.
LEMMA BytesBack ==
  ASSUME NEW x \in 0 .. Byte - 1, NEW y \in 0 .. Byte - 1
  PROVE  /\ x + Byte * y \in 0 .. Space - 1
         /\ Low(x + Byte * y) = x /\ High(x + Byte * y) = y
<1>1. PICK B \in Nat : B = Byte /\ B >= 3 /\ B \in Nat \ {0}
  BY ByteAssumption
<1>2. x \in 0 .. B - 1 /\ y \in 0 .. B - 1 /\ y \in Nat /\ x \in Nat
  BY <1>1
<1>3. PICK w \in Nat : w = B * y + x
  <2>1. B * y \in Nat
    BY <1>2
  <2> QED BY <1>2, <2>1
<1>4. w % B = x /\ w \div B = y
  BY <1>1, <1>2, <1>3, ModIs
<1>5. y % B = y
  BY <1>1, <1>2, ModSmall
<1>6. x + Byte * y = w
  <2>1. B * y \in Nat
    BY <1>2
  <2> QED BY <1>1, <1>2, <1>3, <2>1
<1>7. w \in 0 .. Space - 1
  <2>1. B * y <= B * (B - 1) /\ B * (B - 1) = B * B - B /\ B * y \in Nat /\ B * B \in Nat
    BY <1>1, <1>2
  <2>2. w < B * B
    BY <1>1, <1>2, <1>3, <2>1
  <2>3. PICK S \in Nat : S = Space /\ S = B * B
    BY <1>1, SpaceNat DEF Space
  <2> QED BY <2>2, <2>3
<1> QED BY <1>1, <1>4, <1>5, <1>6, <1>7 DEF Low, High

-----------------------------------------------------------------------------
\* Two segments of one buffer lie one behind the other in it.
LEMMA ImagesApart ==
  ASSUME link \in Links, NEW i \in Objs, NEW b \in {"TEXT", "DATA"},
         NEW j \in DOMAIN SegsOf(i), NEW k \in DOMAIN SegsOf(i), j < k,
         ImageSeg(SegsOf(i)[j]) = b, ImageSeg(SegsOf(i)[k]) = b
  PROVE  ImageBase(SegsOf(i), j) + SegsOf(i)[j].size <= ImageBase(SegsOf(i), k)
<1> DEFINE segs == SegsOf(i)
           g == [l \in DOMAIN segs |-> IF ImageSeg(segs[l]) = b THEN segs[l].size ELSE 0]
<1>1. segs \in Seq(Segments) /\ \A l \in DOMAIN segs : segs[l].size \in Nat
  BY ObjectsTyped DEF Objs, SegsOf
<1>2. PICK n \in Nat : n = Len(segs) /\ DOMAIN segs = 1 .. n /\ j \in 1 .. n /\ k \in 1 .. n
  BY <1>1
<1>3. ImageBase(segs, j) = Total(g, j - 1) /\ ImageBase(segs, k) = Total(g, k - 1)
  BY DEF ImageBase, Behind
<1>4. g \in [1 .. n -> Nat] /\ g[j] = segs[j].size
  BY <1>1, <1>2
<1> HIDE DEF g
<1>5. Total(g, j) = Total(g, j - 1) + g[j]
  BY <1>2, <1>4, TotalsOrder
<1>6. Total(g, j) <= Total(g, k - 1)
  <2>1. j \in 0 .. n /\ k - 1 \in 0 .. n /\ j <= k - 1
    BY <1>2
  <2> QED BY <1>4, <2>1, TotalGrows
<1> QED BY <1>3, <1>4, <1>5, <1>6

\* An operand is in one of the two buffers, with all its bytes.
LEMMA OperandLies ==
  ASSUME link \in Links, NEW i \in Objs, NEW n \in DOMAIN RefsOf(i)
  PROVE  LET r == RefsOf(i)[n]
             b == ImageSeg(SegsOf(i)[r.seg])
         IN  /\ r \in References /\ IsLabel(link, r.to) /\ (r.width = 2 => r.part = "WORD")
             /\ r.seg \in DOMAIN SegsOf(i) /\ b \in {"TEXT", "DATA"}
             /\ ImageBase(SegsOf(i), r.seg) \in Nat
             /\ r.off + r.width <= SegsOf(i)[r.seg].size
             /\ RefPos(i, r) \in Nat \ {0}
             /\ RefPos(i, r) + r.width - 1 <= Length(SegsOf(i), b)
<1>1. PICK r : r = RefsOf(i)[n]
  OBVIOUS
<1>2. r \in References
  BY <1>1, RefsTyped
<1>3. /\ IsLabel(link, r.to) /\ (r.width = 2 => r.part = "WORD")
      /\ r.seg \in DOMAIN SegsOf(i) /\ r.off + r.width <= Len(SegsOf(i)[r.seg].bytes)
  BY <1>1, LinksAssumption DEF WellFormed, RefsOf, SegsOf, Objs
<1>4. PICK k \in DOMAIN SegsOf(i), o \in Nat, w \in {1, 2} : k = r.seg /\ o = r.off /\ w = r.width
  BY <1>2, <1>3 DEF References
<1>5. SegsOf(i)[k] \in Segments
  BY ObjectsTyped DEF Objs, SegsOf
<1>6. ImageSeg(SegsOf(i)[k]) \in {"TEXT", "DATA"}
  <2>1. SegsOf(i)[k].segid = "BSS" => Len(SegsOf(i)[k].bytes) = 0
    <3>1. SegsOf(i)[k].segid = "BSS" => SegsOf(i)[k].bytes = <<>>
      BY LinksAssumption DEF WellFormed, SegsOf, Objs
    <3> QED BY <3>1
  <2>2. Len(SegsOf(i)[k].bytes) # 0
    BY <1>3, <1>4
  <2>3. SegsOf(i)[k].segid \in SegIds /\ SegsOf(i)[k].bytes # <<>>
    BY <1>5, <2>2 DEF Segments
  <2> QED BY <2>1, <2>2, <2>3 DEF ImageSeg, SegIds
<1>7. PICK b \in {"TEXT", "DATA"} : b = ImageSeg(SegsOf(i)[k])
  BY <1>6
<1>8. /\ ImageBase(SegsOf(i), k) \in Nat
      /\ ImageBase(SegsOf(i), k) + SegsOf(i)[k].size <= Length(SegsOf(i), b)
      /\ Len(SegsOf(i)[k].bytes) = SegsOf(i)[k].size
  BY <1>7, ImageInBuffer DEF SegsOf, Objs
<1>9. SegsOf(i)[k].size \in Nat /\ Length(SegsOf(i), b) \in Nat
  BY ObjectsTyped DEF Objs, SegsOf
<1>10. PICK base \in Nat, size \in Nat, len \in Nat :
         /\ base = ImageBase(SegsOf(i), k) /\ size = SegsOf(i)[k].size
         /\ len = Length(SegsOf(i), b) /\ base + size <= len
  BY <1>8, <1>9
<1>11. o + w <= size
  BY <1>3, <1>4, <1>8, <1>10
<1>12. RefPos(i, r) = base + o + 1
  BY <1>4, <1>10 DEF RefPos
<1>13. base + o + 1 \in Nat \ {0} /\ (base + o + 1) + w - 1 <= len
  BY <1>10, <1>11
<1> QED BY <1>1, <1>2, <1>3, <1>4, <1>7, <1>8, <1>10, <1>11, <1>12, <1>13

Beside(p, w, q, v) == p + w <= q \/ q + v <= p

\* Two operands of one buffer have no byte in common.
LEMMA OperandsApart ==
  ASSUME link \in Links, NEW i \in Objs, OwnBytes(i),
         NEW m \in DOMAIN RefsOf(i), NEW n \in DOMAIN RefsOf(i), m # n,
         ImageSeg(SegsOf(i)[RefsOf(i)[m].seg]) = ImageSeg(SegsOf(i)[RefsOf(i)[n].seg])
  PROVE  Beside(RefPos(i, RefsOf(i)[m]), RefsOf(i)[m].width,
                RefPos(i, RefsOf(i)[n]), RefsOf(i)[n].width)
<1>1. PICK r, q : r = RefsOf(i)[m] /\ q = RefsOf(i)[n]
  OBVIOUS
<1>2. PICK j \in DOMAIN SegsOf(i), o \in Nat, w \in {1, 2}, x \in Nat :
        /\ j = r.seg /\ o = r.off /\ w = r.width /\ x = ImageBase(SegsOf(i), j)
        /\ o + w <= SegsOf(i)[j].size /\ ImageSeg(SegsOf(i)[j]) \in {"TEXT", "DATA"}
  BY <1>1, OperandLies DEF References
<1>3. PICK k \in DOMAIN SegsOf(i), u \in Nat, v \in {1, 2}, y \in Nat :
        /\ k = q.seg /\ u = q.off /\ v = q.width /\ y = ImageBase(SegsOf(i), k)
        /\ u + v <= SegsOf(i)[k].size
  BY <1>1, OperandLies DEF References
<1>4. RefPos(i, r) = x + o + 1 /\ RefPos(i, q) = y + u + 1
  BY <1>2, <1>3 DEF RefPos
<1>5. /\ j \in Nat /\ k \in Nat /\ SegsOf(i)[j].size \in Nat /\ SegsOf(i)[k].size \in Nat
      /\ ImageSeg(SegsOf(i)[j]) = ImageSeg(SegsOf(i)[k])
  <2>1. DOMAIN SegsOf(i) = 1 .. Len(SegsOf(i)) /\ Len(SegsOf(i)) \in Nat
        /\ \A l \in DOMAIN SegsOf(i) : SegsOf(i)[l].size \in Nat
    BY ObjectsTyped DEF SegsOf, Objs
  <2>2. j \in Nat /\ k \in Nat
    BY <2>1
  <2> QED BY <1>1, <1>2, <1>3, <2>1, <2>2
<1>6. CASE j = k
  <2>1. o + w <= u \/ u + v <= o
    BY <1>1, <1>2, <1>3, <1>6 DEF OwnBytes
  <2> QED BY <1>1, <1>2, <1>3, <1>4, <1>6, <2>1 DEF Beside
<1>7. CASE j < k
  <2>1. x + SegsOf(i)[j].size <= y
    BY <1>2, <1>3, <1>5, <1>7, ImagesApart
  <2>2. x + o + 1 + w <= y + u + 1
    BY <1>2, <1>3, <1>5, <2>1
  <2> QED BY <1>1, <1>2, <1>3, <1>4, <2>2 DEF Beside
<1>8. CASE k < j
  <2>1. y + SegsOf(i)[k].size <= x
    BY <1>2, <1>3, <1>5, <1>8, ImagesApart
  <2>2. y + u + 1 + v <= x + o + 1
    BY <1>2, <1>3, <1>5, <2>1
  <2> QED BY <1>1, <1>2, <1>3, <1>4, <2>2 DEF Beside
<1> QED BY <1>5, <1>6, <1>7, <1>8

\* A buffer of m bytes.
IsBytes(buf, m) == Shaped(buf, m) /\ \A k \in 1 .. m : buf[k] \in 0 .. Byte - 1

Changed(new, buf, p, v) == new = [buf EXCEPT ![p] = v]

\* Changing a byte changes no other.
LEMMA ExceptSame ==
  ASSUME NEW m, NEW buf, Shaped(buf, m), NEW p, NEW v, NEW new, Changed(new, buf, p, v)
  PROVE  \A q \in 1 .. m : new[q] = IF q = p THEN v ELSE buf[q]
<1>1. new = [buf EXCEPT ![p] = v]
  BY DEF Changed
<1>2. DOMAIN buf = 1 .. m
  BY DEF Shaped
<1> QED BY <1>1, <1>2

\* It leaves a buffer of bytes.
LEMMA ExceptBytes ==
  ASSUME NEW m, NEW buf, IsBytes(buf, m), NEW p, NEW v, v \in 0 .. Byte - 1,
         NEW new, Changed(new, buf, p, v)
  PROVE  IsBytes(new, m)
<1>1. Shaped(new, m)
  BY ExceptShaped DEF Changed, IsBytes
<1>2. ASSUME NEW q \in 1 .. m PROVE new[q] \in 0 .. Byte - 1
  <2>1. new[q] = IF q = p THEN v ELSE buf[q]
    BY ExceptSame DEF IsBytes
  <2> QED BY <2>1 DEF IsBytes
<1> QED BY <1>1, <1>2 DEF IsBytes

\* What the assembler leaves in the bytes of an operand.
Carries(i, r, buf) ==
  /\ buf[RefPos(i, r)] = IF r.part = "HIGH" THEN High(Known(i, r)) ELSE Low(Known(i, r))
  /\ r.width = 2 => buf[RefPos(i, r) + 1] = High(Known(i, r))

Rest(new, buf, p, w, m) == \A q \in 1 .. m : Beside(p, w, q, 1) => new[q] = buf[q]

\* Storing an operand changes its bytes and no other.
LEMMA StoreChanges ==
  ASSUME NEW m \in Nat, NEW i, NEW buf, IsBytes(buf, m), NEW r, r.width \in {1, 2},
         NEW p \in Nat \ {0}, p = RefPos(i, r), p + r.width - 1 <= m,
         r.width = 2 => r.part = "WORD", Known(i, r) \in Nat
  PROVE  \A new : new = Store(i, buf, r) =>
           IsBytes(new, m) /\ Carries(i, r, new) /\ Rest(new, buf, p, r.width, m)
<1> TAKE new
<1> SUFFICES ASSUME new = Store(i, buf, r)
             PROVE  IsBytes(new, m) /\ Carries(i, r, new) /\ Rest(new, buf, p, r.width, m)
  OBVIOUS
<1>1. PICK x \in 0 .. Byte - 1, h \in 0 .. Byte - 1 :
        x = (IF r.part = "HIGH" THEN High(Known(i, r)) ELSE Low(Known(i, r))) /\ h = High(Known(i, r))
  BY LowHigh
<1>2. PICK low : low = [buf EXCEPT ![p] = x]
  OBVIOUS
<1>3. p \in 1 .. m
  OBVIOUS
<1>4. IsBytes(low, m) /\ low[p] = x /\ \A q \in 1 .. m : q # p => low[q] = buf[q]
  <2>1. Changed(low, buf, p, x)
    BY <1>2 DEF Changed
  <2>2. IsBytes(low, m)
    BY <2>1, ExceptBytes
  <2>3. \A q \in 1 .. m : low[q] = IF q = p THEN x ELSE buf[q]
    BY <2>1, ExceptSame DEF IsBytes
  <2> QED BY <1>3, <2>2, <2>3
<1>5. CASE r.width = 1
  <2>1. new = low
    BY <1>1, <1>2, <1>5 DEF Store, StoreAt
  <2>2. \A q \in 1 .. m : Beside(p, 1, q, 1) => q # p
    BY DEF Beside
  <2> QED BY <1>1, <1>4, <1>5, <2>1, <2>2 DEF Carries, Rest
<1>6. CASE r.width = 2
  <2>1. p + 1 \in 1 .. m /\ p + 1 # p
    BY <1>6
  <2>2. new = [low EXCEPT ![p + 1] = h]
    BY <1>1, <1>2, <1>6 DEF Store, StoreAt
  <2>3. IsBytes(new, m) /\ new[p + 1] = h /\ \A q \in 1 .. m : q # p + 1 => new[q] = low[q]
    <3>1. IsBytes(low, m)
      BY <1>4
    <3>2. Changed(new, low, p + 1, h)
      BY <2>2 DEF Changed
    <3>3. IsBytes(new, m)
      BY <3>1, <3>2, ExceptBytes
    <3>4. \A q \in 1 .. m : new[q] = IF q = p + 1 THEN h ELSE low[q]
      BY <3>1, <3>2, ExceptSame DEF IsBytes
    <3> QED BY <2>1, <3>3, <3>4
  <2>4. new[p] = x
    BY <1>3, <1>4, <2>1, <2>3
  <2>5. \A q \in 1 .. m : Beside(p, 2, q, 1) => q # p /\ q # p + 1
    BY DEF Beside
  <2>6. Rest(new, buf, p, 2, m)
    BY <1>4, <2>3, <2>5 DEF Rest
  <2> QED BY <1>1, <1>6, <2>3, <2>4, <2>6 DEF Carries
<1> QED BY <1>5, <1>6

Same(new, buf, p, w) == new[p] = buf[p] /\ (w = 2 => new[p + 1] = buf[p + 1])

\* What is beside an operand stays: another operand keeps its bytes.
LEMMA SameKept ==
  ASSUME NEW m \in Nat, NEW buf, NEW new, NEW p \in Nat \ {0}, NEW v \in {1, 2}, p + v - 1 <= m,
         NEW q \in Nat, NEW w \in {1, 2}, Beside(q, w, p, v), Rest(new, buf, q, w, m)
  PROVE  Same(new, buf, p, v)
<1>1. p \in 1 .. m /\ Beside(q, w, p, 1)
  BY DEF Beside
<1>2. new[p] = buf[p]
  BY <1>1 DEF Rest
<1>3. v = 2 => new[p + 1] = buf[p + 1]
  <2> SUFFICES ASSUME v = 2 PROVE new[p + 1] = buf[p + 1]
    OBVIOUS
  <2>1. p + 1 \in 1 .. m /\ Beside(q, w, p + 1, 1)
    BY DEF Beside
  <2> QED BY <2>1 DEF Rest
<1> QED BY <1>2, <1>3 DEF Same

\* The bytes of an object file are bytes.
LEMMA BufferBytes ==
  ASSUME link \in Links, NEW i \in Objs, NEW b
  PROVE  IsBytes(Buffer(SegsOf(i), b), Length(SegsOf(i), b)) /\ Length(SegsOf(i), b) \in Nat
<1>1. SegsOf(i) \in Seq(Segments)
  BY ObjectsTyped DEF Objs, SegsOf
<1>2. PICK s \in Seq(0 .. Byte - 1) : s = Buffer(SegsOf(i), b)
  BY <1>1, BufferIsSeq
<1>3. s = [k \in 1 .. Len(s) |-> s[k]] /\ Len(s) \in Nat
  OBVIOUS
<1>4. \A k \in 1 .. Len(s) : s[k] \in 0 .. Byte - 1
  <2>1. \A T : \A z \in Seq(T) : \A k \in 1 .. Len(z) : z[k] \in T
    OBVIOUS
  <2> QED BY <2>1
<1> QED BY <1>2, <1>3, <1>4 DEF IsBytes, Shaped, Length

\* A packed address is a number.
LEMMA PackedNat ==
  ASSUME link \in Links, NEW i \in Objs, NEW k \in DOMAIN SegsOf(i)
  PROVE  PackedBase(SegsOf(i), k) \in Nat
<1> DEFINE segs == SegsOf(i)
           with(j) == IF segs[k].segid = "ZP" THEN segs[j].segid = "ZP"
                      ELSE ImageSeg(segs[j]) = ImageSeg(segs[k])
           g == [j \in DOMAIN segs |-> IF with(j) THEN segs[j].size ELSE 0]
<1>1. segs \in Seq(Segments) /\ \A l \in DOMAIN segs : segs[l].size \in Nat
  BY ObjectsTyped DEF Objs, SegsOf
<1>2. PICK n \in Nat : n = Len(segs) /\ DOMAIN segs = 1 .. n /\ k \in 1 .. n
  BY <1>1
<1>3. PackedBase(segs, k) = Total(g, k - 1)
  BY DEF PackedBase, Behind
<1>4. g \in [1 .. n -> Nat]
  BY <1>1, <1>2
<1> HIDE DEF g
<1>5. Total(g, k - 1) \in Nat
  BY <1>2, <1>4, TotalsOrder
<1> QED BY <1>3, <1>5

\* What the assembler knows of a label is a number of 16 bits.
LEMMA KnownTyped ==
  ASSUME link \in Links, NEW i \in Objs, NEW n \in DOMAIN RefsOf(i)
  PROVE  Known(i, RefsOf(i)[n]) \in 0 .. Space - 1
<1>1. PICK r \in References : r = RefsOf(i)[n]
  BY OperandLies
<1>2. IsLabel(link, r.to) /\ r.to \in Labels /\ r.plus \in Nat
  BY <1>1, OperandLies DEF References
<1>3. r.to.obj \in Objs /\ r.to.seg \in DOMAIN SegsOf(r.to.obj) /\ r.to.off \in Nat
  BY <1>2 DEF IsLabel, Objs, SegsOf, Labels
<1>4. PackedBase(SegsOf(r.to.obj), r.to.seg) \in Nat
  BY <1>3, PackedNat
<1>5. PICK w \in Nat : Known(i, r) = w % Space
  <2>1. PackedValue(r.to) \in Nat
    BY <1>3, <1>4 DEF PackedValue
  <2>2. (IF r.to.obj = i THEN PackedValue(r.to) + r.plus ELSE r.plus) \in Nat
    BY <1>2, <2>1
  <2> QED BY <2>2 DEF Known
<1>6. \A S \in Nat \ {0} : \A v \in Nat : v % S \in 0 .. S - 1
  OBVIOUS
<1> QED BY <1>1, <1>5, <1>6, SpaceNat

\* The object file holds, where an operand is, what the assembler knew of it.
LEMMA StoredCarries ==
  ASSUME link \in Links, NEW i \in Objs, NEW b, OwnBytes(i)
  PROVE  /\ IsBytes(Stored(i, b), Length(SegsOf(i), b)) /\ Length(SegsOf(i), b) \in Nat
         /\ \A n \in DOMAIN RefsOf(i) :
              IsIn(i, b, RefsOf(i)[n]) => Carries(i, RefsOf(i)[n], Stored(i, b))
<1>1. PICK m \in Nat : m = Length(SegsOf(i), b) /\ IsBytes(Buffer(SegsOf(i), b), m)
  BY BufferBytes
<1>2. PICK f : /\ Stored(i, b) = f[Len(RefsOf(i))] /\ f[0] = Buffer(SegsOf(i), b)
               /\ \A k \in 1 .. Len(RefsOf(i)) : f[k] = StoreStep(i, b, k, f[k - 1])
               /\ Len(RefsOf(i)) \in Nat
  BY StoredLaw
<1>3. PICK n \in Nat : n = Len(RefsOf(i)) /\ DOMAIN RefsOf(i) = 1 .. n
  BY <1>2, RefsTyped
<1> DEFINE Good(k) == /\ IsBytes(f[k], m)
                      /\ \A l \in 1 .. k : IsIn(i, b, RefsOf(i)[l]) => Carries(i, RefsOf(i)[l], f[k])
           Bad == {k \in 0 .. n : ~Good(k)}
<1>4. Good(0)
  BY <1>1, <1>2
<1>5. ASSUME NEW k \in 1 .. n, Good(k - 1) PROVE Good(k)
  <2>1. PICK old, new, r : old = f[k - 1] /\ new = f[k] /\ r = RefsOf(i)[k]
    OBVIOUS
  <2>2. /\ IsBytes(old, m)
        /\ \A l \in 1 .. k - 1 : IsIn(i, b, RefsOf(i)[l]) => Carries(i, RefsOf(i)[l], old)
    BY <1>5, <2>1
  <2>3. new = IF IsIn(i, b, r) THEN Store(i, old, r) ELSE old
    BY <1>2, <1>3, <2>1 DEF StoreStep
  <2>4. \A l \in 1 .. k : l \in 1 .. k - 1 \/ l = k
    OBVIOUS
  <2>5. CASE ~IsIn(i, b, r)
    BY <2>1, <2>2, <2>3, <2>4, <2>5
  <2>6. CASE IsIn(i, b, r)
    <3>1. ImageSeg(SegsOf(i)[r.seg]) = b
      BY <2>6 DEF IsIn
    <3>2. PICK p \in Nat \ {0} : p = RefPos(i, r) /\ p + r.width - 1 <= m
      BY <1>1, <1>3, <2>1, <3>1, OperandLies
    <3>3. r.width \in {1, 2} /\ (r.width = 2 => r.part = "WORD") /\ Known(i, r) \in Nat
      <4>1. r \in References /\ (r.width = 2 => r.part = "WORD")
        BY <1>3, <2>1, OperandLies
      <4>2. Known(i, r) \in 0 .. Space - 1
        BY <1>3, <2>1, KnownTyped
      <4> QED BY <4>1, <4>2, SpaceNat DEF References
    <3>4. IsBytes(new, m) /\ Carries(i, r, new) /\ Rest(new, old, p, r.width, m)
      BY <2>2, <2>3, <2>6, <3>2, <3>3, StoreChanges
    <3>5. ASSUME NEW l \in 1 .. k - 1, IsIn(i, b, RefsOf(i)[l])
          PROVE  Carries(i, RefsOf(i)[l], new)
      <4>1. PICK q : q = RefsOf(i)[l]
        OBVIOUS
      <4>2. l \in 1 .. n /\ l # k
        OBVIOUS
      <4>3. ImageSeg(SegsOf(i)[q.seg]) = b
        BY <3>5, <4>1 DEF IsIn
      <4>4. PICK t \in Nat \ {0} : t = RefPos(i, q) /\ t + q.width - 1 <= m
        BY <1>1, <1>3, <4>1, <4>2, <4>3, OperandLies
      <4>5. q.width \in {1, 2}
        BY <1>3, <4>1, <4>2, OperandLies DEF References
      <4>6. Beside(p, r.width, t, q.width)
        BY <1>3, <2>1, <3>1, <3>2, <4>1, <4>2, <4>3, <4>4, OperandsApart
      <4>7. Carries(i, q, old)
        BY <2>2, <3>5, <4>1
      <4>8. Same(new, old, t, q.width)
        BY <3>2, <3>3, <3>4, <4>4, <4>5, <4>6, SameKept
      <4> QED BY <4>1, <4>4, <4>7, <4>8 DEF Carries, Same
    <3> QED BY <2>1, <2>4, <3>4, <3>5
  <2> QED BY <2>5, <2>6
<1> HIDE DEF Good
<1>6. Bad = {}
  <2> SUFFICES ASSUME Bad # {} PROVE FALSE
    OBVIOUS
  <2>1. PICK k \in Bad : \A j \in Bad : k <= j
    <3>1. Bad \subseteq Nat
      OBVIOUS
    <3> HIDE DEF Bad
    <3> QED BY <3>1, FirstIn
  <2>2. k \in 1 .. n /\ k - 1 \in 0 .. n /\ ~(k <= k - 1)
    BY <1>4
  <2>3. Good(k - 1)
    BY <2>1, <2>2
  <2> QED BY <1>5, <2>2, <2>3
<1>7. Good(n)
  BY <1>6
<1> QED BY <1>1, <1>2, <1>3, <1>7 DEF Good

\* The address of a label is the sum of where its segment is and of its offset.
LEMMA TruthTyped ==
  ASSUME IInv, CompleteInv, Separate(link), Placed, NEW x \in Labels, IsLabel(link, x)
  PROVE  Truth(x) \in 0 .. Space - 1
<1>1. x.obj \in Objs /\ x.seg \in DOMAIN SegsOf(x.obj) /\ x.off \in Nat
  BY DEF IsLabel, Objs, SegsOf, Labels
<1>2. PICK i \in Objs, k \in DOMAIN SegsOf(x.obj) : i = x.obj /\ k = x.seg
  BY <1>1
<1>3. PICK p \in Places : p = <<i, k>>
  <2>1. <<i, k>> \in Places
    BY <1>2 DEF Places
  <2> QED BY <2>1
<1>4. BaseAddr(p[1], p[2]) \in Nat
  BY BaseTyped
<1>5. PICK w \in Nat : w = BaseAddr(i, k) + x.off /\ Truth(x) = w % Space
  BY <1>1, <1>2, <1>3, <1>4 DEF Truth
<1>6. PICK S \in Nat \ {0} : S = Space
  BY SpaceNat
<1>7. w % S \in 0 .. S - 1
  OBVIOUS
<1> QED BY <1>5, <1>6, <1>7

\* A value inside a segment of the object itself is worth the label's address and the
\* constant.
LEMMA OwnTarget ==
  ASSUME IInv, CompleteInv, Separate(link), Placed, NEW x \in Labels, IsLabel(link, x),
         NEW plus \in Nat, Inside(x, plus)
  PROVE  /\ (PackedValue(x) + plus) % Space = PackedValue(x) + plus
         /\ PackedValue(x) + plus \in 0 .. Space - 1
         /\ MappedTo(x.obj, SegIdOf(x), PackedValue(x) + plus) # 0
         /\ RuntimeAddr(x.obj, SegIdOf(x), PackedValue(x) + plus) = (Truth(x) + plus) % Space
<1>1. /\ x.obj \in Objs /\ x.seg \in DOMAIN SegsOf(x.obj) /\ x.off \in Nat /\ link \in Links
  BY DEF IsLabel, Objs, SegsOf, Labels, IInv
<1>2. PICK off \in Nat, i \in Objs, k \in DOMAIN SegsOf(x.obj) :
         i = x.obj /\ k = x.seg /\ off = x.off
  BY <1>1
<1>3. /\ i \in Objs /\ k \in DOMAIN SegsOf(i) /\ SegsOf(i) \in Seq(Segments)
      /\ k \in Nat \ {0} /\ SegsOf(i)[k].size \in Nat
  <2>1. SegsOf(i) \in Seq(Segments) /\ \A l \in DOMAIN SegsOf(i) : SegsOf(i)[l].size \in Nat
    BY <1>1, <1>2, ObjectsTyped DEF Objs, SegsOf
  <2>2. DOMAIN SegsOf(i) \subseteq Nat \ {0}
    BY <2>1
  <2> QED BY <1>2, <2>1, <2>2
<1>4. PICK all \in Nat : all = off + plus
  OBVIOUS
<1>5. all < SegsOf(i)[k].size
  BY <1>2, <1>4 DEF Inside
<1>6. /\ PackedBase(SegsOf(i), k) \in Nat
      /\ MappedTo(i, SegsOf(i)[k].segid, PackedBase(SegsOf(i), k) + all) = k
  BY <1>3, <1>5, OwnerIsSegment DEF MappedTo
<1>7. PICK S \in Nat \ {0} : S = Space
  BY SpaceNat
<1>8. PICK q \in Nat, size \in Nat :
        q = PackedBase(SegsOf(i), k) /\ size = SegsOf(i)[k].size /\ q + size <= S
  BY <1>3, <1>7, PackedFits
<1>9. PICK b \in Nat : b = BaseAddr(i, k)
  <2>1. PICK p \in Places : p = <<i, k>>
    <3>1. <<i, k>> \in Places
      BY <1>3 DEF Places
    <3> QED BY <3>1
  <2>2. BaseAddr(p[1], p[2]) \in Nat
    BY BaseTyped
  <2> QED BY <2>1, <2>2
<1>10. PICK v \in Nat : v = q + all
  OBVIOUS
<1>11. PackedValue(x) + plus = v /\ v \in 0 .. S - 1
  <2>1. PackedValue(x) = q + off
    BY <1>2, <1>8 DEF PackedValue
  <2> QED BY <1>4, <1>5, <1>8, <1>10, <2>1
<1>12. v % S = v
  BY <1>7, <1>11, ModSmall
<1>13. MappedTo(x.obj, SegIdOf(x), v) = k
  BY <1>2, <1>6, <1>8, <1>10 DEF SegIdOf
<1>14. RuntimeAddr(x.obj, SegIdOf(x), v) = (b + v - q) % S
  BY <1>2, <1>7, <1>8, <1>9, <1>13 DEF RuntimeAddr, AddrIn
<1>15. b + v - q = (b + off) + plus
  BY <1>4, <1>10
<1>16. Truth(x) = (b + off) % S
  BY <1>2, <1>7, <1>9 DEF Truth
<1>17. (((b + off) % S) + plus) % S = ((b + off) + plus) % S
  <2>1. PICK c \in Nat : c = b + off
    OBVIOUS
  <2>2. ((c % S) + plus) % S = (c + plus) % S
    BY ModSum
  <2> QED BY <2>1, <2>2
<1> QED BY <1>3, <1>7, <1>11, <1>12, <1>13, <1>14, <1>15, <1>16, <1>17

\* What the linker reads at an operand that the assembler has left.
LEMMA FoundIs ==
  ASSUME NEW i, NEW r, r.width \in {1, 2}, r.part \in {"WORD", "LOW", "HIGH"},
         NEW m, NEW buf, IsBytes(buf, m), NEW p \in Nat, p = RefPos(i, r),
         Carries(i, r, buf), NEW known \in 0 .. Space - 1, known = Known(i, r)
  PROVE  /\ r.part = "WORD" => Found(buf, r, p, known) = Low(known) + Byte * buf[p + 1]
         /\ (r.part = "WORD" => r.width = 2) => Found(buf, r, p, known) = known
<1>1. known \in Nat /\ known < Space
  BY SpaceNat
<1>2. Low(known) + Byte * High(known) = known
  BY <1>1, LowHigh
<1>3. buf[p] = (IF r.part = "HIGH" THEN High(known) ELSE Low(known))
      /\ (r.width = 2 => buf[p + 1] = High(known))
  BY DEF Carries
<1>4. CASE r.part = "WORD"
  BY <1>2, <1>3, <1>4 DEF Found
<1>5. CASE r.part = "LOW"
  BY <1>2, <1>3, <1>5 DEF Found
<1>6. CASE r.part = "HIGH"
  BY <1>2, <1>3, <1>6 DEF Found
<1> QED BY <1>4, <1>5, <1>6

Value(r) == (Truth(r.to) + r.plus) % Space
Right(r, buf, p, t) ==
  /\ r.part # "HIGH" => Low(t) = Low(Value(r))
  /\ r.part = "HIGH" \/ r.width = 2 => High(t) = High(Value(r))
  /\ r.part = "WORD" /\ r.width = 1 => High(t) = buf[p + 1]

\* The linker writes the bytes of the address, and a byte that it reads although the operand
\* does not have it as it was.
LEMMA TargetRight ==
  ASSUME IInv, CompleteInv, Separate(link), Placed, NEW i \in Objs,
         NEW n \in DOMAIN RefsOf(i), NEW r, r = RefsOf(i)[n], Faithful(i, r),
         NEW m \in Nat, NEW buf, IsBytes(buf, m), NEW p \in Nat \ {0}, p = RefPos(i, r),
         r.part = "WORD" => p + 1 <= m, Carries(i, r, buf)
  PROVE  LET t == Target(i, r, Found(buf, r, p, Known(i, r)))
         IN  t \in 0 .. Space - 1 /\ Right(r, buf, p, t)
<1>1. /\ r \in References /\ IsLabel(link, r.to) /\ (r.width = 2 => r.part = "WORD") /\ link \in Links
  BY OperandLies DEF IInv
<1>2. PICK x \in Labels, plus \in Nat : x = r.to /\ plus = r.plus /\ IsLabel(link, x)
  BY <1>1 DEF References
<1>3. r.width \in {1, 2} /\ r.part \in {"WORD", "LOW", "HIGH"}
  BY <1>1 DEF References
<1>4. PICK S \in Nat \ {0} : S = Space
  BY SpaceNat
<1>5. PICK known \in 0 .. S - 1 : known = Known(i, r)
  BY <1>1, <1>4, KnownTyped
<1>6. PICK found, t : found = Found(buf, r, p, known) /\ t = Target(i, r, found)
  OBVIOUS
<1>7. /\ r.part = "WORD" => found = Low(known) + Byte * buf[p + 1]
      /\ (r.part = "WORD" => r.width = 2) => found = known
  BY <1>3, <1>4, <1>5, <1>6, FoundIs
<1>8. PICK truth \in 0 .. S - 1 : truth = Truth(x)
  BY <1>2, <1>4, TruthTyped
<1>9. PICK value \in 0 .. S - 1 : value = (truth + plus) % S /\ value = Value(r)
  <2>1. (truth + plus) % S \in 0 .. S - 1
    OBVIOUS
  <2> QED BY <1>2, <1>4, <1>8, <2>1 DEF Value
<1>10. CASE x.obj = i
  <2>1. Inside(x, plus) /\ (r.part = "WORD" => r.width = 2)
    BY <1>2, <1>10 DEF Faithful
  <2>2. known = PackedValue(x) + plus
    BY <1>2, <1>5, <1>10, <2>1, OwnTarget DEF Known
  <2>3. t = value
    BY <1>2, <1>4, <1>6, <1>7, <1>8, <1>9, <1>10, <2>1, <2>2, OwnTarget DEF Target
  <2> QED BY <1>3, <1>4, <1>5, <1>6, <1>9, <2>1, <2>3 DEF Right
<1>11. CASE x.obj # i
  <2>1. /\ Inside(x, 0) /\ (r.part # "WORD" => plus = 0)
        /\ r.part = "WORD" /\ r.width = 1 => truth + plus < Byte
    BY <1>2, <1>8, <1>11 DEF Faithful
  <2>2. Global(x) = truth
    BY <1>2, <1>8, <2>1, GlobalIsTruth
  <2>3. known = plus % S
    BY <1>2, <1>4, <1>5, <1>11 DEF Known
  <2>4. t = (truth + (IF r.part = "WORD" THEN found ELSE 0)) % S
    BY <1>2, <1>4, <1>6, <1>11, <2>2 DEF Target
  <2>5. CASE r.part # "WORD"
    <3>1. t = value
      BY <1>9, <2>1, <2>4, <2>5
    <3> QED BY <1>3, <1>4, <1>5, <1>6, <1>9, <2>5, <3>1 DEF Right
  <2>6. CASE r.part = "WORD" /\ r.width = 2
    <3>1. t = (truth + (plus % S)) % S
      BY <1>7, <2>3, <2>4, <2>6
    <3>2. (truth + (plus % S)) % S = (truth + plus) % S
      BY ModSum
    <3>3. t = value
      BY <1>9, <3>1, <3>2
    <3> QED BY <1>4, <1>5, <1>6, <1>9, <2>6, <3>3 DEF Right
  <2>7. CASE r.part = "WORD" /\ r.width = 1
    <3>1. PICK B \in Nat, sum \in Nat : B = Byte /\ sum = truth + plus /\ sum < B /\ B <= S
      <4>1. Byte \in Nat /\ Byte <= Space
        <5>1. \A c \in Nat : c >= 1 => c <= c * c
          OBVIOUS
        <5> QED BY <5>1, ByteAssumption DEF Space
      <4> QED BY <1>4, <2>1, <2>7, <4>1
    <3>2. sum \in 0 .. S - 1 /\ sum \in 0 .. B - 1 /\ plus \in 0 .. S - 1 /\ plus \in 0 .. B - 1
      BY <3>1
    <3>3. value = sum /\ known = plus /\ Low(known) = plus
      <4>1. sum % S = sum /\ plus % S = plus
        BY <1>4, <3>2, ModSmall
      <4>2. plus % B = plus
        BY <3>1, <3>2, ModSmall
      <4> QED BY <1>9, <2>3, <3>1, <4>1, <4>2 DEF Low
    <3>4. PICK junk \in 0 .. B - 1 : junk = buf[p + 1]
      BY <2>7, <3>1 DEF IsBytes
    <3>5. found = plus + B * junk
      BY <1>7, <2>7, <3>1, <3>3, <3>4
    <3>6. /\ sum + B * junk \in 0 .. S - 1 /\ Low(sum + B * junk) = sum
          /\ High(sum + B * junk) = junk
      BY <1>4, <3>1, <3>2, BytesBack
    <3>7. truth + found = sum + B * junk
      <4>1. B * junk \in Nat
        BY <3>1
      <4> QED BY <3>1, <3>5, <4>1
    <3>8. t = sum + B * junk
      <4>1. t = (sum + B * junk) % S
        BY <2>4, <2>7, <3>7
      <4>2. PICK z \in 0 .. S - 1 : z = sum + B * junk
        BY <3>6
      <4>3. z % S = z
        BY <1>4, ModSmall
      <4> QED BY <4>1, <4>2, <4>3
    <3>9. Low(value) = sum
      <4>1. sum % B = sum
        BY <3>1, <3>2, ModSmall
      <4> QED BY <3>1, <3>3, <4>1 DEF Low
    <3>10. t \in 0 .. S - 1 /\ Low(t) = Low(value) /\ High(t) = buf[p + 1]
      BY <3>4, <3>6, <3>8, <3>9
    <3> QED BY <1>4, <1>5, <1>6, <1>9, <2>7, <3>10 DEF Right
  <2> QED BY <1>3, <2>5, <2>6, <2>7
<1> QED BY <1>10, <1>11

\* A relocation that succeeds writes the target.
LEMMA PatchOk ==
  ASSUME NEW i, NEW m, NEW done, Result(done, m), NEW r, NEW p, p = RefPos(i, r),
         Patch(i, done, r).ok
  PROVE  /\ done.ok
         /\ r.part = "WORD" => ~(p + 1 > Len(done.buf))
         /\ Patch(i, done, r).buf =
              Patched(done.buf, r, p, Target(i, r, Found(done.buf, r, p, Known(i, r))))
<1>1. PICK found, known : known = Known(i, r) /\ found = Found(done.buf, r, p, known)
  OBVIOUS
<1>2. PICK failed : failed = [done EXCEPT !.ok = FALSE]
  OBVIOUS
<1>3. failed.ok = FALSE
  BY <1>2 DEF Result
<1>4. PICK buf, new : buf = Patched(done.buf, r, p, Target(i, r, found))
                      /\ new = [done EXCEPT !.buf = buf]
  OBVIOUS
<1>5. new.buf = buf
  BY <1>4 DEF Result
<1>6. Patch(i, done, r) = PatchAt(i, done, r, p, known)
  BY <1>1 DEF Patch
<1>7. ~(r.part = "WORD" /\ p + 1 > Len(done.buf))
  <2> SUFFICES ASSUME r.part = "WORD" /\ p + 1 > Len(done.buf) PROVE FALSE
    OBVIOUS
  <2>1. Patch(i, done, r) = failed
    BY <1>2, <1>6 DEF PatchAt
  <2> QED BY <1>3, <2>1
<1>8. Patch(i, done, r) = PatchFound(i, done, r, p, found)
  BY <1>1, <1>6, <1>7 DEF PatchAt
<1>9. ~(~done.ok \/ (r.to.obj = i /\ MappedTo(i, SegIdOf(r.to), found) = 0))
  <2> SUFFICES ASSUME ~done.ok \/ (r.to.obj = i /\ MappedTo(i, SegIdOf(r.to), found) = 0)
               PROVE  FALSE
    OBVIOUS
  <2>1. Patch(i, done, r) = failed
    BY <1>2, <1>8 DEF PatchFound
  <2> QED BY <1>3, <2>1
<1>10. Patch(i, done, r) = new
  BY <1>4, <1>8, <1>9 DEF PatchFound
<1>11. r.part = "WORD" => ~(p + 1 > Len(done.buf))
  BY <1>7
<1> QED BY <1>1, <1>4, <1>5, <1>9, <1>10, <1>11

\* A reference that has landed: its operand has the bytes of the address.
Landed(i, r, buf) ==
  /\ buf[RefPos(i, r)] = IF r.part = "HIGH" THEN High(Value(r)) ELSE Low(Value(r))
  /\ r.width = 2 => buf[RefPos(i, r) + 1] = High(Value(r))

\* Writing the right bytes lands the reference and leaves the bytes of the others.
LEMMA PatchedLands ==
  ASSUME NEW m \in Nat, NEW i, NEW buf, IsBytes(buf, m), NEW r, r.width \in {1, 2},
         r.part \in {"WORD", "LOW", "HIGH"}, r.width = 2 => r.part = "WORD",
         NEW p \in Nat \ {0}, p = RefPos(i, r), p <= m, r.part = "WORD" => p + 1 <= m,
         NEW t \in Nat, Right(r, buf, p, t), NEW new, new = Patched(buf, r, p, t)
  PROVE  IsBytes(new, m) /\ Landed(i, r, new) /\ Rest(new, buf, p, r.width, m)
<1>1. PICK l \in 0 .. Byte - 1, h \in 0 .. Byte - 1 : l = Low(t) /\ h = High(t)
  BY LowHigh
<1>2. p \in 1 .. m
  OBVIOUS
<1>3. CASE r.part = "WORD"
  <2>1. PICK low : low = [buf EXCEPT ![p] = l]
    OBVIOUS
  <2>2. new = [low EXCEPT ![p + 1] = h]
    BY <1>1, <1>3, <2>1 DEF Patched
  <2>3. IsBytes(low, m) /\ \A q \in 1 .. m : low[q] = IF q = p THEN l ELSE buf[q]
    <3>1. Changed(low, buf, p, l)
      BY <2>1 DEF Changed
    <3>2. IsBytes(low, m)
      BY <3>1, ExceptBytes
    <3>3. \A q \in 1 .. m : low[q] = IF q = p THEN l ELSE buf[q]
      BY <3>1, ExceptSame DEF IsBytes
    <3> QED BY <3>2, <3>3
  <2>4. IsBytes(new, m) /\ \A q \in 1 .. m : new[q] = IF q = p + 1 THEN h ELSE low[q]
    <3>1. Changed(new, low, p + 1, h)
      BY <2>2 DEF Changed
    <3>2. IsBytes(new, m)
      BY <2>3, <3>1, ExceptBytes
    <3>3. \A q \in 1 .. m : new[q] = IF q = p + 1 THEN h ELSE low[q]
      BY <2>3, <3>1, ExceptSame DEF IsBytes
    <3> QED BY <3>2, <3>3
  <2>5. p + 1 \in 1 .. m /\ p + 1 # p
    BY <1>3
  <2>6. new[p] = l /\ new[p + 1] = h
    BY <1>2, <2>3, <2>4, <2>5
  <2>7. Landed(i, r, new)
    <3>1. l = Low(Value(r)) /\ (r.width = 2 => h = High(Value(r)))
      BY <1>1, <1>3 DEF Right
    <3> QED BY <1>3, <2>6, <3>1 DEF Landed
  <2>8. ASSUME NEW q \in 1 .. m, Beside(p, r.width, q, 1) PROVE new[q] = buf[q]
    <3>1. q # p
      BY <2>8 DEF Beside
    <3>2. CASE q # p + 1
      BY <2>3, <2>4, <3>1, <3>2
    <3>3. CASE q = p + 1
      <4>1. r.width = 1
        BY <2>8, <3>3 DEF Beside
      <4>2. h = buf[p + 1]
        BY <1>1, <1>3, <4>1 DEF Right
      <4> QED BY <2>6, <3>3, <4>2
    <3> QED BY <3>2, <3>3
  <2> QED BY <2>4, <2>7, <2>8 DEF Rest
<1>4. CASE r.part # "WORD"
  <2>1. PICK v \in 0 .. Byte - 1 : v = IF r.part = "LOW" THEN l ELSE h
    OBVIOUS
  <2>2. r.width = 1
    BY <1>4
  <2>3. Changed(new, buf, p, v)
    BY <1>1, <1>4, <2>1 DEF Patched, Changed
  <2>4. IsBytes(new, m)
    BY <2>3, ExceptBytes
  <2>5. \A q \in 1 .. m : new[q] = IF q = p THEN v ELSE buf[q]
    BY <2>3, ExceptSame DEF IsBytes
  <2>6. v = IF r.part = "HIGH" THEN High(Value(r)) ELSE Low(Value(r))
    BY <1>1, <1>4, <2>1 DEF Right
  <2>7. Landed(i, r, new)
    BY <1>2, <2>2, <2>5, <2>6 DEF Landed
  <2>8. \A q \in 1 .. m : Beside(p, 1, q, 1) => q # p
    BY DEF Beside
  <2> QED BY <2>2, <2>4, <2>5, <2>7, <2>8 DEF Rest
<1> QED BY <1>3, <1>4

\* One turn of apply_segment_relocs.
LEMMA PatchLands ==
  ASSUME IInv, CompleteInv, Separate(link), Placed, NEW i \in Objs,
         NEW n \in DOMAIN RefsOf(i), NEW r, r = RefsOf(i)[n], Faithful(i, r),
         NEW m \in Nat, NEW done, Result(done, m), IsBytes(done.buf, m),
         NEW p \in Nat \ {0}, p = RefPos(i, r), p <= m,
         Carries(i, r, done.buf), Patch(i, done, r).ok
  PROVE  LET new == Patch(i, done, r).buf
         IN  IsBytes(new, m) /\ Landed(i, r, new) /\ Rest(new, done.buf, p, r.width, m)
<1>1. /\ r.width \in {1, 2} /\ r.part \in {"WORD", "LOW", "HIGH"}
      /\ r.width = 2 => r.part = "WORD"
  BY OperandLies DEF IInv, References
<1>2. PICK buf, new : buf = done.buf /\ new = Patch(i, done, r).buf
  OBVIOUS
<1>3. PICK t : t = Target(i, r, Found(buf, r, p, Known(i, r)))
  OBVIOUS
<1>4. (r.part = "WORD" => ~(p + 1 > Len(buf))) /\ new = Patched(buf, r, p, t)
  BY <1>2, <1>3, PatchOk
<1>5. Len(buf) = m /\ (r.part = "WORD" => p + 1 <= m)
  <2>1. \A s, l : l \in Nat /\ Shaped(s, l) => Len(s) = l
    BY DEF Shaped
  <2>2. Len(buf) = m
    BY <1>2, <2>1 DEF Result
  <2> QED BY <1>4, <2>2
<1>6. t \in 0 .. Space - 1 /\ Right(r, buf, p, t)
  BY <1>2, <1>3, <1>4, <1>5, TargetRight
<1>7. t \in Nat
  BY <1>6, SpaceNat
<1> QED BY <1>1, <1>2, <1>4, <1>5, <1>6, <1>7, PatchedLands

\* When every reference of an object has been patched, every one has landed.
LEMMA RelocatedLands ==
  ASSUME IInv, CompleteInv, Separate(link), Placed, NEW i \in Objs, Sound(i),
         NEW b \in {"TEXT", "DATA"}, Relocated(i, b).ok
  PROVE  \A n \in DOMAIN RefsOf(i) :
           IsIn(i, b, RefsOf(i)[n]) => Landed(i, RefsOf(i)[n], Relocated(i, b).buf)
<1>1. link \in Links /\ OwnBytes(i)
  BY DEF IInv, Sound
<1>2. PICK m \in Nat : /\ m = Length(SegsOf(i), b) /\ IsBytes(Stored(i, b), m)
                       /\ \A n \in DOMAIN RefsOf(i) :
                            IsIn(i, b, RefsOf(i)[n]) => Carries(i, RefsOf(i)[n], Stored(i, b))
  BY <1>1, StoredCarries
<1>3. PICK f : /\ Relocated(i, b) = f[Len(RefsOf(i))] /\ f[0] = [ok |-> TRUE, buf |-> Stored(i, b)]
               /\ \A k \in 1 .. Len(RefsOf(i)) : f[k] = PatchStep(i, b, k, f[k - 1])
               /\ Len(RefsOf(i)) \in Nat
  BY <1>1, RelocatedLaw
<1>4. PICK n \in Nat : n = Len(RefsOf(i)) /\ DOMAIN RefsOf(i) = 1 .. n
  BY <1>1, <1>3, RefsTyped
<1> DEFINE Sorted(buf, k) ==
             /\ IsBytes(buf, m)
             /\ \A l \in 1 .. n : IsIn(i, b, RefsOf(i)[l]) =>
                  IF l <= k THEN Landed(i, RefsOf(i)[l], buf) ELSE Carries(i, RefsOf(i)[l], buf)
           Good(k) == Result(f[k], m) /\ (f[k].ok => Sorted(f[k].buf, k))
           Bad == {k \in 0 .. n : ~Good(k)}
<1>5. Good(0)
  <2>1. f[0].buf = Stored(i, b) /\ Result(f[0], m)
    BY <1>2, <1>3 DEF Result, IsBytes
  <2>2. \A l \in 1 .. n : ~(l <= 0)
    OBVIOUS
  <2> QED BY <1>2, <1>4, <2>1, <2>2
<1>6. ASSUME NEW k \in 1 .. n, Good(k - 1) PROVE Good(k)
  <2>1. PICK old, new, r : old = f[k - 1] /\ new = f[k] /\ r = RefsOf(i)[k]
    OBVIOUS
  <2>2. Result(old, m) /\ (old.ok => Sorted(old.buf, k - 1))
    BY <1>6, <2>1
  <2>3. new = IF IsIn(i, b, r) THEN Patch(i, old, r) ELSE old
    BY <1>3, <1>4, <2>1 DEF PatchStep
  <2>4. \A l \in 1 .. n : l # k => (l <= k - 1 <=> l <= k)
    OBVIOUS
  <2>5. CASE ~IsIn(i, b, r)
    <3>1. new = old
      BY <2>3, <2>5
    <3>2. old.ok => Sorted(old.buf, k)
      BY <2>1, <2>2, <2>4, <2>5
    <3> HIDE DEF Sorted
    <3> QED BY <2>1, <2>2, <3>1, <3>2
  <2>6. CASE IsIn(i, b, r)
    <3>1. new = Patch(i, old, r) /\ ImageSeg(SegsOf(i)[r.seg]) = b
      BY <2>3, <2>6 DEF IsIn
    <3>2. Result(new, m)
      BY <2>2, <3>1, PatchShaped
    <3> SUFFICES ASSUME new.ok PROVE Sorted(new.buf, k)
      <4> HIDE DEF Sorted
      <4> QED BY <2>1, <3>2
    <3>3. old.ok
      <4>1. PICK p : p = RefPos(i, r)
        OBVIOUS
      <4> QED BY <2>2, <3>1, <4>1, PatchOk
    <3>4. PICK before, after : before = old.buf /\ after = new.buf
      OBVIOUS
    <3>5. Sorted(before, k - 1)
      <4> HIDE DEF Sorted
      <4> QED BY <2>2, <3>3, <3>4
    <3>6. PICK p \in Nat \ {0} : p = RefPos(i, r) /\ p <= m /\ r.width \in {1, 2}
      <4>1. PICK q \in Nat \ {0} : q = RefPos(i, r) /\ q + r.width - 1 <= m /\ r.width \in {1, 2}
        BY <1>1, <1>2, <1>4, <2>1, <3>1, OperandLies DEF References
      <4>2. q <= m
        BY <4>1
      <4> QED BY <4>1, <4>2
    <3>7. Faithful(i, r)
      BY <1>4, <2>1 DEF Sound, Refs, RefsOf
    <3>8. IsBytes(before, m) /\ Carries(i, r, before)
      <4>1. ~(k <= k - 1)
        OBVIOUS
      <4> QED BY <2>1, <2>6, <3>5, <4>1
    <3> HIDE DEF Sorted
    <3>9. IsBytes(after, m) /\ Landed(i, r, after) /\ Rest(after, before, p, r.width, m)
      BY <1>4, <2>1, <2>2, <3>1, <3>4, <3>6, <3>7, <3>8, PatchLands
    <3>10. ASSUME NEW l \in 1 .. n, l # k, IsIn(i, b, RefsOf(i)[l])
           PROVE  IF l <= k THEN Landed(i, RefsOf(i)[l], after) ELSE Carries(i, RefsOf(i)[l], after)
      <4>1. PICK q : q = RefsOf(i)[l]
        OBVIOUS
      <4>2. ImageSeg(SegsOf(i)[q.seg]) = b
        BY <3>10, <4>1 DEF IsIn
      <4>3. PICK t \in Nat \ {0} : t = RefPos(i, q) /\ t + q.width - 1 <= m /\ q.width \in {1, 2}
        BY <1>1, <1>2, <1>4, <4>1, <4>2, OperandLies DEF References
      <4>4. Beside(p, r.width, t, q.width)
        BY <1>1, <1>4, <2>1, <3>1, <3>6, <3>10, <4>1, <4>2, <4>3, OperandsApart
      <4>5. Same(after, before, t, q.width)
        BY <3>6, <3>9, <4>3, <4>4, SameKept
      <4>6. /\ Landed(i, q, before) => Landed(i, q, after)
            /\ Carries(i, q, before) => Carries(i, q, after)
        BY <4>3, <4>5 DEF Landed, Carries, Same
      <4>7. IF l <= k THEN Landed(i, q, before) ELSE Carries(i, q, before)
        BY <2>4, <3>5, <3>10, <4>1 DEF Sorted
      <4> QED BY <4>1, <4>6, <4>7
    <3>11. k <= k
      OBVIOUS
    <3> QED BY <2>1, <3>4, <3>9, <3>10, <3>11 DEF Sorted
  <2> QED BY <2>5, <2>6
<1> HIDE DEF Good
<1>7. Bad = {}
  <2> SUFFICES ASSUME Bad # {} PROVE FALSE
    OBVIOUS
  <2>1. PICK k \in Bad : \A j \in Bad : k <= j
    <3>1. Bad \subseteq Nat
      OBVIOUS
    <3> HIDE DEF Bad
    <3> QED BY <3>1, FirstIn
  <2>2. k \in 1 .. n /\ k - 1 \in 0 .. n /\ ~(k <= k - 1)
    BY <1>5
  <2>3. Good(k - 1)
    BY <2>1, <2>2
  <2> QED BY <1>6, <2>2, <2>3
<1>8. Good(n)
  BY <1>7
<1>9. PICK buf : buf = Relocated(i, b).buf
  OBVIOUS
<1>10. Sorted(buf, n)
  <2> HIDE DEF Sorted
  <2> QED BY <1>3, <1>4, <1>8, <1>9 DEF Good
<1> QED BY <1>4, <1>9, <1>10

\* The image holds an object only when every reference of it could be patched.
ObjectOk(i) == Relocated(i, "TEXT").ok /\ Relocated(i, "DATA").ok
OkInv ==
  /\ phase = "write" => at \in Nat \ {0} /\ \A i \in Objs : i < at => ObjectOk(i)
  /\ phase = "linked" => \A i \in Objs : ObjectOk(i)

\* Whether an object could be patched depends on the layout only.
LEMMA OkStays ==
  ASSUME UNCHANGED <<link, load_addr, run_addr>>
  PROVE  \A i : ObjectOk(i)' <=> ObjectOk(i)
<1>1. \A i, b : Relocated(i, b)' = Relocated(i, b)
  BY RelocatedStays
<1> QED BY <1>1 DEF ObjectOk

\* The first object that cannot be patched ends the link.
LEMMA OkLinking == ReadyInv /\ OkInv /\ LinkNext => OkInv'
<1> SUFFICES ASSUME ReadyInv, OkInv, LinkNext PROVE OkInv'
  OBVIOUS
<1>1. link \in Links /\ IInv
  BY DEF ReadyInv, BInv, IInv
<1>2. CASE CheckConfig \/ PlaceObject \/ PlaceText \/ PlaceRun \/ PlaceTables
  <2>1. phase' # "linked" /\ link' = link /\ (phase' = "write" => at' = 1)
    BY <1>2 DEF CheckConfig, PlaceObject, PlaceText, PlaceRun, PlaceTables
  <2>2. Objs' = Objs /\ \A i \in Objs : ~(i < 1)
    BY <1>1, <2>1, ObjectsTyped DEF Objs
  <2> QED BY <2>1, <2>2 DEF OkInv
<1>3. CASE WriteObject
  <2>1. phase = "write" /\ at \in Objs /\ UNCHANGED <<link, load_addr, run_addr>>
    BY <1>3 DEF WriteObject
  <2>2. Objs' = Objs /\ \A i : ObjectOk(i)' <=> ObjectOk(i)
    BY <2>1, OkStays DEF Objs
  <2>3. at \in Nat \ {0} /\ \A i \in Objs : i < at => ObjectOk(i)
    BY <2>1 DEF OkInv
  <2>4. \A i \in Objs : i \in Nat
    BY <1>1, ObjectsTyped DEF Objs
  <2>5. phase' # "linked" /\ (phase' = "write" => at' = at + 1 /\ ObjectOk(at))
    BY <1>3, <2>1 DEF WriteObject, ObjectOk
  <2>6. \A i \in Objs : i < at + 1 => i < at \/ i = at
    BY <2>3, <2>4
  <2>7. phase' = "write" => at' \in Nat \ {0} /\ \A i \in Objs : i < at' => ObjectOk(i)
    BY <2>3, <2>5, <2>6
  <2> QED BY <2>2, <2>5, <2>7 DEF OkInv
<1>4. CASE WriteTables
  <2>1. phase = "write" /\ at \notin Objs /\ phase' = "linked" /\ UNCHANGED <<link, load_addr, run_addr>>
    BY <1>4 DEF WriteTables
  <2>2. Objs' = Objs /\ \A i : ObjectOk(i)' <=> ObjectOk(i)
    BY <2>1, OkStays DEF Objs
  <2>3. at \in Nat \ {0} /\ \A i \in Objs : i < at => ObjectOk(i)
    BY <2>1 DEF OkInv
  <2>4. PICK n \in Nat : Objs = 1 .. n
    BY <1>1, ObjectsTyped DEF Objs
  <2>5. \A i \in Objs : i < at
    BY <2>1, <2>3, <2>4
  <2> QED BY <2>1, <2>2, <2>3, <2>5 DEF OkInv
<1> QED BY <1>2, <1>3, <1>4 DEF LinkNext

\* The start-up code changes nothing of that.
LEMMA OkOtherwise ==
  OkInv /\ UNCHANGED <<link, phase, at, load_addr, run_addr>> => OkInv'
<1> SUFFICES ASSUME OkInv, UNCHANGED <<link, phase, at, load_addr, run_addr>> PROVE OkInv'
  OBVIOUS
<1>1. \A i : ObjectOk(i)' <=> ObjectOk(i)
  BY OkStays
<1>2. Objs' = Objs
  BY DEF Objs
<1> QED BY <1>1, <1>2 DEF OkInv

\* What has been relocated and written is in the image.
LEMMA LandedLands == ReadyInv /\ OkInv => ReferencesLand
<1> SUFFICES ASSUME ReadyInv, OkInv, Separate(link), TablesWhole, phase = "linked",
                    NEW i \in Objs, Sound(i), NEW r \in Refs(i)
             PROVE  Lands(i, r)
  BY DEF ReferencesLand
<1>1. IInv /\ CompleteInv /\ Placed /\ link \in Links
  BY DEF ReadyInv, BInv, IInv, Placed
<1>2. PICK n \in DOMAIN RefsOf(i) : r = RefsOf(i)[n]
  BY DEF Refs, RefsOf
<1>3. PICK b \in {"TEXT", "DATA"} : b = ImageSeg(SegsOf(i)[r.seg])
  BY <1>1, <1>2, OperandLies
<1>4. PICK p \in Nat \ {0}, m \in Nat :
        p = RefPos(i, r) /\ m = Length(SegsOf(i), b) /\ p + r.width - 1 <= m /\ r.width \in {1, 2}
  <2>1. Length(SegsOf(i), b) \in Nat
    BY ObjectsTyped, <1>1 DEF SegsOf, Objs
  <2>2. r.width \in {1, 2} /\ RefPos(i, r) \in Nat \ {0}
        /\ RefPos(i, r) + r.width - 1 <= Length(SegsOf(i), b)
    BY <1>1, <1>2, <1>3, OperandLies DEF References
  <2> QED BY <2>1, <2>2
<1>5. PICK buf, img : buf = Relocated(i, b).buf /\ img = image
  OBVIOUS
<1>6. Landed(i, r, buf)
  <2>1. Relocated(i, b).ok
    BY <1>3 DEF OkInv, ObjectOk
  <2>2. IsIn(i, b, r)
    BY <1>3 DEF IsIn
  <2> QED BY <1>1, <1>2, <1>5, <2>1, <2>2, RelocatedLands
<1>7. PICK load \in Nat : /\ load = IF b = "TEXT" THEN text_load[i] ELSE data_load[i]
                          /\ Holds(img, load, buf, m)
  <2>1. ObjectWritten(img, i)
    BY <1>5 DEF ReadyInv, ImageInv
  <2>2. text_load[i] \in Nat /\ data_load[i] \in Nat
    BY <1>1, LoadsApart
  <2>3. CASE b = "TEXT"
    BY <1>4, <1>5, <2>1, <2>2, <2>3 DEF ObjectWritten
  <2>4. CASE b = "DATA"
    BY <1>4, <1>5, <2>1, <2>2, <2>4 DEF ObjectWritten
  <2> QED BY <2>3, <2>4
<1>8. PICK home \in Nat : home = Home(i, r) /\ home = load + p - 1
  <2>1. PICK base \in Nat, off \in Nat : base = ImageBase(SegsOf(i), r.seg) /\ off = r.off
    BY <1>1, <1>2, OperandLies DEF References
  <2>2. Home(i, r) = load + base + off /\ p = base + off + 1
    BY <1>3, <1>4, <1>7, <2>1 DEF Home, RefPos
  <2> QED BY <2>1, <2>2
<1>9. img[home] = buf[p]
  <2>1. p \in 1 .. m
    BY <1>4
  <2> QED BY <1>7, <1>8, <2>1 DEF Holds
<1>10. r.width = 2 => img[home + 1] = buf[p + 1]
  <2> SUFFICES ASSUME r.width = 2 PROVE img[home + 1] = buf[p + 1]
    OBVIOUS
  <2>1. p + 1 \in 1 .. m
    BY <1>4
  <2>2. img[load + (p + 1) - 1] = buf[p + 1]
    BY <1>7, <2>1 DEF Holds
  <2>3. load + (p + 1) - 1 = home + 1
    BY <1>8
  <2> QED BY <2>2, <2>3
<1> QED BY <1>4, <1>5, <1>6, <1>8, <1>9, <1>10 DEF Landed, Lands, Value

\* In a finished image every reference of an object with operands of their own that the
\* assembler could resolve holds the address its label has at run time (or the byte of it that
\* it asks for), whatever the objects, regions and tables are; the start-up code keeps it.
THEOREM ReferencesAreRight == MachineSpec => []ReferencesLand
<1>1. StartupInit => ReadyInv /\ OkInv
  BY ReadyStarts DEF OkInv, StartupInit, Init
<1>2. ReadyInv /\ OkInv /\ [MachineNext]_machine => OkInv'
  <2> SUFFICES ASSUME ReadyInv, OkInv, [MachineNext]_machine PROVE OkInv'
    OBVIOUS
  <2>1. CASE LinkNext /\ UNCHANGED registers
    BY <2>1, OkLinking
  <2>2. CASE StartupNext
    BY <2>2, OkOtherwise DEF StartupNext, Reset, CopyRecord, CopyByte, ZeroRecord, ZeroByte,
                             CallInit, Linked
  <2>3. CASE UNCHANGED machine
    BY <2>3, OkOtherwise DEF machine, vars
  <2> QED BY <2>1, <2>2, <2>3 DEF MachineNext
<1>3. ReadyInv /\ [MachineNext]_machine => ReadyInv'
  BY ReadyLinking, ReadyBooting, ReadyStutter DEF MachineNext
<1> QED BY <1>1, <1>2, <1>3, LandedLands, PTL DEF MachineSpec
=============================================================================
