------------------------------ MODULE MCAsmRelax ------------------------------
(* Small programs for AsmRelax: every arrangement of a few branches, operands *)
(* and paddings sized around the reach of a branch and around address 256.    *)
EXTENDS AsmRelax

Num(n) == [plus |-> 0, minus |-> 0, off |-> n, ext |-> "no"]
Lab(i) == [plus |-> i, minus |-> 0, off |-> 0, ext |-> "no"]
LabPlus(i, n) == [plus |-> i, minus |-> 0, off |-> n, ext |-> "no"]
Dist(i, j, n) == [plus |-> i, minus |-> j, off |-> n, ext |-> "no"]
Import(x) == [plus |-> 0, minus |-> 0, off |-> 0, ext |-> x]

Pad(s, n) == [kind |-> "bytes", seg |-> s, bytes |-> n, expr |-> Num(0), zp |-> FALSE]
Branch(s, e) == [kind |-> "branch", seg |-> s, bytes |-> 0, expr |-> e, zp |-> FALSE]
Operand(s, e, z) == [kind |-> "operand", seg |-> s, bytes |-> 0, expr |-> e, zp |-> z]
Org(s, e) == [kind |-> "org", seg |-> s, bytes |-> 0, expr |-> e, zp |-> FALSE]
Res(s, e) == [kind |-> "res", seg |-> s, bytes |-> 0, expr |-> e, zp |-> FALSE]

Seg(b, a, id) == [base |-> b, after |-> a, size |-> 4096, id |-> id]
OneSeg(b) == <<Seg(b, 0, "TEXT")>>
Hex(segs, stmts) == [o65 |-> FALSE, segs |-> segs, stmts |-> stmts]
Object(segs, stmts) == [o65 |-> TRUE, segs |-> segs, stmts |-> stmts]

\* Two branches and an operand around two paddings, in one segment: the targets
\* and the paddings decide which of them come into reach, and in which pass.
Triples ==
  {Hex(OneSeg(b), <<Branch(1, Lab(t1)), Pad(1, n1), Branch(1, Lab(t2)), Pad(1, n2),
                    Operand(1, Lab(t3), TRUE), Pad(1, 0)>>) :
     b \in {0, 128}, t1 \in {3, 5, 6}, t2 \in {1, 2, 6}, t3 \in {1, 4, 6},
     n1 \in {119, 122, 124}, n2 \in {117, 121, 124}}

\* Two segments, one laid out in two pieces around the other.
Pieces ==
  {Hex(<<Seg(0, 0, "TEXT"), Seg(b, 0, "DATA")>>,
       <<Branch(1, Lab(t)), Pad(1, n), Branch(2, Lab(5)), Operand(1, Lab(5), TRUE),
         Pad(2, m), Operand(1, Lab(3), z), Pad(1, 0)>>) :
     b \in {200, 254, 4096}, t \in {4, 7}, n \in {118, 121, 124, 127},
     m \in {0, 3}, z \in BOOLEAN}

\* Segments placed after one another, .org and .res by label distance, imports.
Placed ==
  {Hex(<<Seg(512, 0, "TEXT"), Seg(0, 1, "DATA")>>,
       <<Branch(1, Lab(3)), Pad(1, n), Pad(1, 0), x, Pad(1, 1), Operand(2, Lab(4), TRUE),
         Operand(1, Import("zp"), TRUE)>>) :
     n \in {3, 122, 123},
     x \in {Org(1, Num(768)), Org(1, Num(16)), Org(1, Lab(6)), Org(1, LabPlus(3, 4)),
            Res(1, Num(2)), Res(1, Dist(3, 1, 0)), Res(1, Dist(1, 3, 0)), Res(1, Lab(7)),
            Res(1, Dist(1, 3, 70000))}}

\* Objects: named segments of one o65 segment, BSS, and imported names.
Objects ==
  {Object(<<Seg(0, 0, "TEXT"), Seg(0, 0, id), Seg(0, 0, "TEXT")>>,
          <<Pad(1, n), Branch(1, Lab(1)), Pad(2, 4), Branch(3, e), Pad(3, 6),
            Operand(1, f, TRUE), Res(2, Num(3))>>) :
     n \in {120, 124, 127}, id \in {"DATA", "BSS", "ZP", "TEXT"},
     e \in {Lab(5), Import("abs"), Lab(3)},
     f \in {Import("zp"), Import("abs"), Num(7), Dist(3, 1, 0), Num(300)}}

\* Two segments that shrink alike: their sizes cancel in the signature of a pass,
\* while a branch over a shortened branch comes into reach.
Twin(s, k, n) ==
  <<Branch(s, Lab(k + 5)), Pad(s, 100), Branch(s, Lab(k + 5)), Pad(s, n), Pad(s, 0)>>
Twins == {Hex(<<Seg(0, 0, "TEXT"), Seg(4096, 0, "DATA")>>, Twin(1, 0, n) \o Twin(2, 5, m)) :
            n \in 18 .. 23, m \in {20, 21, 23}}

\* A segment that takes its length from the one that starts behind it: every pass
\* pushes both further, up to the cap; and one that only looks at itself.
Pushed ==
  {Hex(<<Seg(512, 0, "TEXT"), Seg(0, 1, "DATA")>>,
       <<Pad(k, 2), Pad(2, 1), Org(1, LabPlus(1, 8)), Branch(1, Lab(1)),
         Operand(2, Lab(2), TRUE)>>) : k \in {1, 2}}

MCPrograms == Triples \cup Pieces \cup Placed \cup Objects \cup Twins \cup Pushed
=============================================================================
