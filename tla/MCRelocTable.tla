----------------------------- MODULE MCRelocTable -----------------------------
(* Small programs for RelocTable, with bytes of eight values: a skip is seven  *)
(* (254), which skips six, and an entry may be up to six bytes further on.     *)
EXTENDS RelocTable

Site(n, k) == [at |-> n, kind |-> k]
Pad(s, n) == [seg |-> s, size |-> n, sites |-> <<>>]
Insn(s, n, k) == [seg |-> s, size |-> n, sites |-> <<Site(1, k)>>]
LongBranch(s) == [seg |-> s, size |-> 5, sites |-> <<Site(3, "word")>>]
\* .byte (w = 1) and .word (w = 2); "none" is an item that is a number.
Data(s, w, ks) ==
  [seg |-> s, size |-> w * Len(ks),
   sites |-> SelectSeq([i \in DOMAIN ks |-> Site(w * (i - 1), ks[i])], LAMBDA x : x.kind # "none")]

Kinds == {<<"word", "half", "import">>, <<"import", "word", "half">>, <<"half", "import", "word">>}
\* Instructions around paddings of every length about one skip and two.
Lines == {<<Pad(1, a), Insn(1, 3, k[1]), Pad(1, b), Insn(1, 2, k[2]), Pad(2, c), Insn(2, 3, k[3])>> :
            a \in {0, 4, 5, 11}, b \in 0 .. 14, c \in {0, 5}, k \in Kinds}
\* Data from the first byte of the segment on, or behind a padding: items next to
\* each other and around a number, and a long branch behind them.
Tables == {<<Pad(1, a), Data(1, 1, <<x, y, "none", y>>), Pad(1, b), Data(1, 2, <<k[1], "none", k[2]>>),
             LongBranch(1), Data(2, 1, <<x>>)>> :
             a \in 0 .. 7, b \in 0 .. 7, x \in {"half", "import"}, y \in {"half", "import"}, k \in Kinds}
\* One segment in two pieces around another.
Pieces == {<<Pad(1, a), Insn(1, 3, k[1]), Data(2, 1, <<"half", "half">>), Pad(2, b), piece,
             Insn(2, 3, k[1])>> :
             a \in {0, 3}, b \in 0 .. 9, k \in Kinds,
             piece \in {Pad(1, 1), Pad(1, 7), Insn(1, 2, "half"), LongBranch(1)}}
\* The last relocation is the one in front of another: the table ends in an entry.
Shorter == {SubSeq(p, 1, 5) : p \in Pieces}
\* One byte back: the distance reads as a skip, and the table ends too early.
Back == {<<Pad(1, a), Data(2, 1, <<x>>), Data(1, 1, <<y>>)>> :
           a \in 0 .. 8, x \in {"half", "import"}, y \in {"half", "import"}}
MCPrograms == Lines \cup Tables \cup Pieces \cup Shorter \cup Back \cup {<<>>}
=============================================================================
