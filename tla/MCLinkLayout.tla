----------------------------- MODULE MCLinkLayout -----------------------------
(* Links of two objects for the model checker, in an address space of 144     *)
(* bytes: bytes have 12 values, ROM is 82 bytes long without the vectors.     *)
EXTENDS LinkLayout

Bytes(n, len) == [k \in 1 .. len |-> ((n + k) % 11) + 1]
S(segid, region, n, len) ==
  [segid |-> segid, region |-> region, size |-> len, bytes |-> Bytes(n, len)]
Bare(segid, region, len) == [segid |-> segid, region |-> region, size |-> len, bytes |-> <<>>]
L(i, k, o) == [obj |-> i, seg |-> k, off |-> o]
R(k, o, w, part, to, plus) ==
  [seg |-> k, off |-> o, width |-> w, part |-> part, to |-> to, plus |-> plus]

M(start, size) == [start |-> start, size |-> size]
\* After test/e2e_named_memory_regions__named.cfg and libraries/vcs/vcs_4k.cfg.
Named == [mem |-> [ZEROPAGE |-> M(0, 12), RAM |-> M(24, 24), BANANA |-> M(48, 6), ROM |-> M(56, 88)],
          run |-> [DATA |-> "RAM", BSS |-> "RAM", ZP |-> "ZEROPAGE"]]
Vcs == [mem |-> [RAM |-> M(2, 24), CPUSTACK |-> M(30, 8), ROM |-> M(56, 82)],
        run |-> [DATA |-> "RAM", BSS |-> "RAM", ZP |-> "RAM"]]

Link(cfg, objects, inits) ==
  [mem |-> cfg.mem, run |-> cfg.run, code_load |-> "ROM", data_load |-> "ROM",
   objects |-> objects, inits |-> inits,
   nmi |-> L(1, 1, 0), reset |-> L(1, 1, 1), irqbrk |-> L(2, 1, 1)]

\* The segment in the middle of the first object.
Middles == {S("DATA", "", 5, 2), S("DATA", "BANANA", 5, 4), S("ZP", "", 5, 2), Bare("ZP", "", 3),
            Bare("BSS", "", 2), Bare("BSS", "BANANA", 3), S("TEXT", "", 5, 2), S("DATA", "", 5, 0)}

\* Code with a whole reference, two halves and an import, then data, the middle
\* segment, more data that points back, and BSS.
First(x, d, t) ==
  [segs |-> <<S("TEXT", "", 0, 9), S("DATA", "", 3, d), x, S("DATA", "", 7, 2), Bare("BSS", "", 2)>>,
   refs |-> <<R(1, 1, 2, "WORD", L(1, t, 0), 1), R(1, 4, 1, "LOW", L(1, 3, 0), 0),
              R(1, 5, 1, "HIGH", L(1, 3, 0), 1), R(1, 7, 2, "WORD", L(2, 2, 0), 2),
              R(4, 0, 2, "WORD", L(1, 1, 3), 0)>>]
Second(part, t, n) ==
  [segs |-> <<S("TEXT", "", 4, 6), S("DATA", "", 9, 3), Bare("ZP", "", n)>>,
   refs |-> <<R(1, 0, 1, part, L(1, t, 1), 0), R(1, 2, 1, "WORD", L(2, 3, 0), 0),
              R(1, 3, 2, "WORD", L(1, t, 1), 4), R(2, 1, 2, "WORD", L(2, 1, 5), 0)>>]
\* The second object's zero-page operand belongs to the first one instead.
Importing(o) == [o EXCEPT !.refs[2].to = L(1, 3, 0)]

MCLinks ==
  {Link(cfg, <<First(x, v[1], w[1]), Importing(Second(w[2], 4, n))>>, v[2]) :
     cfg \in {Named, Vcs}, x \in Middles, n \in {1, 10},
     v \in {<<1, <<>>>>, <<3, <<L(1, 1, 2), L(2, 1, 3)>>>>},
     w \in {<<2, "LOW">>, <<4, "HIGH">>, <<5, "LOW">>}}
  \cup {Link(Named, <<First(S("TEXT", "", 5, n), 2, 5), Importing(Second("LOW", 4, 1))>>, <<>>) :
          n \in {25, 26, 27, 29, 32, 33}}
  \cup {[Link(Named, <<First(Bare("BSS", "", n), 2, 5), Importing(Second("LOW", 4, 1))>>, <<>>)
            EXCEPT !.run["BSS"] = b] : n \in {13, 14, 15, 16}, b \in {"RAM", "HS"}}
=============================================================================
