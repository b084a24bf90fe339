----------------------------- MODULE MCLinkSelect -----------------------------
(* Command lines for the model checker: a start-up object that has the       *)
(* vectors, and up to three objects that define and import a and b.          *)
EXTENDS LinkSelect

MCSymbols == Elements(Roots) \cup Generated \cup {"a", "b", "__data_size"}

O(strong, weak, undefs) == [strong |-> strong, weak |-> weak, undefs |-> undefs]
Imports == {<<>>, <<"a">>, <<"b">>, <<"a", "b">>, <<"b", "a">>}
Starts == {O(Elements(Roots), {}, u) : u \in Imports}
AB == {"a", "b"}
Pool == {O(s, w, u) : s \in SUBSET AB, w \in SUBSET AB, u \in Imports}
\* An object defines something, and does not import what it defines.
Disjoint == {o \in Pool : o.strong \cap o.weak = {} /\ o.strong \cup o.weak # {}
                          /\ Elements(o.undefs) \cap (o.strong \cup o.weak) = {}}

\* One start-up object, anywhere among two others.
Pairs == UNION {{<<c, x, y>>, <<x, c, y>>, <<x, y, c>>} :
                  c \in Starts, x \in Disjoint, y \in Disjoint}

\* Objects with one definition or two, three of them behind the start-up object.
Small == {o \in Disjoint : Cardinality(o.strong) + Cardinality(o.weak) = 1
                           /\ Len(o.undefs) <= 1}
Triples == {<<c, x, y, z>> : c \in {s \in Starts : Len(s.undefs) = 1},
                             x \in Small, y \in Small, z \in Small}

\* The vectors spread over objects, or missing; names the linker makes itself.
Spread == {<<O({"__reset"}, {}, <<"a">>), O({"__nmi", "__irqbrk"}, {}, <<>>), O({"a"}, {}, <<>>)>>,
           <<O({"__reset", "__nmi"}, {}, <<"a">>), O({"a"}, {"__irqbrk"}, <<>>)>>,
           <<O({"__reset", "__nmi"}, {}, <<"a">>), O({"a"}, {}, <<>>)>>,
           <<O(Elements(Roots), {}, <<"__init_table">>)>>,
           <<O(Elements(Roots), {}, <<"a">>), O({"a", "__init_table"}, {}, <<>>)>>}
MCInputs == Pairs \cup Triples \cup Spread
=============================================================================
