---------------------------- MODULE SymbolClosure ----------------------------
(***************************************************************************)
(* What the selection of objects promises (linker/README.md, "What it      *)
(* does" and "Weak symbols"): only objects that satisfy a needed symbol    *)
(* are pulled in, a weak definition only where there is no strong one, and *)
(* the selection ends when nothing more can be satisfied.  Which object is *)
(* pulled in first is left open.                                           *)
(***************************************************************************)
EXTENDS Naturals, Sequences

CONSTANTS
  Symbols,  \* the names that objects export and import, without __weak_
  Inputs    \* the command lines: sequences of objects, archives laid open

Roots == <<"__reset", "__nmi", "__irqbrk">>

\* strong, weak: what the object exports as x and as __weak_x; undefs: what it imports.
Objects == [strong: SUBSET Symbols, weak: SUBSET Symbols, undefs: Seq(Symbols)]

VARIABLES
  inputs,    \* in->order
  chosen,    \* the positions of the objects that are linked
  finished   \* the selection is over

Elements(s) == {s[k] : k \in DOMAIN s}
Exported(i) == inputs[i].strong \cup inputs[i].weak
NeededBy(C) == Elements(Roots) \cup UNION {Elements(inputs[i].undefs) : i \in C}
Missing(C) == NeededBy(C) \ UNION {Exported(i) : i \in C}

\* Object i is the right kind of provider for n.
Provides(i, n) ==
  \/ n \in inputs[i].strong
  \/ n \in inputs[i].weak /\ \A j \in DOMAIN inputs : n \notin inputs[j].strong

Init == inputs \in Inputs /\ chosen = {} /\ finished = FALSE

Pull == /\ ~finished
        /\ \E i \in DOMAIN inputs \ chosen :
              /\ \E n \in Missing(chosen) : Provides(i, n)
              /\ chosen' = chosen \cup {i}
        /\ UNCHANGED <<inputs, finished>>

Finish == /\ ~finished
          /\ \A n \in Missing(chosen), i \in DOMAIN inputs : n \notin Exported(i)
          /\ finished' = TRUE
          /\ UNCHANGED <<inputs, chosen>>

Next == Pull \/ Finish
Spec == Init /\ [][Next]_<<inputs, chosen, finished>>
=============================================================================
