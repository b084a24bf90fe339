------------------------------ MODULE LinkSelect ------------------------------
(***************************************************************************)
(* The linker's choice of the objects it links and the binding of their    *)
(* imports (linker/n65ld_input.c, select_needed_objects and what it calls; *)
(* linker/n65ld.c, add_global, lookup_global_addr and their callers).      *)
(*                                                                         *)
(* Command-line objects and archive members are taken alike, in the order  *)
(* of the command line, an archive standing for its members in their       *)
(* order: find_best_provider tries them so.  The export x is the name      *)
(* <<"strong", x>> and the export __weak_x the name <<"weak", x>>.         *)
(***************************************************************************)
EXTENDS Naturals, Sequences, FiniteSets, FiniteSetsExt

CONSTANTS Symbols, Inputs

Roots == <<"__reset", "__nmi", "__irqbrk">>
Generated == {"__copy_table", "__zero_table", "__init_table", "__stack_start", "__stack_top"}

VARIABLES
  inputs,     \* in->order with the objects it refers to
  phase,      \* where main is
  selected,   \* in->objects: positions in inputs, in the order of inclusion
  wanted,     \* what collect_needed_symbols would collect now
  needed,     \* what it collected at the start of this round
  at,         \* the element of needed, or of selected, that is looked at
  progress,   \* progress of select_needed_objects
  globals     \* layout->globals: name and where it comes from (0: the linker)

vars == <<inputs, phase, selected, wanted, needed, at, progress, globals>>

Elements(s) == {s[k] : k \in DOMAIN s}
Objects == [strong: SUBSET Symbols, weak: SUBSET Symbols, undefs: Seq(Symbols)]

ASSUME RootsAssumption == Elements(Roots) \cup Generated \subseteq Symbols
ASSUME InputsAssumption == Inputs \subseteq Seq(Objects)

Sel == Elements(selected)
Names(i) == ({"strong"} \X inputs[i].strong) \cup ({"weak"} \X inputs[i].weak)

\* Mutant: a weak export does not count as on offer.
OfferedStrong(n) == \E i \in Sel : n \in inputs[i].strong
\* object_exports_symbol_or_weak of some selected object.
Offered(n) == \E i \in Sel : n \in inputs[i].strong \/ n \in inputs[i].weak

\* find_best_provider: the first object with a strong definition, else the first
\* with a weak one, of those not selected.
Exporters(kind, n) == {i \in DOMAIN inputs \ Sel : <<kind, n>> \in Names(i)}
\* Mutants: weak definitions are not looked for; they are preferred.
ProvidersStrong(n) == Exporters("strong", n)
ProvidersWeakFirst(n) == IF Exporters("weak", n) # {} THEN Exporters("weak", n)
                         ELSE Exporters("strong", n)
Providers(n) == IF Exporters("strong", n) # {} THEN Exporters("strong", n)
                ELSE Exporters("weak", n)
First(S) == CHOOSE i \in S : \A j \in S : i <= j

-----------------------------------------------------------------------------
Init ==
  /\ inputs \in Inputs
  /\ phase = "round"
  /\ selected = <<>> /\ wanted = Roots /\ needed = <<>> /\ at = 1
  /\ progress = FALSE
  /\ globals = {}

\* Mutant: the progress of the last round is kept.
StartRoundKept ==
  /\ phase = "round"
  /\ needed' = wanted
  /\ at' = 1
  /\ phase' = "scan"
  /\ UNCHANGED <<inputs, selected, wanted, progress, globals>>

\* A round works on the symbols that were needed when it began.  A symbol that
\* occurs again in the list is found as the first occurrence left it.
StartRound ==
  /\ phase = "round"
  /\ needed' = wanted
  /\ at' = 1
  /\ progress' = FALSE
  /\ phase' = "scan"
  /\ UNCHANGED <<inputs, selected, wanted, globals>>

\* Nothing to do for this symbol: it is on offer already, or nobody has it.
Skip ==
  /\ phase = "scan" /\ at <= Len(needed)
  /\ Offered(needed[at]) \/ Providers(needed[at]) = {}
  /\ at' = at + 1
  /\ UNCHANGED <<inputs, phase, selected, wanted, needed, progress, globals>>

\* include_object.
Include ==
  /\ phase = "scan" /\ at <= Len(needed)
  /\ ~Offered(needed[at]) /\ Providers(needed[at]) # {}
  /\ LET i == First(Providers(needed[at])) IN
     /\ selected' = Append(selected, i)
     /\ wanted' = wanted \o inputs[i].undefs
  /\ progress' = TRUE
  /\ at' = at + 1
  /\ UNCHANGED <<inputs, phase, needed, globals>>

\* Another round after one that included something.
EndRound ==
  /\ phase = "scan" /\ at > Len(needed)
  /\ phase' = IF progress THEN "round" ELSE "globals"
  /\ at' = 1
  /\ UNCHANGED <<inputs, selected, wanted, needed, progress, globals>>

-----------------------------------------------------------------------------
\* The tail of layout_objects: every export of every selected object becomes a
\* global; a name that is already there ends the link.
GlobalNames == {g[1] : g \in globals}
AddGlobals ==
  /\ phase = "globals" /\ at <= Len(selected)
  /\ LET i == selected[at] IN
     IF Names(i) \cap GlobalNames = {}
     THEN /\ globals' = globals \cup (Names(i) \X {i})
          /\ at' = at + 1
          /\ UNCHANGED phase
     ELSE phase' = "duplicate" /\ UNCHANGED <<globals, at>>
  /\ UNCHANGED <<inputs, selected, wanted, needed, progress>>

AddGenerated ==
  /\ phase = "globals" /\ at > Len(selected)
  /\ LET names == {"strong"} \X Generated IN
     IF names \cap GlobalNames = {}
     THEN globals' = globals \cup (names \X {0}) /\ phase' = "resolve"
     ELSE phase' = "duplicate" /\ UNCHANGED globals
  /\ at' = 1
  /\ UNCHANGED <<inputs, selected, wanted, needed, progress>>

\* lookup_global_addr.
Found(n) == <<"strong", n>> \in GlobalNames \/ <<"weak", n>> \in GlobalNames
\* Mutant: the weak definition is looked up first.
BindingWeakFirst(n) ==
  CHOOSE g \in globals :
    g[1] = IF <<"weak", n>> \in GlobalNames THEN <<"weak", n>> ELSE <<"strong", n>>
Binding(n) ==
  CHOOSE g \in globals :
    g[1] = IF <<"strong", n>> \in GlobalNames THEN <<"strong", n>> ELSE <<"weak", n>>

\* apply_segment_relocs: the object writer lists an import only when a relocation
\* uses it, so that every import is looked up.
Resolve ==
  /\ phase = "resolve" /\ at <= Len(selected)
  /\ IF \A n \in Elements(inputs[selected[at]].undefs) : Found(n)
     THEN at' = at + 1 /\ UNCHANGED phase
     ELSE phase' = "unresolved" /\ UNCHANGED at
  /\ UNCHANGED <<inputs, selected, wanted, needed, progress, globals>>

\* build_rom_image looks the vectors up.
Vectors ==
  /\ phase = "resolve" /\ at > Len(selected)
  /\ phase' = IF \A n \in Elements(Roots) : Found(n) THEN "linked" ELSE "unresolved"
  /\ UNCHANGED <<inputs, selected, wanted, needed, at, progress, globals>>

Next == \/ StartRound \/ Skip \/ Include \/ EndRound
        \/ AddGlobals \/ AddGenerated \/ Resolve \/ Vectors

Spec == Init /\ [][Next]_vars
FairSpec == Spec /\ WF_vars(Next)

-----------------------------------------------------------------------------
Selecting == phase \in {"round", "scan"}
Ended == phase \in {"duplicate", "unresolved", "linked"}

\* The state variables hold what the C variables can hold.
TypeOK ==
  /\ inputs \in Inputs
  /\ phase \in {"round", "scan", "globals", "resolve", "duplicate", "unresolved", "linked"}
  /\ selected \in Seq(DOMAIN inputs)
  /\ wanted \in Seq(Symbols) /\ needed \in Seq(Symbols)
  /\ at \in Nat \ {0}
  /\ progress \in BOOLEAN
  /\ globals \subseteq ({"strong", "weak"} \X Symbols) \X ({0} \cup DOMAIN inputs)

Closure == INSTANCE SymbolClosure WITH chosen <- Sel, finished <- ~Selecting
\* The selection implements what linker/README.md promises of it: every round adds
\* needed objects of the right kind only, and ends when nothing more is needed.
SelectsClosure == Closure!Spec

Needed == Elements(Roots) \cup UNION {Elements(inputs[i].undefs) : i \in Sel}
ExportedBy(i, n) == n \in inputs[i].strong \/ n \in inputs[i].weak

\* The last round, which works on a list collected before it, has missed nothing:
\* a needed symbol that no selected object offers is offered by no input at all.
NothingMissed ==
  ~Selecting => \A n \in Needed : Offered(n) \/ \A i \in DOMAIN inputs : ~ExportedBy(i, n)

\* No object is included twice (its exports would be duplicates of themselves),
\* and each one was included for a symbol that a root or an earlier object needs
\* and that no earlier object offers.
EachForAReason ==
  \A k \in DOMAIN selected :
     LET earlier == {selected[j] : j \in 1 .. k - 1} IN
     /\ selected[k] \notin earlier
     /\ \E n \in Elements(Roots) \cup UNION {Elements(inputs[i].undefs) : i \in earlier} :
           ExportedBy(selected[k], n) /\ \A i \in earlier : ~ExportedBy(i, n)

\* In a finished link every import of every object, and every vector, is bound
\* to exactly one global, a strong one whenever a linked object has it.
Bound ==
  phase = "linked" =>
    \A n \in Needed :
       /\ Cardinality({g \in globals : g[1] = Binding(n)[1]}) = 1
       /\ Binding(n) \in globals /\ Binding(n)[1][2] = n
       /\ (\E i \in Sel : n \in inputs[i].strong) => Binding(n)[1][1] = "strong"

\* The rounds of select_needed_objects come to an end, and so does the link.
Ends == <>Ended
=============================================================================
