--------------------------- MODULE LinkSelectProofs ---------------------------
(* Proofs about the selection of objects and the binding of their imports:   *)
(* it refines SymbolClosure, misses nothing, includes every object for a     *)
(* reason and binds every import to one global, whatever the inputs.         *)
EXTENDS LinkSelect, SequenceTheorems, FiniteSetTheorems, WellFoundedInduction, TLAPS

\* A set of positions has a first one.
LEMMA FirstIn ==
  ASSUME NEW S, S \subseteq Nat, S # {}
  PROVE  First(S) \in S
<1> DEFINE R == {p \in Nat \X Nat : p[1] < p[2]}
<1>0. \A i, j \in Nat : <<j, i>> \in R <=> j < i
  OBVIOUS
<1>1. IsWellFoundedOn(R, Nat)
  BY NatLessThanWellFounded DEF OpToRel
<1>2. \E i \in S : \A j \in S : ~(<<j, i>> \in R)
  <2> HIDE DEF R
  <2> QED
    BY <1>1, WFMin
<1>3. \E i \in S : \A j \in S : i <= j
  <2> HIDE DEF R
  <2>1. \A i, j \in S : ~(<<j, i>> \in R) => i <= j
    BY <1>0
  <2> QED
    BY <1>2, <2>1
<1> QED
  BY <1>3 DEF First

\* What appending does to the elements of a sequence.
LEMMA ElementsAppend ==
  ASSUME NEW S, NEW s \in Seq(S), NEW e \in S
  PROVE  Elements(Append(s, e)) = Elements(s) \cup {e}
<1>1. Len(Append(s, e)) = Len(s) + 1 /\ DOMAIN s = 1 .. Len(s) /\ Len(s) \in Nat
  BY LenProperties
<1>2. \A k \in 1 .. Len(s) + 1 : Append(s, e)[k] = IF k <= Len(s) THEN s[k] ELSE e
  OBVIOUS
<1>3. DOMAIN Append(s, e) = 1 .. Len(s) + 1
  OBVIOUS
<1> QED
  BY <1>1, <1>2, <1>3 DEF Elements

LEMMA ElementsConcat ==
  ASSUME NEW S, NEW s \in Seq(S), NEW t \in Seq(S)
  PROVE  Elements(s \o t) = Elements(s) \cup Elements(t)
<1>1. /\ DOMAIN s = 1 .. Len(s) /\ DOMAIN t = 1 .. Len(t) /\ Len(s) \in Nat /\ Len(t) \in Nat
  BY LenProperties
<1>2. DOMAIN (s \o t) = 1 .. Len(s) + Len(t)
  BY ConcatProperties, LenProperties
<1>3. \A k \in 1 .. Len(s) : (s \o t)[k] = s[k]
  BY <1>1, ConcatProperties
<1>4. \A k \in 1 .. Len(t) : (s \o t)[Len(s) + k] = t[k]
  BY <1>1, ConcatProperties
<1>5. \A k \in 1 .. Len(s) + Len(t) : k <= Len(s) \/ k - Len(s) \in 1 .. Len(t)
  BY <1>1
<1>6. Elements(s \o t) \subseteq Elements(s) \cup Elements(t)
  <2>1. ASSUME NEW k \in 1 .. Len(s) + Len(t)
        PROVE  (s \o t)[k] \in Elements(s) \cup Elements(t)
    <3>1. CASE k <= Len(s)
      BY <1>1, <1>3, <3>1 DEF Elements
    <3>2. CASE k - Len(s) \in 1 .. Len(t)
      <4>1. (s \o t)[k] = t[k - Len(s)]
        BY <1>1, <1>4, <3>2
      <4> QED
        BY <1>1, <3>2, <4>1 DEF Elements
    <3> QED
      BY <1>5, <3>1, <3>2
  <2> QED
    BY <1>2, <2>1 DEF Elements
<1>7. Elements(s) \subseteq Elements(s \o t)
  BY <1>1, <1>2, <1>3 DEF Elements
<1>8. Elements(t) \subseteq Elements(s \o t)
  <2>1. ASSUME NEW k \in 1 .. Len(t)
        PROVE  t[k] \in Elements(s \o t)
    <3>1. Len(s) + k \in DOMAIN (s \o t)
      BY <1>1, <1>2
    <3> QED
      BY <1>4, <3>1 DEF Elements
  <2> QED
    BY <1>1, <2>1 DEF Elements
<1> QED
  BY <1>6, <1>7, <1>8

-----------------------------------------------------------------------------
(* Type correctness.                                                         *)

\* What the constants guarantee of the objects.
LEMMA InputShape ==
  ASSUME inputs \in Inputs
  PROVE  /\ DOMAIN inputs = 1 .. Len(inputs) /\ Len(inputs) \in Nat
         /\ \A i \in DOMAIN inputs : /\ inputs[i].strong \subseteq Symbols
                                     /\ inputs[i].weak \subseteq Symbols
                                     /\ inputs[i].undefs \in Seq(Symbols)
<1>1. inputs \in Seq(Objects)
  BY InputsAssumption
<1>2. DOMAIN inputs = 1 .. Len(inputs) /\ Len(inputs) \in Nat
  BY <1>1
<1>3. \A i \in DOMAIN inputs : inputs[i] \in Objects
  BY <1>1, <1>2
<1> QED
  BY <1>2, <1>3 DEF Objects

LEMMA RootsSeq == Roots \in Seq(Symbols)
<1>1. DOMAIN Roots = 1 .. 3 /\ Len(Roots) = 3
  BY DEF Roots
<1>2. Roots[1] \in Symbols /\ Roots[2] \in Symbols /\ Roots[3] \in Symbols
  BY <1>1, RootsAssumption DEF Elements
<1> QED
  BY <1>2 DEF Roots

LEMMA NamesType ==
  ASSUME inputs \in Inputs, NEW i \in DOMAIN inputs
  PROVE  Names(i) \subseteq {"strong", "weak"} \X Symbols
BY InputShape DEF Names

\* The object that Include takes.
LEMMA Provider ==
  ASSUME TypeOK, NEW n, Providers(n) # {}
  PROVE  /\ First(Providers(n)) \in DOMAIN inputs \ Sel
         /\ ExportedBy(First(Providers(n)), n)
         /\ n \notin inputs[First(Providers(n))].strong =>
              \A j \in DOMAIN inputs \ Sel : n \notin inputs[j].strong
<1> DEFINE i == First(Providers(n))
<1>1. Providers(n) \subseteq DOMAIN inputs \ Sel
  BY DEF Providers, Exporters
<1>2. DOMAIN inputs \subseteq Nat
  BY InputShape DEF TypeOK
<1>3. i \in Providers(n)
  BY <1>1, <1>2, FirstIn
<1>4. \/ i \in Exporters("strong", n)
      \/ i \in Exporters("weak", n) /\ Exporters("strong", n) = {}
  BY <1>3 DEF Providers
<1>5. \A j : /\ <<"strong", n>> \in Names(j) <=> n \in inputs[j].strong
             /\ <<"weak", n>> \in Names(j) <=> n \in inputs[j].weak
  BY DEF Names
<1> QED
  BY <1>1, <1>3, <1>4, <1>5 DEF Exporters, ExportedBy

LEMMA TypeInit == Init => TypeOK
<1> SUFFICES ASSUME Init PROVE TypeOK
  OBVIOUS
<1>1. wanted \in Seq(Symbols) /\ needed \in Seq(Symbols) /\ selected \in Seq(DOMAIN inputs)
  BY RootsSeq, EmptySeq DEF Init
<1>2. inputs \in Inputs /\ phase = "round" /\ at = 1 /\ globals = {}
  BY DEF Init
<1>3. progress \in BOOLEAN
  BY DEF Init
<1> QED
  BY <1>1, <1>2, <1>3 DEF TypeOK

LEMMA TypeStep == TypeOK /\ [Next]_vars => TypeOK'
<1> SUFFICES ASSUME TypeOK, [Next]_vars
             PROVE  TypeOK'
  OBVIOUS
<1>0. progress' \in BOOLEAN
  BY DEF Next, StartRound, Skip, Include, EndRound, AddGlobals, AddGenerated, Resolve,
         Vectors, vars, TypeOK
<1>1. CASE StartRound
  BY <1>0, <1>1 DEF StartRound, TypeOK
<1>2. CASE Skip
  BY <1>2 DEF Skip, TypeOK
<1>3. CASE Include
  <2> DEFINE i == First(Providers(needed[at]))
  <2>1. i \in DOMAIN inputs
    BY <1>3, Provider DEF Include
  <2>2. inputs[i].undefs \in Seq(Symbols)
    BY <2>1, InputShape DEF TypeOK
  <2> HIDE DEF i
  <2>3. selected' \in Seq(DOMAIN inputs)
    BY <1>3, <2>1 DEF Include, TypeOK, i
  <2>4. wanted' \in Seq(Symbols)
    BY <1>3, <2>2, ConcatProperties DEF Include, TypeOK, i
  <2> QED
    BY <1>3, <2>3, <2>4 DEF Include, TypeOK
<1>4. CASE EndRound
  BY <1>4 DEF EndRound, TypeOK
<1>5. CASE AddGlobals
  <2>1. at \in 1 .. Len(selected) /\ selected[at] \in DOMAIN inputs
    BY <1>5, ElementOfSeq, LenProperties DEF AddGlobals, TypeOK
  <2>2. globals' \subseteq ({"strong", "weak"} \X Symbols) \X ({0} \cup DOMAIN inputs)
    BY <1>5, <2>1, NamesType DEF AddGlobals, TypeOK
  <2>3. phase' \in {"globals", "duplicate"} /\ at' \in Nat \ {0}
    BY <1>5 DEF AddGlobals, TypeOK
  <2> QED
    BY <1>5, <2>2, <2>3 DEF AddGlobals, TypeOK
<1>6. CASE AddGenerated
  <2>1. globals' \subseteq ({"strong", "weak"} \X Symbols) \X ({0} \cup DOMAIN inputs)
    BY <1>6, RootsAssumption DEF AddGenerated, TypeOK
  <2> QED
    BY <1>6, <2>1 DEF AddGenerated, TypeOK
<1>7. CASE Resolve
  BY <1>7 DEF Resolve, TypeOK
<1>8. CASE Vectors
  BY <1>8 DEF Vectors, TypeOK
<1>9. CASE UNCHANGED vars
  BY <1>9 DEF vars, TypeOK
<1> QED
  BY <1>1, <1>2, <1>3, <1>4, <1>5, <1>6, <1>7, <1>8, <1>9 DEF Next

\* The linker's tables stay within their types, for every command line.
THEOREM TypeCorrect == Spec => []TypeOK
<1> QED
  BY TypeInit, TypeStep, PTL DEF Spec

-----------------------------------------------------------------------------
(***************************************************************************)
(* The selection.  A round works on a list that was collected before it;   *)
(* the invariant says what is true of the part of the list already seen as *)
(* long as the round has included nothing, which is how the last one ends. *)
(***************************************************************************)
NoProvider(n) == \A i \in DOMAIN inputs : ~ExportedBy(i, n)
SeenSoFar == \A k \in DOMAIN needed : k < at => Offered(needed[k]) \/ NoProvider(needed[k])
SelInv ==
  /\ Elements(wanted) = Needed
  /\ phase = "scan" => Elements(needed) \subseteq Needed
  /\ phase = "scan" /\ progress = FALSE => Elements(needed) = Needed /\ SeenSoFar
  /\ NothingMissed
  /\ EachForAReason
IInv == TypeOK /\ SelInv

\* What Include does.
LEMMA IncludeFacts ==
  ASSUME TypeOK, Include
  PROVE  \E i \in DOMAIN inputs \ Sel :
            /\ selected' = Append(selected, i) /\ Sel' = Sel \cup {i}
            /\ Elements(wanted') = Elements(wanted) \cup Elements(inputs[i].undefs)
            /\ Needed' = Needed \cup Elements(inputs[i].undefs)
            /\ needed[at] \in Elements(needed) /\ ~Offered(needed[at])
            /\ ExportedBy(i, needed[at])
            /\ needed[at] \notin inputs[i].strong =>
                 \A j \in DOMAIN inputs \ Sel : needed[at] \notin inputs[j].strong
            /\ inputs' = inputs /\ needed' = needed /\ progress' = TRUE
            /\ phase = "scan" /\ phase' = "scan"
<1> DEFINE n == needed[at]
           i == First(Providers(n))
<1>1. /\ ~Offered(n) /\ Providers(n) # {} /\ at \in DOMAIN needed
      /\ inputs' = inputs /\ needed' = needed /\ progress' = TRUE
      /\ phase = "scan" /\ phase' = "scan"
  BY LenProperties DEF Include, TypeOK
<1>2. selected' = Append(selected, i) /\ wanted' = wanted \o inputs[i].undefs
  BY DEF Include
<1>3. /\ i \in DOMAIN inputs \ Sel /\ ExportedBy(i, n)
      /\ n \notin inputs[i].strong => \A j \in DOMAIN inputs \ Sel : n \notin inputs[j].strong
  BY <1>1, Provider
<1> HIDE DEF i
<1>4. Sel' = Sel \cup {i}
  BY <1>2, <1>3, ElementsAppend DEF Sel, TypeOK
<1>5. Elements(wanted') = Elements(wanted) \cup Elements(inputs[i].undefs)
  <2>1. inputs[i].undefs \in Seq(Symbols)
    BY <1>3, InputShape DEF TypeOK
  <2> QED
    BY <1>2, <2>1, ElementsConcat DEF TypeOK
<1>6. Needed' = Needed \cup Elements(inputs[i].undefs)
  BY <1>1, <1>4 DEF Needed
<1>7. n \in Elements(needed)
  BY <1>1 DEF Elements
<1> QED
  BY <1>1, <1>2, <1>3, <1>4, <1>5, <1>6, <1>7

LEMMA SelInit == Init => SelInv
<1> SUFFICES ASSUME Init PROVE SelInv
  OBVIOUS
<1>1. Sel = {} /\ DOMAIN selected = {}
  BY DEF Init, Sel, Elements
<1>2. Needed = Elements(wanted)
  BY <1>1 DEF Needed, Init
<1>3. phase = "round"
  BY DEF Init
<1> QED
  BY <1>1, <1>2, <1>3 DEF SelInv, NothingMissed, EachForAReason, Selecting

\* Include keeps the reasons: the objects before keep theirs, and the new one is
\* taken for a symbol that nobody offered.
LEMMA ReasonStep ==
  ASSUME TypeOK, SelInv, Include
  PROVE  EachForAReason'
<1>1. PICK i \in DOMAIN inputs \ Sel :
        /\ selected' = Append(selected, i)
        /\ needed[at] \in Elements(needed) /\ ~Offered(needed[at]) /\ ExportedBy(i, needed[at])
        /\ inputs' = inputs /\ phase = "scan"
  BY IncludeFacts
<1>2. /\ Len(selected) \in Nat /\ DOMAIN selected = 1 .. Len(selected)
      /\ DOMAIN selected' = 1 .. Len(selected) + 1
      /\ \A k \in 1 .. Len(selected) : selected'[k] = selected[k]
      /\ selected'[Len(selected) + 1] = i
  BY <1>1, LenProperties DEF TypeOK
<1>3. needed[at] \in Needed
  BY <1>1 DEF SelInv
<1>4. \A j, n : ExportedBy(j, n)' <=> ExportedBy(j, n)
  BY <1>1 DEF ExportedBy
<1>5. ASSUME NEW k \in DOMAIN selected'
      PROVE  LET earlier == {selected'[j] : j \in 1 .. k - 1} IN
             /\ selected'[k] \notin earlier
             /\ \E n \in Elements(Roots) \cup UNION {Elements(inputs[j].undefs) : j \in earlier} :
                  ExportedBy(selected'[k], n) /\ \A j \in earlier : ~ExportedBy(j, n)
  <2> DEFINE old == {selected[j] : j \in 1 .. k - 1}
  <2>1. {selected'[j] : j \in 1 .. k - 1} = old
    BY <1>2
  <2>2. CASE k \in 1 .. Len(selected)
    BY <1>2, <2>1, <2>2 DEF SelInv, EachForAReason
  <2>3. CASE k = Len(selected) + 1
    <3>1. old = Sel
      BY <1>2, <2>3 DEF Sel, Elements
    <3>2. \A j \in Sel : ~ExportedBy(j, needed[at])
      BY <1>1 DEF Offered, ExportedBy
    <3> QED
      BY <1>1, <1>2, <1>3, <2>1, <2>3, <3>1, <3>2 DEF Needed
  <2> QED
    BY <1>2, <2>2, <2>3
<1> QED
  BY <1>1, <1>4, <1>5 DEF EachForAReason

LEMMA SelStep == TypeOK /\ SelInv /\ [Next]_vars => SelInv'
<1> SUFFICES ASSUME TypeOK, SelInv, [Next]_vars
             PROVE  SelInv'
  OBVIOUS
<1>1. CASE selected' = selected /\ inputs' = inputs /\ wanted' = wanted
  <2>1. /\ Sel' = Sel /\ Needed' = Needed /\ EachForAReason' = EachForAReason
        /\ \A n : Offered(n)' = Offered(n) /\ NoProvider(n)' = NoProvider(n)
        /\ Elements(wanted') = Elements(wanted)
    BY <1>1 DEF Sel, Needed, EachForAReason, Offered, NoProvider, ExportedBy
  <2>2. CASE StartRound
    <3>1. /\ Elements(needed') = Needed /\ SeenSoFar' /\ phase = "round" /\ phase' = "scan"
      <4>1. at' = 1 /\ \A k \in DOMAIN needed' : ~(k < at')
        BY <2>2, LenProperties DEF StartRound, TypeOK
      <4>2. Elements(needed') = Needed /\ phase = "round" /\ phase' = "scan"
        BY <2>2 DEF StartRound, SelInv
      <4> QED
        BY <4>1, <4>2 DEF SeenSoFar
    <3> QED
      BY <2>1, <3>1 DEF SelInv, NothingMissed, Selecting
  <2>3. CASE Skip
    <3>1. /\ phase = "scan" /\ phase' = "scan" /\ needed' = needed /\ progress' = progress
          /\ at' = at + 1 /\ at \in Nat
          /\ Offered(needed[at]) \/ Providers(needed[at]) = {}
      BY <2>3 DEF Skip, TypeOK
    <3>2. Offered(needed[at]) \/ NoProvider(needed[at])
      BY <3>1 DEF Providers, Exporters, Names, NoProvider, Offered, ExportedBy
    <3>3. SeenSoFar => SeenSoFar'
      <4>1. DOMAIN needed \subseteq Nat
        BY LenProperties DEF TypeOK
      <4> QED
        BY <2>1, <3>1, <3>2, <4>1 DEF SeenSoFar
    <3> QED
      BY <2>1, <3>1, <3>3 DEF SelInv, NothingMissed, Selecting
  <2>4. CASE EndRound
    <3>1. /\ phase = "scan" /\ progress \in BOOLEAN /\ at > Len(needed)
          /\ progress = TRUE => phase' = "round"
          /\ progress = FALSE => phase' = "globals"
      BY <2>4 DEF EndRound, TypeOK
    <3>2. CASE progress = TRUE
      BY <2>1, <3>1, <3>2 DEF SelInv, NothingMissed, Selecting
    <3>3. CASE progress = FALSE
      <4>1. Elements(needed) = Needed /\ SeenSoFar
        BY <3>1, <3>3 DEF SelInv
      <4>2. \A k \in DOMAIN needed : k < at
        BY <3>1, LenProperties DEF TypeOK
      <4>3. \A n \in Needed : Offered(n) \/ NoProvider(n)
        BY <4>1, <4>2 DEF SeenSoFar, Elements
      <4>4. NothingMissed'
        BY <2>1, <4>3 DEF NothingMissed, NoProvider
      <4> QED
        BY <2>1, <3>1, <3>3, <4>4 DEF SelInv
    <3> QED
      BY <3>1, <3>2, <3>3
  <2>5. CASE UNCHANGED vars
    BY <2>1, <2>5 DEF SelInv, NothingMissed, SeenSoFar, Selecting, NoProvider, vars
  <2>6. CASE AddGlobals \/ AddGenerated \/ Resolve \/ Vectors
    <3>1. ~Selecting /\ phase' # "scan"
      BY <2>6 DEF AddGlobals, AddGenerated, Resolve, Vectors, Selecting
    <3>2. \A n \in Needed : Offered(n) \/ NoProvider(n)
      BY <3>1 DEF SelInv, NothingMissed, NoProvider
    <3>3. NothingMissed'
      BY <2>1, <3>2 DEF NothingMissed, NoProvider
    <3> QED
      BY <2>1, <3>1, <3>3 DEF SelInv
  <2>7. ~Include
    <3>1. ASSUME Include PROVE FALSE
      <4>1. PICK i \in DOMAIN inputs \ Sel : selected' = Append(selected, i)
        BY <3>1, IncludeFacts
      <4>2. Len(Append(selected, i)) = Len(selected) + 1 /\ Len(selected) \in Nat
        BY <4>1 DEF TypeOK
      <4> QED
        BY <1>1, <4>1, <4>2
    <3> QED
      BY <3>1
  <2> QED
    BY <2>2, <2>3, <2>4, <2>5, <2>6, <2>7 DEF Next
<1>2. CASE Include
  <2>1. PICK i \in DOMAIN inputs \ Sel :
          /\ Elements(wanted') = Elements(wanted) \cup Elements(inputs[i].undefs)
          /\ Needed' = Needed \cup Elements(inputs[i].undefs)
          /\ needed' = needed /\ progress' = TRUE /\ phase = "scan" /\ phase' = "scan"
    BY <1>2, IncludeFacts
  <2>2. EachForAReason'
    BY <1>2, ReasonStep
  <2>3. Elements(needed') \subseteq Needed'
    BY <2>1 DEF SelInv
  <2> QED
    BY <2>1, <2>2, <2>3 DEF SelInv, NothingMissed, Selecting
<1>3. Include \/ (selected' = selected /\ inputs' = inputs /\ wanted' = wanted)
  BY DEF Next, StartRound, Skip, EndRound, AddGlobals, AddGenerated, Resolve, Vectors, vars
<1> QED
  BY <1>1, <1>2, <1>3

THEOREM Invariant == Spec => []IInv
<1>1. Init => IInv
  BY TypeInit, SelInit DEF IInv
<1>2. IInv /\ [Next]_vars => IInv'
  BY TypeStep, SelStep DEF IInv
<1> QED
  BY <1>1, <1>2, PTL DEF Spec

\* The selection of select_needed_objects misses nothing, although a round works
\* on a list of symbols that is out of date once something was included.
THEOREM SelectionComplete == Spec => []NothingMissed
<1>1. IInv => NothingMissed
  BY DEF IInv, SelInv
<1> QED
  BY <1>1, Invariant, PTL

\* Every object is included once, for a symbol that an earlier one needs and
\* that no earlier one has.
THEOREM SelectionJustified == Spec => []EachForAReason
<1>1. IInv => EachForAReason
  BY DEF IInv, SelInv
<1> QED
  BY <1>1, Invariant, PTL

\* The selection implements SymbolClosure.
THEOREM SelectionRefines == Spec => SelectsClosure
<1>1. Init => Closure!Init
  BY DEF Init, Closure!Init, Sel, Elements, Selecting
<1>2. IInv /\ [Next]_vars => [Closure!Next]_<<inputs, Sel, ~Selecting>>
  <2> SUFFICES ASSUME TypeOK, SelInv, [Next]_vars
               PROVE  [Closure!Next]_<<inputs, Sel, ~Selecting>>
    BY DEF IInv
  <2>1. CASE Include
    <3>1. PICK i \in DOMAIN inputs \ Sel :
            /\ Sel' = Sel \cup {i}
            /\ needed[at] \in Elements(needed) /\ ~Offered(needed[at])
            /\ ExportedBy(i, needed[at])
            /\ needed[at] \notin inputs[i].strong =>
                 \A j \in DOMAIN inputs \ Sel : needed[at] \notin inputs[j].strong
            /\ inputs' = inputs /\ phase = "scan" /\ phase' = "scan"
      BY <2>1, IncludeFacts
    <3>2. needed[at] \in Needed
      BY <3>1 DEF SelInv
    <3>3. needed[at] \in Closure!Missing(Sel)
      BY <3>1, <3>2 DEF Closure!Missing, Closure!NeededBy, Closure!Exported, Needed, Offered,
           Closure!Elements, Elements, Closure!Roots, Roots
    <3>4. Closure!Provides(i, needed[at])
      BY <3>1 DEF Closure!Provides, ExportedBy, Offered
    <3> QED
      BY <3>1, <3>3, <3>4 DEF Closure!Next, Closure!Pull, Selecting
  <2>2. CASE EndRound /\ progress = FALSE
    <3>1. /\ phase = "scan" /\ phase' = "globals" /\ inputs' = inputs /\ Sel' = Sel
      BY <2>2 DEF EndRound, Sel
    <3>2. NothingMissed'
      <4>1. SelInv'
        BY SelStep
      <4> QED
        BY <4>1 DEF SelInv
    <3>3. \A n \in Needed : Offered(n) \/ \A i \in DOMAIN inputs : ~ExportedBy(i, n)
      BY <3>1, <3>2 DEF NothingMissed, Selecting, Needed, Offered, ExportedBy
    <3>4. \A n \in Closure!Missing(Sel), i \in DOMAIN inputs : n \notin Closure!Exported(i)
      BY <3>3 DEF Closure!Missing, Closure!NeededBy, Closure!Exported, Needed, Offered,
           Closure!Elements, Elements, Closure!Roots, Roots, ExportedBy
    <3> QED
      BY <3>1, <3>4 DEF Closure!Next, Closure!Finish, Selecting
  <2>3. CASE ~Include /\ ~(EndRound /\ progress = FALSE)
    <3>1. inputs' = inputs /\ Sel' = Sel
      BY <2>3 DEF Next, StartRound, Skip, EndRound, AddGlobals, AddGenerated, Resolve,
           Vectors, vars, Sel
    <3>2. Selecting' = Selecting
      BY <2>3 DEF Next, StartRound, Skip, EndRound, AddGlobals, AddGenerated, Resolve,
           Vectors, vars, Selecting, TypeOK
    <3> QED
      BY <3>1, <3>2
  <2> QED
    BY <2>1, <2>2, <2>3
<1> QED
  BY <1>1, <1>2, Invariant, PTL DEF Spec, SelectsClosure, Closure!Spec

-----------------------------------------------------------------------------
(***************************************************************************)
(* The binding of the imports.  The table of globals never holds a name    *)
(* twice, for a name that is there ends the link; what has been entered    *)
(* and what has been resolved grows with the object that is looked at.     *)
(***************************************************************************)
Unique == \A g, h \in globals : g[1] = h[1] => g = h
EnteredBefore(last) ==
  \A k \in DOMAIN selected : k < last => Names(selected[k]) \subseteq GlobalNames
AllEntered == \A i \in Sel : Names(i) \subseteq GlobalNames
ResolvedBefore(last) ==
  \A k \in DOMAIN selected : k < last => \A n \in Elements(inputs[selected[k]].undefs) : Found(n)
BindInv ==
  /\ Unique
  /\ phase = "globals" => EnteredBefore(at)
  /\ phase \in {"resolve", "linked"} => AllEntered
  /\ phase = "resolve" => ResolvedBefore(at)
  /\ phase = "linked" => \A n \in Needed : Found(n)

\* Entering names that are not there yet, each for one owner, keeps the names apart.
LEMMA EnterNames ==
  ASSUME NEW names, NEW i, Unique, names \cap GlobalNames = {},
         globals' = globals \cup (names \X {i})
  PROVE  Unique' /\ GlobalNames' = GlobalNames \cup names
<1>1. \A g \in names \X {i} : g[1] \in names /\ g[1] \notin GlobalNames /\ g = <<g[1], i>>
  OBVIOUS
<1>2. \A g \in globals : g[1] \in GlobalNames
  BY DEF GlobalNames
<1>3. ASSUME NEW g \in globals', NEW h \in globals', g[1] = h[1]
      PROVE  g = h
  <2>1. CASE g \in globals /\ h \in globals
    BY <1>3, <2>1 DEF Unique
  <2>2. CASE g \in names \X {i} /\ h \in names \X {i}
    BY <1>1, <1>3, <2>2
  <2>3. ~(g \in globals /\ h \in names \X {i}) /\ ~(h \in globals /\ g \in names \X {i})
    BY <1>1, <1>2, <1>3
  <2> QED
    BY <2>1, <2>2, <2>3
<1>4. \A x \in names : <<x, i>>[1] = x /\ <<x, i>> \in globals'
  OBVIOUS
<1>5. GlobalNames' = GlobalNames \cup names
  BY <1>1, <1>4, ZenonT(60) DEF GlobalNames
<1> QED
  BY <1>3, <1>5 DEF Unique

LEMMA BindInit == Init => BindInv
BY DEF Init, BindInv, Unique

LEMMA BindStep == TypeOK /\ BindInv /\ [Next]_vars => BindInv'
<1> SUFFICES ASSUME TypeOK, BindInv, [Next]_vars
             PROVE  BindInv'
  OBVIOUS
<1>1. CASE StartRound \/ Skip \/ Include
  <2>1. phase' \notin {"globals", "resolve", "linked"} /\ globals' = globals
    BY <1>1 DEF StartRound, Skip, Include
  <2> QED
    BY <2>1 DEF BindInv, Unique
<1>2. CASE EndRound
  <2>1. phase' \notin {"resolve", "linked"} /\ globals' = globals /\ at' = 1
    BY <1>2 DEF EndRound
  <2>2. DOMAIN selected' \subseteq Nat \ {0}
    BY <1>2, LenProperties DEF EndRound, TypeOK
  <2>3. EnteredBefore(at)'
    BY <2>1, <2>2 DEF EnteredBefore
  <2> QED
    BY <2>1, <2>3 DEF BindInv, Unique
<1>3. CASE AddGlobals
  <2>0. phase = "globals" /\ selected' = selected /\ inputs' = inputs /\ EnteredBefore(at)
    BY <1>3 DEF AddGlobals, BindInv
  <2>1. CASE Names(selected[at]) \cap GlobalNames = {}
    <3>1. /\ globals' = globals \cup (Names(selected[at]) \X {selected[at]})
          /\ at' = at + 1 /\ at \in Nat /\ phase' = "globals"
      BY <1>3, <2>1 DEF AddGlobals, TypeOK
    <3>2. Unique' /\ GlobalNames' = GlobalNames \cup Names(selected[at])
      BY <2>1, <3>1, EnterNames DEF BindInv
    <3>3. \A k \in DOMAIN selected : k < at' => k < at \/ k = at
      BY <3>1, LenProperties DEF TypeOK
    <3>4. \A i : Names(i)' = Names(i)
      BY <2>0 DEF Names
    <3>5. EnteredBefore(at)'
      BY <2>0, <3>2, <3>3, <3>4 DEF EnteredBefore
    <3> QED
      BY <3>1, <3>2, <3>5 DEF BindInv
  <2>2. CASE Names(selected[at]) \cap GlobalNames # {}
    <3>1. phase' = "duplicate" /\ globals' = globals
      BY <1>3, <2>2 DEF AddGlobals
    <3> QED
      BY <3>1 DEF BindInv, Unique
  <2> QED
    BY <2>1, <2>2
<1>4. CASE AddGenerated
  <2> DEFINE names == {"strong"} \X Generated
  <2>0. phase = "globals" /\ selected' = selected /\ inputs' = inputs /\ EnteredBefore(at)
        /\ at > Len(selected) /\ at' = 1
    BY <1>4 DEF AddGenerated, BindInv
  <2>1. CASE names \cap GlobalNames = {}
    <3>1. globals' = globals \cup (names \X {0}) /\ phase' = "resolve"
      BY <1>4, <2>1 DEF AddGenerated
    <3>2. Unique' /\ GlobalNames' = GlobalNames \cup names
      <4> HIDE DEF names
      <4> QED
        BY <2>1, <3>1, EnterNames DEF BindInv
    <3>3. \A k \in DOMAIN selected : k < at /\ ~(k < 1)
      BY <2>0, LenProperties DEF TypeOK
    <3>4. AllEntered'
      BY <2>0, <3>2, <3>3 DEF AllEntered, EnteredBefore, Sel, Elements, Names
    <3>5. ResolvedBefore(at)'
      BY <2>0, <3>3 DEF ResolvedBefore
    <3> QED
      BY <3>1, <3>2, <3>4, <3>5 DEF BindInv
  <2>2. CASE names \cap GlobalNames # {}
    <3>1. phase' = "duplicate" /\ globals' = globals
      BY <1>4, <2>2 DEF AddGenerated
    <3> QED
      BY <3>1 DEF BindInv, Unique
  <2> QED
    BY <2>1, <2>2
<1>5. CASE Resolve
  <2>0. /\ phase = "resolve" /\ selected' = selected /\ inputs' = inputs /\ globals' = globals
        /\ ResolvedBefore(at) /\ AllEntered /\ Unique
    BY <1>5 DEF Resolve, BindInv
  <2>1. Unique' /\ AllEntered' /\ \A n : Found(n)' <=> Found(n)
    BY <2>0 DEF Unique, AllEntered, GlobalNames, Found, Sel, Names
  <2>2. CASE \A n \in Elements(inputs[selected[at]].undefs) : Found(n)
    <3>1. at' = at + 1 /\ phase' = "resolve" /\ at \in Nat
      BY <1>5, <2>2 DEF Resolve, TypeOK
    <3>2. \A k \in DOMAIN selected : k < at' => k < at \/ k = at
      BY <3>1, LenProperties DEF TypeOK
    <3>3. ResolvedBefore(at)'
      BY <2>0, <2>1, <2>2, <3>2 DEF ResolvedBefore
    <3> QED
      BY <2>1, <3>1, <3>3 DEF BindInv
  <2>3. CASE ~\A n \in Elements(inputs[selected[at]].undefs) : Found(n)
    <3>1. phase' = "unresolved"
      BY <1>5, <2>3 DEF Resolve
    <3> QED
      BY <2>1, <3>1 DEF BindInv
  <2> QED
    BY <2>2, <2>3
<1>6. CASE Vectors
  <2>0. /\ phase = "resolve" /\ selected' = selected /\ inputs' = inputs /\ globals' = globals
        /\ ResolvedBefore(at) /\ AllEntered /\ Unique /\ at > Len(selected)
        /\ phase' \in {"linked", "unresolved"}
    BY <1>6 DEF Vectors, BindInv
  <2>1. Unique' /\ AllEntered' /\ Needed' = Needed /\ \A n : Found(n)' <=> Found(n)
    BY <2>0 DEF Unique, AllEntered, GlobalNames, Found, Sel, Names, Needed
  <2>2. phase' = "linked" => \A n \in Needed : Found(n)
    <3>1. \A k \in DOMAIN selected : k < at
      BY <2>0, LenProperties DEF TypeOK
    <3>2. \A i \in Sel : \A n \in Elements(inputs[i].undefs) : Found(n)
      BY <2>0, <3>1 DEF ResolvedBefore, Sel, Elements
    <3>3. phase' = "linked" => \A n \in Elements(Roots) : Found(n)
      BY <1>6 DEF Vectors
    <3> QED
      BY <3>2, <3>3 DEF Needed
  <2> QED
    BY <2>0, <2>1, <2>2 DEF BindInv
<1>7. CASE UNCHANGED vars
  <2>1. /\ selected' = selected /\ inputs' = inputs /\ globals' = globals /\ phase' = phase
        /\ at' = at
    BY <1>7 DEF vars
  <2>2. /\ Unique' = Unique /\ AllEntered' = AllEntered /\ Needed' = Needed
        /\ EnteredBefore(at)' = EnteredBefore(at) /\ ResolvedBefore(at)' = ResolvedBefore(at)
        /\ \A n : Found(n)' <=> Found(n)
    BY <2>1 DEF Unique, AllEntered, GlobalNames, Found, Sel, Names, Needed, EnteredBefore,
         ResolvedBefore
  <2> QED
    BY <2>1, <2>2 DEF BindInv
<1> QED
  BY <1>1, <1>2, <1>3, <1>4, <1>5, <1>6, <1>7 DEF Next

\* Where lookup_global_addr finds a name, it finds one global of that name, the
\* strong one when there is one.
LEMMA BindingFound ==
  ASSUME Unique, NEW n, Found(n)
  PROVE  /\ Binding(n) \in globals
         /\ Binding(n)[1] = IF <<"strong", n>> \in GlobalNames THEN <<"strong", n>>
                            ELSE <<"weak", n>>
         /\ {g \in globals : g[1] = Binding(n)[1]} = {Binding(n)}
<1> DEFINE key == IF <<"strong", n>> \in GlobalNames THEN <<"strong", n>> ELSE <<"weak", n>>
<1>1. key \in GlobalNames
  BY DEF Found
<1>2. \E g \in globals : g[1] = key
  BY <1>1 DEF GlobalNames
<1>3. Binding(n) \in globals /\ Binding(n)[1] = key
  BY <1>2 DEF Binding
<1> QED
  BY <1>3 DEF Unique

\* In a finished link every import, and every vector, is bound to exactly one
\* global, a strong one when a linked object has one: the name that two objects
\* export ends the link in add_global, one that nobody exports in the relocation.
THEOREM BindingUnambiguous == Spec => []Bound
<1>1. Init => TypeOK /\ BindInv
  BY TypeInit, BindInit
<1>2. TypeOK /\ BindInv /\ [Next]_vars => TypeOK' /\ BindInv'
  BY TypeStep, BindStep
<1>3. BindInv => Bound
  <2> SUFFICES ASSUME BindInv, phase = "linked", NEW n \in Needed
               PROVE  /\ Cardinality({g \in globals : g[1] = Binding(n)[1]}) = 1
                      /\ Binding(n) \in globals /\ Binding(n)[1][2] = n
                      /\ (\E i \in Sel : n \in inputs[i].strong) => Binding(n)[1][1] = "strong"
    BY DEF Bound
  <2>1. Unique /\ AllEntered /\ Found(n)
    BY DEF BindInv
  <2>2. /\ Binding(n) \in globals
        /\ Binding(n)[1] = IF <<"strong", n>> \in GlobalNames THEN <<"strong", n>>
                           ELSE <<"weak", n>>
        /\ {g \in globals : g[1] = Binding(n)[1]} = {Binding(n)}
    BY <2>1, BindingFound
  <2>3. (\E i \in Sel : n \in inputs[i].strong) => <<"strong", n>> \in GlobalNames
    BY <2>1 DEF AllEntered, Names
  <2>4. Cardinality({Binding(n)}) = 1
    BY FS_Singleton
  <2> QED
    BY <2>2, <2>3, <2>4
<1> QED
  BY <1>1, <1>2, <1>3, PTL DEF Spec
=============================================================================
