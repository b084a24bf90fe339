------------------------------ MODULE DriverProofs ------------------------------
(***************************************************************************)
(* Proofs about the driver of Driver, for every command line and every     *)
(* first size of the array of names: what the tools are given and what a   *)
(* success means.                                                          *)
(***************************************************************************)
EXTENDS Driver, WellFoundedInduction, FunctionTheorems, FiniteSetTheorems, TLAPS

\* A set of numbers has a least one: the induction of the proofs below.
LEMMA FirstIn ==
  ASSUME NEW S, S \subseteq Nat, S # {}
  PROVE  \E i \in S : \A j \in S : i <= j
<1> DEFINE R == {p \in Nat \X Nat : p[1] < p[2]}
<1>1. IsWellFoundedOn(R, Nat)
  BY NatLessThanWellFounded DEF OpToRel
<1>2. \A i, j \in Nat : <<j, i>> \in R <=> j < i
  OBVIOUS
<1> HIDE DEF R
<1>3. \E i \in S : \A j \in S : ~(<<j, i>> \in R)
  BY <1>1, WFMin
<1>4. \A i, j \in S : ~(<<j, i>> \in R) => i <= j
  BY <1>2
<1> QED BY <1>3, <1>4

-----------------------------------------------------------------------------
\* Powers of two, which the array of names is as long as: the library has them as
\* the number of subsets.

LEMMA Power ==
  ASSUME NEW k \in Nat
  PROVE  2 ^ k \in Nat /\ 2 ^ k = Cardinality(SUBSET (1 .. k)) /\ IsFiniteSet(SUBSET (1 .. k))
<1>1. IsFiniteSet(1 .. k) /\ Cardinality(1 .. k) = k
  BY FS_Interval
<1>2. IsFiniteSet(SUBSET (1 .. k)) /\ Cardinality(SUBSET (1 .. k)) = 2 ^ k
  BY <1>1, FS_SUBSET
<1> QED BY <1>2, FS_CardinalityType

LEMMA PowerNext ==
  ASSUME NEW k \in Nat
  PROVE  2 ^ (k + 1) = 2 * 2 ^ k
<1> DEFINE Old == SUBSET (1 .. k)
           New == {s \cup {k + 1} : s \in Old}
           f == [s \in Old |-> s \cup {k + 1}]
<1>1. SUBSET (1 .. k + 1) = Old \cup New
  <2>1. ASSUME NEW s \in SUBSET (1 .. k + 1)  PROVE s \in Old \cup New
    <3>1. CASE k + 1 \notin s
      BY <3>1, <2>1
    <3>2. CASE k + 1 \in s
      <4>1. s \ {k + 1} \in Old
        OBVIOUS
      <4>2. s = (s \ {k + 1}) \cup {k + 1}
        BY <3>2
      <4> QED BY <4>1, <4>2
    <3> QED BY <3>1, <3>2
  <2>2. Old \cup New \subseteq SUBSET (1 .. k + 1)
    <3>1. 1 .. k \subseteq 1 .. k + 1 /\ k + 1 \in 1 .. k + 1
      OBVIOUS
    <3> QED BY <3>1
  <2> QED BY <2>1, <2>2
<1>2. Old \cap New = {}
  OBVIOUS
<1>3. f \in Bijection(Old, New)
  <2>1. f \in [Old -> New]
    OBVIOUS
  <2>2. ASSUME NEW a \in Old, NEW b \in Old, f[a] = f[b]  PROVE a = b
    <3>1. a = (a \cup {k + 1}) \ {k + 1} /\ b = (b \cup {k + 1}) \ {k + 1}
      OBVIOUS
    <3> QED BY <2>2, <3>1
  <2>3. \A t \in New : \E s \in Old : f[s] = t
    OBVIOUS
  <2> QED BY <2>1, <2>2, <2>3, Fun_IsBij
<1>4. IsFiniteSet(Old) /\ Cardinality(Old) = 2 ^ k /\ 2 ^ k \in Nat
  BY Power
<1> HIDE DEF Old, New, f
<1>5. ExistsBijection(Old, New)
  BY <1>3, Fun_ExistsBij
<1>6. IsFiniteSet(New) /\ Cardinality(New) = 2 ^ k
  BY <1>4, <1>5, FS_Bijection
<1>7. Cardinality(Old \cup New) = Cardinality(Old) + Cardinality(New) - Cardinality(Old \cap New)
  BY <1>4, <1>6, FS_Union
<1>8. Cardinality(Old \cap New) = 0
  BY <1>2, FS_EmptySet
<1>9. Cardinality(Old \cup New) = 2 * 2 ^ k
  BY <1>4, <1>6, <1>7, <1>8
<1> QED BY <1>1, <1>9, Power

\* The array does not double more often than there are files.
LEMMA FewDoublings ==
  ASSUME NEW n \in Nat, NEW k \in Nat, 2 ^ k <= 2 * n
  PROVE  k <= n
<1>1. \A i \in Nat : 2 ^ i >= i + 1
  <2> DEFINE Bad == {i \in Nat : ~(2 ^ i >= i + 1)}
  <2> SUFFICES ASSUME Bad # {}  PROVE FALSE
    OBVIOUS
  <2>1. PICK i \in Bad : \A j \in Bad : i <= j
    BY FirstIn
  <2>2. i # 0
    <3>1. 2 ^ 0 = 1
      OBVIOUS
    <3>2. ASSUME i = 0  PROVE FALSE
      <4>1. 2 ^ i = 1
        BY <3>1, <3>2
      <4> HIDE DEF Bad
      <4>2. ~(2 ^ i >= i + 1)
        BY <2>1 DEF Bad
      <4> QED BY <3>2, <4>1, <4>2
    <3> QED BY <3>2
  <2>3. i - 1 \in Nat /\ 2 ^ (i - 1) >= i - 1 + 1
    BY <2>1, <2>2
  <2>4. 2 ^ i = 2 * 2 ^ (i - 1) /\ 2 ^ (i - 1) \in Nat
    <3>1. 2 ^ (i - 1 + 1) = 2 * 2 ^ (i - 1)
      BY <2>3, PowerNext
    <3>2. i - 1 + 1 = i
      BY <2>3
    <3> QED BY <2>3, <3>1, <3>2, Power
  <2> QED BY <2>1, <2>2, <2>3, <2>4
<1>2. CASE k = 0
  BY <1>2
<1>3. CASE k # 0
  <2>1. k - 1 \in Nat /\ k - 1 + 1 = k
    BY <1>3
  <2>2. 2 ^ k = 2 * 2 ^ (k - 1) /\ 2 ^ (k - 1) \in Nat /\ 2 ^ (k - 1) >= k - 1 + 1
    BY <1>1, <2>1, PowerNext, Power
  <2> QED BY <2>1, <2>2
<1> QED BY <1>2, <1>3

\* What the files made so far are, when the next input is done.
LEMMA TempsNext ==
  ASSUME NEW c \in Commands, NEW i \in DOMAIN c.inputs
  PROVE  /\ TempsBefore(c, i) \in Nat /\ TempsBefore(c, 1) = 0
         /\ TempsBefore(c, i) <= 2 * (i - 1)
         /\ TempsBefore(c, i + 1) = TempsBefore(c, i)
              + (IF c.inputs[i] = "n" THEN 2 ELSE IF c.inputs[i] = "asm" THEN 1 ELSE 0)
<1> DEFINE Of(kind, n) == {j \in 1 .. n : c.inputs[j] = kind}
<1>1. i \in Nat /\ i >= 1
  BY CommandsAssumption DEF CommandLines
<1>2. ASSUME NEW kind, NEW n \in Nat
      PROVE  IsFiniteSet(Of(kind, n)) /\ Cardinality(Of(kind, n)) \in Nat
  <2>1. IsFiniteSet(1 .. n)
    BY FS_Interval
  <2> QED BY <2>1, FS_Subset, FS_CardinalityType
<1>3. ASSUME NEW kind
      PROVE  Cardinality(Of(kind, i)) =
               Cardinality(Of(kind, i - 1)) + (IF c.inputs[i] = kind THEN 1 ELSE 0)
  <2>1. CASE c.inputs[i] = kind
    <3>1. Of(kind, i) = Of(kind, i - 1) \cup {i} /\ i \notin Of(kind, i - 1)
      BY <1>1, <2>1
    <3>2. IsFiniteSet(Of(kind, i - 1)) /\ Cardinality(Of(kind, i - 1)) \in Nat
      <4>1. i - 1 \in Nat
        BY <1>1
      <4> HIDE DEF Of
      <4> QED BY <1>2, <4>1
    <3> HIDE DEF Of
    <3>3. Cardinality(Of(kind, i - 1) \cup {i}) = Cardinality(Of(kind, i - 1)) + 1
      BY <3>1, <3>2, FS_AddElement
    <3> QED BY <2>1, <3>1, <3>3
  <2>2. CASE c.inputs[i] # kind
    <3>1. Of(kind, i) = Of(kind, i - 1)
      BY <1>1, <2>2
    <3> HIDE DEF Of
    <3>2. i - 1 \in Nat
      BY <1>1
    <3>3. Cardinality(Of(kind, i - 1)) \in Nat
      BY <1>2, <3>2
    <3> QED BY <2>2, <3>1, <3>3
  <2> QED BY <2>1, <2>2
<1>4. Cardinality(Of("n", 0)) = 0 /\ Cardinality(Of("asm", 0)) = 0
  <2>1. Of("n", 0) = {} /\ Of("asm", 0) = {}
    OBVIOUS
  <2> QED BY <2>1, FS_EmptySet
<1>5. Cardinality(Of("n", i - 1)) + Cardinality(Of("asm", i - 1)) <= i - 1
  <2>1. Of("n", i - 1) \cap Of("asm", i - 1) = {}
    OBVIOUS
  <2>2. Of("n", i - 1) \cup Of("asm", i - 1) \subseteq 1 .. i - 1
    OBVIOUS
  <2> i - 1 \in Nat
    BY <1>1
  <2>3. IsFiniteSet(1 .. i - 1) /\ Cardinality(1 .. i - 1) = i - 1
    <3> DEFINE m == i - 1
    <3>1. m \in Nat
      OBVIOUS
    <3> HIDE DEF m
    <3>2. IsFiniteSet(1 .. m) /\ Cardinality(1 .. m) = IF 1 > m THEN 0 ELSE m - 1 + 1
      BY <3>1, FS_Interval
    <3>3. IsFiniteSet(1 .. m) /\ Cardinality(1 .. m) = m
      BY <3>1, <3>2
    <3> QED BY <3>3 DEF m
  <2>4. /\ IsFiniteSet(Of("n", i - 1)) /\ Cardinality(Of("n", i - 1)) \in Nat
        /\ IsFiniteSet(Of("asm", i - 1)) /\ Cardinality(Of("asm", i - 1)) \in Nat
    <3> HIDE DEF Of
    <3> QED BY <1>2
  <2> HIDE DEF Of
  <2>5. Cardinality(Of("n", i - 1) \cup Of("asm", i - 1)) <= i - 1
    BY <2>2, <2>3, FS_Subset
  <2>6. Cardinality(Of("n", i - 1) \cup Of("asm", i - 1)) =
          Cardinality(Of("n", i - 1)) + Cardinality(Of("asm", i - 1))
          - Cardinality(Of("n", i - 1) \cap Of("asm", i - 1))
    BY <2>4, FS_Union
  <2>7. Cardinality(Of("n", i - 1) \cap Of("asm", i - 1)) = 0
    BY <2>1, FS_EmptySet
  <2> QED BY <2>4, <2>5, <2>6, <2>7
<1>6. ASSUME NEW k, NEW n, k - 1 = n
      PROVE  TempsBefore(c, k) = 2 * Cardinality(Of("n", n)) + Cardinality(Of("asm", n))
  BY <1>6 DEF TempsBefore
<1>7. 1 - 1 = 0 /\ (i + 1) - 1 = i
  BY <1>1
<1>8. i - 1 \in Nat
  BY <1>1
<1> HIDE DEF Of
<1>9. /\ TempsBefore(c, 1) = 2 * Cardinality(Of("n", 0)) + Cardinality(Of("asm", 0))
      /\ TempsBefore(c, i) = 2 * Cardinality(Of("n", i - 1)) + Cardinality(Of("asm", i - 1))
      /\ TempsBefore(c, i + 1) = 2 * Cardinality(Of("n", i)) + Cardinality(Of("asm", i))
  <2>1. TempsBefore(c, 1) = 2 * Cardinality(Of("n", 0)) + Cardinality(Of("asm", 0))
    BY <1>6, <1>7
  <2>2. TempsBefore(c, i + 1) = 2 * Cardinality(Of("n", i)) + Cardinality(Of("asm", i))
    BY <1>6, <1>7
  <2> QED BY <1>6, <2>1, <2>2
<1> QED BY <1>1, <1>2, <1>3, <1>4, <1>5, <1>8, <1>9

-----------------------------------------------------------------------------
\* The invariant.  What a step of the loop may count on is said of a driver that has
\* not failed; what the tools were given is said for ever.

Alive == status \in {"none", "0"}
HasTemp(i) == cmd.inputs[i] \in {"n", "asm"}

\* Where the driver is, and what it has passed.
PlaceInv ==
  /\ pc \in {"object", "cc", "as"} => at <= Len(cmd.inputs)
  /\ pc \in {"object", "cc"} => Kind = "n"
  /\ pc \in {"object", "ld"} => cmd.mode = "link"
  /\ pc = "as" => cmd.mode # "-S" /\ HasTemp(at)
  /\ pc \in {"ld", "cleanup"} => at = Len(cmd.inputs) + 1
  /\ status = "0" => pc = "cleanup"
  /\ \A i \in 1 .. at - 1 : /\ cmd.mode = "-S" => cmd.inputs[i] = "n"
                            /\ cmd.mode = "-c" => HasTemp(i)

\* A pointer that the array has not left says the file it was made for.
Held(p, f) ==
  /\ p \in Nat \X (Nat \ {0}) /\ p[1] <= block
  /\ p[1] = block => p[2] \in DOMAIN items /\ items[p[2]] = f
NeedsAsm == cmd.mode # "-S" /\ (pc = "object" \/ (pc \in {"cc", "as"} /\ Kind = "n"))
NeedsObj == cmd.mode = "link" /\ pc \in {"cc", "as"}
PointerInv == /\ NeedsAsm => Held(asm, File("temp.s", at))
              /\ NeedsObj => Held(obj, File("temp.o65", at))

\* How full the array is.
MadeHere == IF pc = "object" THEN 1
            ELSE IF pc \in {"cc", "as"} THEN (IF Kind = "n" THEN 2 ELSE 1) ELSE 0
CountInv == cmd.mode = "link" => Len(items) = TempsBefore(cmd, at) + MadeHere
CapInv == \/ cap = 0 /\ items = <<>>
          \/ \E k \in Nat : cap = FirstCap * 2 ^ k

\* When the array does not grow between the two files of an input, no pointer that is
\* still needed dangles.
FreshInv == /\ NeedsAsm => asm[1] = block
            /\ NeedsObj => obj[1] = block

\* What the linker gets for an input, and the runs of the tools.
Linked(i) == File(IF HasTemp(i) THEN "temp.o65" ELSE "input", i)
Cc(i) == Tool("n65cc", <<File("input", i)>>,
              File(IF cmd.mode = "-S" THEN "named.s" ELSE "temp.s", i))
As(i) == Tool("n65asm", <<File(IF cmd.inputs[i] = "n" THEN "temp.s" ELSE "input", i)>>,
              File(IF cmd.mode = "-c" THEN "named.o65" ELSE "temp.o65", i))
Ld == Tool("n65ld", links \o Libraries, File("hex", 0))

LinksInv == cmd.mode = "link" => links = [i \in 1 .. at - 1 |-> Linked(i)]

RanInv ==
  /\ \A k \in DOMAIN ran :
       \/ \E i \in DOMAIN cmd.inputs : ran[k] = Cc(i)
       \/ cmd.mode # "-S" /\ \E i \in DOMAIN cmd.inputs : ran[k] = As(i)
       \/ cmd.mode = "link" /\ at = Len(cmd.inputs) + 1 /\ ran[k] = Ld
  /\ \A j, k \in DOMAIN ran : ran[j].to = ran[k].to => j = k
  /\ \A k \in DOMAIN ran, i \in DOMAIN cmd.inputs :
       ran[k] = As(i) /\ cmd.inputs[i] = "n" => \E j \in 1 .. k - 1 : ran[j] = Cc(i)
  /\ \A k \in DOMAIN ran, i \in DOMAIN cmd.inputs :
       ran[k].tool = "n65ld" /\ HasTemp(i) => \E j \in 1 .. k - 1 : ran[j] = As(i)

Compiled(i) == i < at \/ (i = at /\ pc = "as")
DoneInv ==
  /\ \A k \in DOMAIN ran, i \in DOMAIN cmd.inputs : ran[k] = Cc(i) => Compiled(i)
  /\ \A k \in DOMAIN ran, i \in DOMAIN cmd.inputs : ran[k] = As(i) => i < at
  /\ \A k \in DOMAIN ran : ran[k].tool = "n65ld" => pc = "cleanup"
  /\ ~cmd.dry =>
       /\ \A i \in DOMAIN cmd.inputs :
            cmd.inputs[i] = "n" /\ Compiled(i) => \E k \in DOMAIN ran : ran[k] = Cc(i)
       /\ cmd.mode # "-S" =>
            \A i \in DOMAIN cmd.inputs :
              HasTemp(i) /\ i < at => \E k \in DOMAIN ran : ran[k] = As(i)
       /\ cmd.mode = "link" /\ pc = "cleanup" => ran # <<>> /\ ran[Len(ran)] = Ld

ArrayInv == TypeOK /\ CapInv /\ (Alive => PlaceInv /\ PointerInv /\ CountInv)
FlowInv == ~GrowsBetween(cmd) => RanInv /\ LinksInv /\ (Alive => FreshInv /\ DoneInv)

-----------------------------------------------------------------------------
\* The array and the pointers into it, whether it grows between two files or not.

LEMMA CommandType ==
  ASSUME cmd \in Commands
  PROVE  /\ cmd.inputs \in Seq(Kinds) /\ Len(cmd.inputs) \in Nat \ {0}
         /\ DOMAIN cmd.inputs = 1 .. Len(cmd.inputs)
         /\ cmd.mode \in {"link", "-c", "-S"} /\ cmd.dry \in BOOLEAN /\ cmd.nostdlib \in BOOLEAN
         /\ cmd.libs \in Seq({"found", "missing"})
<1>1. cmd \in CommandLines /\ cmd.inputs # <<>>
  BY CommandsAssumption
<1> QED BY <1>1 DEF CommandLines

LEMMA FileType ==
  ASSUME NEW kind \in {"input", "temp.s", "temp.o65", "named.s", "named.o65", "lib", "nlib", "hex"},
         NEW i \in Nat
  PROVE  File(kind, i) \in Names /\ File(kind, i) # Unknown /\ File(kind, i) \in Files
<1>1. File(kind, i) \in Names
  BY DEF File, Names
<1> QED BY <1>1, UnknownAssumption DEF Files

\* A pointer says its file, as long as the array has not left it.
LEMMA ReadHeld ==
  ASSUME NEW p, NEW f, Held(p, f)
  PROVE  Read(p) \in {f, Unknown} /\ (p[1] = block => Read(p) = f)
BY DEF Held, Read

LEMMA LibrariesType ==
  ASSUME cmd \in Commands
  PROVE  /\ Libraries \in Seq(Names) /\ Len(Libraries) \in Nat
         /\ \A k \in DOMAIN Libraries : Libraries[k].kind \in {"lib", "nlib"}
<1> DEFINE a == [k \in DOMAIN cmd.libs |-> File("lib", k)]
           b == IF cmd.nostdlib THEN <<>> ELSE <<File("nlib", 0)>>
<1>1. /\ cmd.libs \in Seq({"found", "missing"}) /\ DOMAIN cmd.libs = 1 .. Len(cmd.libs)
      /\ Len(cmd.libs) \in Nat
  BY CommandType
<1>2. \A k \in DOMAIN cmd.libs : File("lib", k) \in Names
  BY <1>1, FileType
<1>3. a \in Seq(Names) /\ Len(a) = Len(cmd.libs)
  BY <1>1, <1>2
<1>4. File("nlib", 0) \in Names
  BY FileType
<1>5. b \in Seq(Names) /\ \A k \in DOMAIN b : b[k] = File("nlib", 0)
  BY <1>4
<1>6. \A k \in DOMAIN a : a[k] = File("lib", k)
  OBVIOUS
<1>7. Libraries = a \o b
  BY DEF Libraries
<1> HIDE DEF a, b
<1>8. /\ a \o b \in Seq(Names) /\ Len(a \o b) = Len(a) + Len(b)
      /\ DOMAIN (a \o b) = 1 .. Len(a \o b)
      /\ \A k \in 1 .. Len(a) + Len(b) : (a \o b)[k] = IF k <= Len(a) THEN a[k] ELSE b[k - Len(a)]
  BY <1>3, <1>5
<1>9. ASSUME NEW k \in DOMAIN (a \o b)  PROVE (a \o b)[k].kind \in {"lib", "nlib"}
  <2>1. CASE k <= Len(a)
    <3>1. k \in DOMAIN a
      BY <1>3, <1>5, <1>8, <2>1
    <3> QED BY <1>3, <1>5, <1>6, <1>8, <2>1, <3>1 DEF File
  <2>2. CASE ~(k <= Len(a))
    <3>1. k - Len(a) \in DOMAIN b
      BY <1>3, <1>5, <1>8, <2>2
    <3> QED BY <1>3, <1>5, <1>8, <2>2, <3>1 DEF File
  <2> QED BY <2>1, <2>2
<1> QED BY <1>3, <1>5, <1>7, <1>8, <1>9

LEMMA ArrayInit == Init => ArrayInv
<1> SUFFICES ASSUME Init  PROVE ArrayInv
  OBVIOUS
<1>1. cmd \in Commands
  BY DEF Init
<1>2. TempsBefore(cmd, 1) = 0
  BY <1>1, CommandType, TempsNext
<1>3. TypeOK
  BY <1>1, CommandType DEF Init, TypeOK, Pointers
<1>4. PlaceInv /\ PointerInv /\ CountInv /\ CapInv
  BY <1>1, <1>2, CommandType
     DEF Init, PlaceInv, PointerInv, CountInv, CapInv, NeedsAsm, NeedsObj, MadeHere
<1> QED BY <1>3, <1>4 DEF ArrayInv

\* What a temporary file that is made does to the array.
LEMMA Making ==
  ASSUME TypeOK, CapInv, NEW f \in Names, MakeFile(f)
  PROVE  /\ items' \in Seq(Files) /\ Len(items') = Len(items) + 1
         /\ DOMAIN items' = 1 .. Len(items')
         /\ items'[Len(items')] = f /\ Len(items') \in Nat \ {0}
         /\ \A k \in 1 .. Len(items) : items'[k] = items[k]
         /\ cap' \in Nat /\ Len(items') <= cap' /\ block' \in Nat /\ block' \in {block, block + 1}
         /\ Len(items) < cap => block' = block
         /\ disk' \subseteq Files
         /\ CapInv'
<1>1. /\ items \in Seq(Files) /\ cap \in Nat /\ Len(items) <= cap /\ block \in Nat /\ f \in Files
      /\ Len(items) \in Nat /\ disk \subseteq Files /\ FirstCap \in Nat \ {0}
  BY FirstCapAssumption DEF TypeOK, Files
<1>2. /\ items' = Append(items, f) /\ disk' = disk \cup {f} /\ cap' = Grown
      /\ block' \in IF Grown = cap THEN {block} ELSE {block, block + 1}
  BY DEF MakeFile
<1>3. /\ Len(items) < cap => cap' = cap
      /\ Len(items) = cap /\ cap = 0 => cap' = FirstCap
      /\ Len(items) = cap /\ cap # 0 => cap' = 2 * cap
  BY <1>1, <1>2 DEF Grown
<1>4. cap' \in Nat /\ Len(items) + 1 <= cap'
  BY <1>1, <1>3
<1>5. CapInv'
  <2>1. CASE Len(items) < cap
    <3>1. cap' = cap /\ cap # 0
      BY <1>1, <1>3, <2>1
    <3> QED BY <3>1 DEF CapInv
  <2>2. CASE Len(items) = cap /\ cap = 0
    <3>1. 2 ^ 0 = 1
      OBVIOUS
    <3>2. FirstCap * 1 = FirstCap
      BY <1>1
    <3>3. cap' = FirstCap * 2 ^ 0 /\ 0 \in Nat
      BY <1>3, <2>2, <3>1, <3>2
    <3> QED BY <3>3 DEF CapInv
  <2>3. CASE Len(items) = cap /\ cap # 0
    <3>1. PICK k \in Nat : cap = FirstCap * 2 ^ k
      BY <2>3 DEF CapInv
    <3>2. 2 ^ (k + 1) = 2 * 2 ^ k /\ 2 ^ k \in Nat
      BY PowerNext, Power
    <3>3. FirstCap * (2 * 2 ^ k) = 2 * (FirstCap * 2 ^ k)
      BY <1>1, <3>2
    <3>4. cap' = FirstCap * 2 ^ (k + 1) /\ k + 1 \in Nat
      BY <1>3, <2>3, <3>1, <3>2, <3>3
    <3> QED BY <3>4 DEF CapInv
  <2> QED BY <1>1, <2>1, <2>2, <2>3
<1>6. /\ items' \in Seq(Files) /\ Len(items') = Len(items) + 1 /\ DOMAIN items' = 1 .. Len(items')
      /\ items'[Len(items')] = f
      /\ \A k \in 1 .. Len(items) : items'[k] = items[k]
  BY <1>1, <1>2
<1>7. block' \in Nat /\ block' \in {block, block + 1} /\ (Len(items) < cap => block' = block)
  BY <1>1, <1>2, <1>3
<1> QED BY <1>1, <1>2, <1>4, <1>5, <1>6, <1>7

LEMMA PlaceStep ==
  ASSUME TypeOK, PlaceInv, Next
  PROVE  Running /\ cmd' = cmd /\ (Alive' => PlaceInv')
<1>1. /\ cmd \in Commands /\ at \in 1 .. Len(cmd.inputs) + 1 /\ Len(cmd.inputs) \in Nat \ {0}
      /\ cmd.mode \in {"link", "-c", "-S"} /\ DOMAIN cmd.inputs = 1 .. Len(cmd.inputs)
      /\ \A i \in 1 .. Len(cmd.inputs) : cmd.inputs[i] \in Kinds
  BY CommandType DEF TypeOK
<1>0. Running /\ cmd' = cmd
  BY DEF Next, Refuse, MakeAsm, MakeObject, Direct, Pass, Compile, Assemble, EndInputs, Link,
         Cleanup, Ends, Exit
<1> SUFFICES ASSUME Alive'  PROVE PlaceInv'
  BY <1>0
<1> USE DEF PlaceInv, HasTemp, Kind, Running, Alive
<1>2. CASE Refuse
  BY <1>2 DEF Refuse, Exit
<1>3. CASE MakeAsm
  BY <1>1, <1>3 DEF MakeAsm
<1>4. CASE MakeObject
  BY <1>1, <1>4 DEF MakeObject
<1>5. CASE Direct
  BY <1>1, <1>5 DEF Direct
<1>6. CASE Pass
  BY <1>1, <1>6 DEF Pass, NextInput
<1>7. CASE Compile
  <2>1. CASE Exit("tool")
    BY <2>1 DEF Exit
  <2>2. CASE /\ IF cmd.mode = "-S" THEN NextInput ELSE pc' = "as" /\ UNCHANGED at
             /\ status' = status /\ cmd' = cmd /\ pc = "cc"
    BY <1>1, <2>2 DEF NextInput
  <2> QED BY <1>7, <2>1, <2>2 DEF Compile, Ends
<1>8. CASE Assemble
  <2>1. CASE Exit("tool")
    BY <2>1 DEF Exit
  <2>2. CASE NextInput /\ status' = status /\ cmd' = cmd /\ pc = "as"
    BY <1>1, <2>2 DEF NextInput
  <2> QED BY <1>8, <2>1, <2>2 DEF Assemble, Ends
<1>9. CASE EndInputs
  BY <1>1, <1>9 DEF EndInputs
<1>10. CASE Link
  BY <1>1, <1>10 DEF Link, Ends, Exit
<1>11. CASE Cleanup
  BY <1>1, <1>11 DEF Cleanup
<1> QED BY <1>2, <1>3, <1>4, <1>5, <1>6, <1>7, <1>8, <1>9, <1>10, <1>11 DEF Next


\* Pointers keep their files when another file is made, and so does a new one.
LEMMA HeldKept ==
  ASSUME TypeOK, CapInv, NEW f \in Names, MakeFile(f)
  PROVE  /\ \A p, g : Held(p, g) =>
              /\ p[1] <= block'
              /\ p[1] = block' => p[1] = block /\ p[2] \in DOMAIN items' /\ items'[p[2]] = g
         /\ <<block', Len(items')>> \in Nat \X (Nat \ {0})
         /\ Len(items') \in DOMAIN items' /\ items'[Len(items')] = f
<1>1. /\ items \in Seq(Files) /\ block \in Nat
      /\ DOMAIN items = 1 .. Len(items) /\ Len(items) \in Nat
  BY DEF TypeOK
<1>2. /\ Len(items') = Len(items) + 1 /\ DOMAIN items' = 1 .. Len(items')
      /\ items'[Len(items')] = f /\ Len(items') \in Nat \ {0}
      /\ \A k \in 1 .. Len(items) : items'[k] = items[k]
      /\ block' \in Nat /\ block' \in {block, block + 1}
  BY Making
<1>3. ASSUME NEW p, NEW g, Held(p, g)
      PROVE  /\ p[1] <= block'
             /\ p[1] = block' => p[1] = block /\ p[2] \in DOMAIN items' /\ items'[p[2]] = g
  <2>1. /\ p[1] \in Nat /\ p[2] \in Nat \ {0} /\ p[1] <= block
        /\ p[1] = block => p[2] \in DOMAIN items /\ items[p[2]] = g
    BY <1>3 DEF Held
  <2>2. p[1] <= block' /\ (p[1] = block' => p[1] = block)
    BY <1>1, <1>2, <2>1
  <2> QED BY <1>1, <1>2, <2>1, <2>2
<1> QED BY <1>1, <1>2, <1>3

LEMMA PointerStep ==
  ASSUME TypeOK, CapInv, PlaceInv, PointerInv, Next
  PROVE  Alive' => PointerInv'
<1>0. /\ cmd \in Commands /\ at \in Nat /\ Running /\ cmd' = cmd
  BY PlaceStep, CommandType DEF TypeOK
<1>1. CASE Refuse
  BY <1>1 DEF Refuse, Exit, Alive
<1>2. CASE MakeAsm
  <2>1. /\ File("temp.s", at) \in Names /\ MakeFile(File("temp.s", at))
        /\ asm' = <<block', Len(items')>> /\ at' = at /\ Kind = "n"
        /\ pc' = IF cmd.mode = "-c" THEN "cc" ELSE "object"
    BY <1>0, <1>2, FileType DEF MakeAsm
  <2>2. Held(asm, File("temp.s", at))'
    BY <1>0, <2>1, HeldKept, Making DEF Held, TypeOK
  <2>3. ~NeedsObj'
    BY <1>0, <2>1 DEF NeedsObj
  <2> QED BY <2>2, <2>3 DEF PointerInv
<1>3. CASE MakeObject
  <2>1. /\ File("temp.o65", at) \in Names /\ MakeFile(File("temp.o65", at))
        /\ obj' = <<block', Len(items')>> /\ at' = at /\ asm' = asm
        /\ pc' = IF Kind = "n" THEN "cc" ELSE "as"
        /\ pc = "object" \/ Kind = "asm"
        /\ cmd.mode = "link"
    BY <1>0, <1>3, FileType DEF MakeObject
  <2>2. Held(obj, File("temp.o65", at))'
    BY <1>0, <2>1, HeldKept, Making DEF Held, TypeOK
  <2>3. ASSUME NeedsAsm'  PROVE Held(asm, File("temp.s", at))'
    <3>1. Kind' = Kind
      BY <1>0, <2>1 DEF Kind
    <3>2. Kind = "n" /\ pc = "object"
      BY <2>1, <2>3, <3>1 DEF NeedsAsm
    <3>3. Held(asm, File("temp.s", at))
      BY <2>1, <3>2 DEF PointerInv, NeedsAsm
    <3>4. /\ asm \in Nat \X (Nat \ {0}) /\ asm[1] <= block'
          /\ asm[1] = block' => asm[2] \in DOMAIN items' /\ items'[asm[2]] = File("temp.s", at)
      BY <2>1, <3>3, HeldKept DEF Held
    <3> QED BY <2>1, <3>4 DEF Held
  <2> QED BY <2>2, <2>3 DEF PointerInv
<1>4. CASE Direct
  BY <1>0, <1>4 DEF Direct, PointerInv, NeedsAsm, NeedsObj, Kind
<1>5. CASE Pass
  BY <1>5 DEF Pass, NextInput, PointerInv, NeedsAsm, NeedsObj
<1>6. CASE Compile
  <2>1. CASE Exit("tool")
    BY <2>1 DEF Exit, Alive
  <2>2. CASE cmd.mode = "-S"
    BY <1>0, <1>6, <2>1, <2>2 DEF Compile, Ends, NextInput, PointerInv, NeedsAsm, NeedsObj
  <2>3. CASE cmd.mode # "-S" /\ ~Exit("tool")
    <3>1. /\ pc = "cc" /\ pc' = "as" /\ at' = at /\ asm' = asm /\ obj' = obj /\ items' = items
          /\ block' = block
      BY <1>6, <2>3 DEF Compile, Ends
    <3>2. NeedsAsm' = NeedsAsm /\ NeedsObj' = NeedsObj
      BY <1>0, <3>1 DEF NeedsAsm, NeedsObj, Kind
    <3> QED BY <3>1, <3>2 DEF PointerInv, Held
  <2> QED BY <2>1, <2>2, <2>3
<1>7. CASE Assemble
  BY <1>7 DEF Assemble, Ends, Exit, Alive, NextInput, PointerInv, NeedsAsm, NeedsObj
<1>8. CASE EndInputs
  BY <1>8 DEF EndInputs, PointerInv, NeedsAsm, NeedsObj
<1>9. CASE Link
  BY <1>9 DEF Link, Ends, Exit, Alive, PointerInv, NeedsAsm, NeedsObj
<1>10. CASE Cleanup
  BY <1>10, PlaceStep DEF Cleanup, PointerInv, NeedsAsm, NeedsObj, PlaceInv
<1> QED BY <1>1, <1>2, <1>3, <1>4, <1>5, <1>6, <1>7, <1>8, <1>9, <1>10 DEF Next

LEMMA CountStep ==
  ASSUME TypeOK, CapInv, PlaceInv, CountInv, Next
  PROVE  Alive' => CountInv'
<1> SUFFICES ASSUME Alive', cmd.mode = "link"
             PROVE  Len(items') = (TempsBefore(cmd, at) + MadeHere)'
  BY PlaceStep DEF CountInv
<1>0. /\ cmd \in Commands /\ at \in Nat /\ Running /\ cmd' = cmd /\ Len(items) \in Nat
      /\ Len(items) = TempsBefore(cmd, at) + MadeHere
      /\ DOMAIN cmd.inputs = 1 .. Len(cmd.inputs) /\ at \in 1 .. Len(cmd.inputs) + 1
  BY PlaceStep, CommandType DEF TypeOK, Alive, Running, PlaceInv, CountInv
<1>1. ASSUME at \in DOMAIN cmd.inputs
      PROVE  /\ TempsBefore(cmd, at) \in Nat
             /\ TempsBefore(cmd, at + 1) = TempsBefore(cmd, at)
                  + (IF Kind = "n" THEN 2 ELSE IF Kind = "asm" THEN 1 ELSE 0)
  BY <1>0, <1>1, TempsNext DEF Kind
<1>2. CASE MakeAsm
  <2>1. /\ File("temp.s", at) \in Names /\ MakeFile(File("temp.s", at)) /\ at' = at
        /\ pc = "input" /\ pc' = "object" /\ at \in DOMAIN cmd.inputs
    BY <1>0, <1>2, FileType DEF MakeAsm
  <2>2. Len(items') = Len(items) + 1
    BY <2>1, Making
  <2>3. MadeHere = 0 /\ MadeHere' = 1
    BY <2>1 DEF MadeHere
  <2> QED BY <1>0, <1>1, <2>1, <2>2, <2>3
<1>3. CASE MakeObject
  <2>1. /\ File("temp.o65", at) \in Names /\ MakeFile(File("temp.o65", at)) /\ at' = at
        /\ pc' = IF Kind = "n" THEN "cc" ELSE "as"
        /\ (pc = "object" /\ Kind = "n") \/ (pc = "input" /\ Kind = "asm")
        /\ at \in DOMAIN cmd.inputs /\ Kind' = Kind
    BY <1>0, <1>3, FileType DEF MakeObject, PlaceInv, Kind
  <2>2. Len(items') = Len(items) + 1
    BY <2>1, Making
  <2>3. /\ MadeHere = IF pc = "object" THEN 1 ELSE 0
        /\ MadeHere' = IF Kind = "n" THEN 2 ELSE 1
    BY <2>1 DEF MadeHere
  <2>4. MadeHere' = MadeHere + 1
    BY <2>1, <2>3
  <2> QED BY <1>0, <1>1, <2>1, <2>2, <2>3, <2>4
<1>4. CASE Pass
  <2>1. /\ pc = "input" /\ pc' = "input" /\ at' = at + 1 /\ items' = items
        /\ Kind \in {"obj", "arc"} /\ at \in DOMAIN cmd.inputs
    BY <1>0, <1>4 DEF Pass, NextInput
  <2>2. MadeHere = 0 /\ MadeHere' = 0
    BY <2>1 DEF MadeHere
  <2> QED BY <1>0, <1>1, <2>1, <2>2
<1>5. CASE Compile
  <2>1. /\ pc = "cc" /\ pc' = "as" /\ at' = at /\ items' = items
    BY <1>0, <1>5 DEF Compile, Ends, Exit, Alive
  <2>2. MadeHere' = MadeHere
    BY <1>0, <2>1 DEF MadeHere, Kind
  <2> QED BY <1>0, <2>1, <2>2
<1>6. CASE Assemble
  <2>1. /\ pc = "as" /\ pc' = "input" /\ at' = at + 1 /\ items' = items
        /\ HasTemp(at) /\ at \in DOMAIN cmd.inputs
    BY <1>0, <1>6 DEF Assemble, Ends, Exit, Alive, NextInput, PlaceInv
  <2>2. MadeHere' = 0 /\ MadeHere = IF Kind = "n" THEN 2 ELSE 1
    BY <2>1 DEF MadeHere
  <2>3. Kind \in {"n", "asm"}
    BY <2>1 DEF HasTemp, Kind
  <2> QED BY <1>0, <1>1, <2>1, <2>2, <2>3
<1>7. CASE EndInputs \/ Link \/ Cleanup
  <2>1. /\ pc \in {"input", "ld", "cleanup"} /\ pc' \in {"ld", "cleanup"}
        /\ at' = at /\ items' = items
    BY <1>0, <1>7 DEF EndInputs, Link, Cleanup, Ends, Exit, Alive
  <2>2. MadeHere = 0 /\ MadeHere' = 0
    BY <2>1 DEF MadeHere
  <2> QED BY <1>0, <2>1, <2>2
<1>8. ~Refuse /\ ~Direct
  BY <1>0 DEF Refuse, Direct, Exit, Alive
<1> QED BY <1>2, <1>3, <1>4, <1>5, <1>6, <1>7, <1>8 DEF Next

LEMMA TypeStep ==
  ASSUME TypeOK, CapInv, PlaceInv, PointerInv, Next
  PROVE  TypeOK' /\ CapInv'
<1>0. /\ Running /\ cmd' = cmd /\ cmd \in Commands /\ at \in 1 .. Len(cmd.inputs) + 1
      /\ Len(cmd.inputs) \in Nat \ {0} /\ at \in Nat
  BY PlaceStep, CommandType DEF TypeOK
<1>1. ASSUME UNCHANGED <<items, cap, block, asm, obj, disk>>,
             at' \in 1 .. Len(cmd.inputs) + 1,
             pc' \in {"input", "object", "cc", "as", "ld", "cleanup"},
             links' \in Seq(Files),
             ran' \in Seq(ToolRuns),
             status' \in {"none", "0", "1", "tool"}
      PROVE  TypeOK' /\ CapInv'
  BY <1>0, <1>1 DEF TypeOK, CapInv
<1>2. CASE Refuse
  BY <1>0, <1>1, <1>2 DEF Refuse, Exit, TypeOK
<1>3. CASE MakeAsm
  <2>1. File("temp.s", at) \in Names /\ MakeFile(File("temp.s", at))
    BY <1>0, <1>3, FileType DEF MakeAsm
  <2>2. asm' = <<block', Len(items')>> /\ asm' \in Nat \X (Nat \ {0})
    BY <1>3, <2>1, HeldKept DEF MakeAsm
  <2> QED BY <1>0, <1>3, <2>1, <2>2, Making DEF MakeAsm, TypeOK, Pointers
<1>4. CASE MakeObject
  <2>1. File("temp.o65", at) \in Names /\ MakeFile(File("temp.o65", at))
    BY <1>0, <1>4, FileType DEF MakeObject
  <2>2. obj' = <<block', Len(items')>> /\ obj' \in Nat \X (Nat \ {0})
    BY <1>4, <2>1, HeldKept DEF MakeObject
  <2> QED BY <1>0, <1>4, <2>1, <2>2, Making DEF MakeObject, TypeOK, Pointers
<1>5. CASE Direct
  BY <1>0, <1>1, <1>5 DEF Direct, TypeOK
<1>6. CASE Pass
  <2>1. File("input", at) \in Files
    BY <1>0, FileType
  <2> QED BY <1>0, <1>1, <1>6, <2>1 DEF Pass, NextInput, TypeOK
<1>7. ASSUME NEW name \in {"n65cc", "n65asm", "n65ld"}, NEW from \in Seq(Files), NEW to \in Files
      PROVE  IF cmd.dry THEN ran \in Seq(ToolRuns)
             ELSE Append(ran, Tool(name, from, to)) \in Seq(ToolRuns)
  <2>1. Tool(name, from, to) \in ToolRuns
    BY DEF Tool, ToolRuns
  <2> QED BY <2>1 DEF TypeOK
<1>8. CASE Compile
  <2>1. at \in 1 .. Len(cmd.inputs) /\ pc = "cc" /\ Kind = "n"
    BY <1>0, <1>8 DEF Compile, PlaceInv
  <2> DEFINE to == IF cmd.mode = "-S" THEN File("named.s", at) ELSE Read(asm)
             t == Tool("n65cc", <<File("input", at)>>, to)
  <2>2. to \in Files
    <3>1. File("named.s", at) \in Files /\ File("temp.s", at) \in Files
      BY <1>0, FileType
    <3>2. cmd.mode # "-S" => Read(asm) \in {File("temp.s", at), Unknown}
      BY <2>1, ReadHeld DEF PointerInv, NeedsAsm
    <3> QED BY <3>1, <3>2 DEF Files
  <2>3. <<File("input", at)>> \in Seq(Files)
    <3>1. File("input", at) \in Files
      BY <1>0, FileType
    <3> QED BY <3>1
  <2>4. ran' = IF cmd.dry THEN ran ELSE Append(ran, t)
    BY <1>8 DEF Compile, Ends
  <2>5. /\ UNCHANGED <<items, cap, block, asm, obj, disk, links>>
        /\ at' \in 1 .. Len(cmd.inputs) + 1
        /\ pc' \in {"input", "object", "cc", "as", "ld", "cleanup"}
        /\ status' \in {"none", "0", "1", "tool"}
    BY <1>0, <1>8, <2>1 DEF Compile, Ends, Exit, NextInput, Running
  <2> HIDE DEF to
  <2>6. ran' \in Seq(ToolRuns)
    BY <1>7, <2>2, <2>3, <2>4
  <2>7. links' \in Seq(Files)
    BY <2>5 DEF TypeOK
  <2> QED BY <1>1, <2>5, <2>6, <2>7
<1>9. CASE Assemble
  <2>1. at \in 1 .. Len(cmd.inputs) /\ pc = "as" /\ Kind \in {"n", "asm"} /\ cmd.mode # "-S"
        /\ cmd.mode \in {"link", "-c", "-S"}
    BY <1>0, <1>9, CommandType DEF Assemble, PlaceInv, HasTemp, Kind
  <2> DEFINE to == IF cmd.mode = "-c" THEN File("named.o65", at) ELSE Read(obj)
             from == <<IF Kind = "n" THEN Read(asm) ELSE File("input", at)>>
             t == Tool("n65asm", from, to)
  <2>2. /\ cmd.mode = "link" => Read(obj) \in Files
        /\ Kind = "n" => Read(asm) \in Files
        /\ File("named.o65", at) \in Files /\ File("input", at) \in Files
    <3>1. /\ File("temp.o65", at) \in Files /\ File("temp.s", at) \in Files
          /\ File("named.o65", at) \in Files /\ File("input", at) \in Files
      BY <1>0, FileType
    <3>2. cmd.mode = "link" => Read(obj) \in {File("temp.o65", at), Unknown}
      BY <2>1, ReadHeld DEF PointerInv, NeedsObj
    <3>3. Kind = "n" => Read(asm) \in {File("temp.s", at), Unknown}
      BY <2>1, ReadHeld DEF PointerInv, NeedsAsm
    <3> QED BY <3>1, <3>2, <3>3 DEF Files
  <2>3. to \in Files
    BY <2>1, <2>2
  <2>4. from \in Seq(Files)
    <3>1. (IF Kind = "n" THEN Read(asm) ELSE File("input", at)) \in Files
      BY <2>2
    <3> QED BY <3>1
  <2>5. ran' = IF cmd.dry THEN ran ELSE Append(ran, t)
    BY <1>9 DEF Assemble, Ends
  <2>6. /\ UNCHANGED <<items, cap, block, asm, obj, disk>>
        /\ at' \in 1 .. Len(cmd.inputs) + 1
        /\ pc' \in {"input", "object", "cc", "as", "ld", "cleanup"}
        /\ status' \in {"none", "0", "1", "tool"}
    BY <1>0, <1>9, <2>1 DEF Assemble, Ends, Exit, NextInput, Running
  <2>7. links' = links \/ (cmd.mode = "link" /\ links' = Append(links, Read(obj)))
    BY <1>9 DEF Assemble, Ends, Exit
  <2>8. links' \in Seq(Files)
    <3>1. links \in Seq(Files)
      BY DEF TypeOK
    <3> QED BY <2>2, <2>7, <3>1
  <2> HIDE DEF to, from
  <2>9. ran' \in Seq(ToolRuns)
    BY <1>7, <2>3, <2>4, <2>5
  <2> QED BY <1>1, <2>6, <2>8, <2>9
<1>10. CASE EndInputs
  BY <1>0, <1>1, <1>10 DEF EndInputs, TypeOK
<1>11. CASE Link
  <2>1. links \o Libraries \in Seq(Files)
    <3>1. Libraries \in Seq(Names)
      BY <1>0, LibrariesType
    <3>2. Libraries \in Seq(Files) /\ links \in Seq(Files)
      BY <3>1 DEF Files, TypeOK
    <3> QED BY <3>2
  <2>2. File("hex", 0) \in Files
    BY FileType
  <2>3. \/ ran' = ran
        \/ ran' = IF cmd.dry THEN ran
                  ELSE Append(ran, Tool("n65ld", links \o Libraries, File("hex", 0)))
    BY <1>11 DEF Link, Ends
  <2>4. ran' \in Seq(ToolRuns)
    BY <1>7, <2>1, <2>2, <2>3 DEF TypeOK
  <2>5. /\ UNCHANGED <<items, cap, block, asm, obj, disk, links, at>>
        /\ pc' \in {"input", "object", "cc", "as", "ld", "cleanup"}
        /\ status' \in {"none", "0", "1", "tool"}
    BY <1>0, <1>11 DEF Link, Ends, Exit, Running
  <2> QED BY <1>0, <1>1, <2>4, <2>5 DEF TypeOK
<1>12. CASE Cleanup
  <2>1. disk' \subseteq Files
    BY <1>12 DEF Cleanup, TypeOK
  <2> QED BY <1>0, <1>12, <2>1 DEF Cleanup, TypeOK, CapInv
<1> QED BY <1>2, <1>3, <1>4, <1>5, <1>6, <1>8, <1>9, <1>10, <1>11, <1>12 DEF Next

LEMMA ArrayStep == ArrayInv /\ [Next]_vars => ArrayInv'
<1> SUFFICES ASSUME ArrayInv, [Next]_vars  PROVE ArrayInv'
  OBVIOUS
<1>1. CASE Next
  <2>1. Alive
    BY <1>1 DEF Next, Refuse, MakeAsm, MakeObject, Direct, Pass, Compile, Assemble, EndInputs, Link,
                Cleanup, Alive, Running
  <2>2. TypeOK /\ CapInv /\ PlaceInv /\ PointerInv /\ CountInv
    BY <2>1 DEF ArrayInv
  <2>3. TypeOK' /\ CapInv'
    BY <1>1, <2>2, TypeStep
  <2>4. Alive' => PlaceInv' /\ PointerInv' /\ CountInv'
    BY <1>1, <2>2, PlaceStep, PointerStep, CountStep
  <2> QED BY <2>3, <2>4 DEF ArrayInv
<1>2. CASE UNCHANGED vars
  BY <1>2, SMTT(60) DEF vars, ArrayInv, TypeOK, CapInv, Alive, PlaceInv, PointerInv, CountInv, NeedsAsm,
              NeedsObj, Held, MadeHere, Kind, HasTemp
<1> QED BY <1>1, <1>2

\* The driver keeps to its types; a pointer into the array says the file it was made
\* for or points into a block that the array has left.
THEOREM DriverTyped == Spec => []TypeOK
<1>1. ArrayInv => TypeOK
  BY DEF ArrayInv
<1> QED BY <1>1, ArrayInit, ArrayStep, PTL DEF Spec

-----------------------------------------------------------------------------
\* What the tools are given, when the array does not grow between two files.

LEMMA FreshStep ==
  ASSUME ArrayInv, Alive, ~GrowsBetween(cmd), FreshInv, Next
  PROVE  Alive' => FreshInv'
<1>0. /\ Running /\ cmd' = cmd /\ cmd \in Commands /\ TypeOK /\ CapInv /\ PlaceInv /\ CountInv
      /\ DOMAIN cmd.inputs = 1 .. Len(cmd.inputs) /\ Len(cmd.inputs) \in Nat \ {0}
      /\ at \in Nat \ {0}
  BY PlaceStep, CommandType DEF ArrayInv, TypeOK
<1> SUFFICES ASSUME Alive'  PROVE FreshInv'
  OBVIOUS
<1>1. ~Refuse
  BY DEF Refuse, Exit, Alive
<1>2. CASE MakeAsm
  BY <1>0, <1>2 DEF MakeAsm, FreshInv, NeedsObj
<1>3. CASE MakeObject
  <2>1. /\ File("temp.o65", at) \in Names /\ MakeFile(File("temp.o65", at))
        /\ obj' = <<block', Len(items')>> /\ asm' = asm
        /\ pc' = IF Kind = "n" THEN "cc" ELSE "as"
        /\ pc = "object" \/ Kind = "asm"
        /\ cmd.mode = "link" /\ Kind' = Kind
    BY <1>0, <1>3, FileType DEF MakeObject, Kind
  <2>2. ASSUME NeedsAsm'  PROVE asm'[1] = block'
    <3>1. pc = "object" /\ Kind = "n" /\ at <= Len(cmd.inputs)
      BY <1>0, <2>1, <2>2 DEF NeedsAsm, PlaceInv
    <3>2. asm[1] = block
      BY <2>1, <3>1 DEF FreshInv, NeedsAsm
    <3>3. Len(items) = TempsBefore(cmd, at) + 1 /\ Len(items) \in Nat
      BY <1>0, <2>1, <3>1 DEF CountInv, MadeHere, TypeOK
    <3>4. ASSUME Len(items) = cap  PROVE FALSE
      <4>1. TempsBefore(cmd, at) \in Nat /\ TempsBefore(cmd, at) <= 2 * (at - 1)
        BY <1>0, <3>1, TempsNext
      <4>2. PICK k \in Nat : cap = FirstCap * 2 ^ k
        BY <1>0, <3>3, <3>4, <4>1 DEF CapInv
      <4>3. 2 ^ k \in Nat /\ FirstCap \in Nat \ {0}
        BY Power, FirstCapAssumption
      <4>4. 2 ^ k <= FirstCap * 2 ^ k
        <5> DEFINE w == 2 ^ k
        <5>1. w \in Nat
          BY <4>3
        <5> HIDE DEF w
        <5>2. FirstCap * w = w + (FirstCap - 1) * w /\ FirstCap - 1 \in Nat
          BY <4>3, <5>1
        <5>3. (FirstCap - 1) * w \in Nat
          BY <5>1, <5>2
        <5>4. w <= FirstCap * w
          BY <5>1, <5>2, <5>3
        <5> QED BY <5>4 DEF w
      <4>5. 2 ^ k <= 2 * Len(cmd.inputs)
        BY <1>0, <3>1, <3>3, <3>4, <4>1, <4>2, <4>3, <4>4
      <4>6. k \in 0 .. Len(cmd.inputs)
        BY <1>0, <4>5, FewDoublings
      <4>7. cmd.inputs[at] = "n" /\ at \in DOMAIN cmd.inputs
        BY <1>0, <3>1 DEF Kind
      <4> QED BY <2>1, <3>3, <3>4, <4>2, <4>6, <4>7 DEF GrowsBetween
    <3>5. Len(items) < cap
      BY <1>0, <3>3, <3>4 DEF TypeOK
    <3>6. block' = block
      BY <1>0, <2>1, <3>5, Making
    <3> QED BY <2>1, <3>2, <3>6
  <2> QED BY <2>1, <2>2 DEF FreshInv
<1>4. CASE Direct
  BY <1>0, <1>4 DEF Direct, FreshInv, NeedsAsm, NeedsObj, Kind
<1>5. CASE Pass
  BY <1>5 DEF Pass, NextInput, FreshInv, NeedsAsm, NeedsObj
<1>6. CASE Compile
  <2>1. CASE cmd.mode = "-S"
    BY <1>0, <1>6, <2>1 DEF Compile, Ends, Exit, Alive, NextInput, FreshInv, NeedsAsm, NeedsObj
  <2>2. CASE cmd.mode # "-S"
    <3>1. /\ pc = "cc" /\ pc' = "as" /\ at' = at /\ asm' = asm /\ obj' = obj /\ block' = block
      BY <1>6, <2>2 DEF Compile, Ends, Exit, Alive
    <3>2. NeedsAsm' = NeedsAsm /\ NeedsObj' = NeedsObj
      BY <1>0, <3>1 DEF NeedsAsm, NeedsObj, Kind
    <3> QED BY <3>1, <3>2 DEF FreshInv
  <2> QED BY <2>1, <2>2
<1>7. CASE Assemble
  BY <1>7 DEF Assemble, Ends, Exit, Alive, NextInput, FreshInv, NeedsAsm, NeedsObj
<1>8. CASE EndInputs
  BY <1>8 DEF EndInputs, FreshInv, NeedsAsm, NeedsObj
<1>9. CASE Link
  BY <1>9 DEF Link, Ends, Exit, Alive, FreshInv, NeedsAsm, NeedsObj
<1>10. CASE Cleanup
  BY <1>10 DEF Cleanup, FreshInv, NeedsAsm, NeedsObj
<1> QED BY <1>1, <1>2, <1>3, <1>4, <1>5, <1>6, <1>7, <1>8, <1>9, <1>10 DEF Next

\* With fresh pointers the tools run on the files of their input.
LEMMA RightFiles ==
  ASSUME ArrayInv, Alive, FreshInv
  PROVE  /\ NeedsAsm => Read(asm) = File("temp.s", at)
         /\ NeedsObj => Read(obj) = File("temp.o65", at)
BY ReadHeld DEF ArrayInv, FreshInv, PointerInv

LEMMA RightRuns ==
  ASSUME ArrayInv, Alive, FreshInv, Next
  PROVE  /\ Compile => ran' = IF cmd.dry THEN ran ELSE Append(ran, Cc(at))
         /\ Assemble => /\ ran' = IF cmd.dry THEN ran ELSE Append(ran, As(at))
                        /\ Alive' /\ cmd.mode = "link" => links' = Append(links, Linked(at))
         /\ Link /\ Alive' => ran' = IF cmd.dry THEN ran ELSE Append(ran, Ld)
         /\ Link => ran' = ran \/ ran' = Append(ran, Ld)
<1>0. PlaceInv /\ cmd.mode \in {"link", "-c", "-S"}
  BY CommandType DEF ArrayInv, TypeOK
<1>1. ASSUME Compile  PROVE ran' = IF cmd.dry THEN ran ELSE Append(ran, Cc(at))
  <2>1. pc = "cc" /\ Kind = "n"
    BY <1>0, <1>1 DEF Compile, PlaceInv
  <2>2. cmd.mode # "-S" => Read(asm) = File("temp.s", at)
    BY <2>1, RightFiles DEF NeedsAsm
  <2>3. Cc(at) = Tool("n65cc", <<File("input", at)>>,
                      IF cmd.mode = "-S" THEN File("named.s", at) ELSE Read(asm))
    BY <2>2 DEF Cc
  <2> QED BY <1>1, <2>3 DEF Compile, Ends
<1>2. ASSUME Assemble
      PROVE  /\ ran' = IF cmd.dry THEN ran ELSE Append(ran, As(at))
             /\ Alive' /\ cmd.mode = "link" => links' = Append(links, Linked(at))
  <2>1. pc = "as" /\ Kind \in {"n", "asm"} /\ cmd.mode # "-S"
    BY <1>0, <1>2 DEF Assemble, PlaceInv, HasTemp, Kind
  <2>2. /\ Kind = "n" => Read(asm) = File("temp.s", at)
        /\ cmd.mode # "-c" => Read(obj) = File("temp.o65", at)
    BY <1>0, <2>1, RightFiles DEF NeedsAsm, NeedsObj
  <2>3. As(at) = Tool("n65asm", <<IF Kind = "n" THEN Read(asm) ELSE File("input", at)>>,
                      IF cmd.mode = "-c" THEN File("named.o65", at) ELSE Read(obj))
    BY <2>2 DEF As, Kind
  <2>4. cmd.mode = "link" => Read(obj) = Linked(at)
    BY <2>1, <2>2 DEF Linked, HasTemp, Kind
  <2>5. ran' = IF cmd.dry THEN ran ELSE Append(ran, As(at))
    BY <1>2, <2>3 DEF Assemble, Ends
  <2>6. Alive' /\ cmd.mode = "link" => links' = Append(links, Linked(at))
    BY <1>2, <2>4 DEF Assemble, Ends, Exit, Alive
  <2> QED BY <2>5, <2>6
<1>3. Link => /\ Alive' => ran' = IF cmd.dry THEN ran ELSE Append(ran, Ld)
              /\ ran' = ran \/ ran' = Append(ran, Ld)
  BY DEF Link, Ends, Exit, Alive, Ld
<1> QED BY <1>1, <1>2, <1>3

LEMMA LinksStep ==
  ASSUME ArrayInv, Alive, FreshInv, LinksInv, Next
  PROVE  LinksInv'
<1>0. /\ Running /\ cmd' = cmd /\ cmd \in Commands /\ PlaceInv /\ at \in Nat \ {0}
  BY PlaceStep DEF ArrayInv, TypeOK
<1> SUFFICES ASSUME cmd.mode = "link"
             PROVE  links' = [i \in 1 .. at' - 1 |-> Linked(i)']
  BY <1>0 DEF LinksInv
<1>1. links = [i \in 1 .. at - 1 |-> Linked(i)] /\ \A i : Linked(i)' = Linked(i)
  BY <1>0 DEF LinksInv, Linked, HasTemp
<1>2. CASE at' = at + 1 /\ links' = Append(links, Linked(at))
  <2>1. /\ Len(links) = at - 1 /\ DOMAIN links = 1 .. at - 1
    BY <1>0, <1>1
  <2>2. links' = [i \in 1 .. at |-> IF i <= at - 1 THEN links[i] ELSE Linked(at)]
    <3>1. Linked(at) \in Files /\ links \in Seq(Files)
      BY <1>0, FileType DEF Linked, ArrayInv, TypeOK
    <3>2. /\ links' \in [1 .. at -> Files] /\ links'[at] = Linked(at)
          /\ \A i \in 1 .. at - 1 : links'[i] = links[i]
      <4> DEFINE x == Linked(at)
      <4>1. links' = Append(links, x) /\ x \in Files
        BY <1>2, <3>1
      <4> HIDE DEF x
      <4>2. /\ links' \in Seq(Files) /\ Len(links') = Len(links) + 1 /\ links'[Len(links) + 1] = x
            /\ \A i \in 1 .. Len(links) : links'[i] = links[i]
        BY <3>1, <4>1
      <4>3. links' \in [1 .. Len(links') -> Files]
        BY <4>2
      <4>4. Len(links) + 1 = at /\ Len(links') = at
        BY <1>0, <2>1, <4>2
      <4>5. links' \in [1 .. at -> Files] /\ links'[at] = x
        BY <4>2, <4>3, <4>4
      <4>6. \A i \in 1 .. at - 1 : links'[i] = links[i]
        BY <2>1, <4>2
      <4> QED BY <4>5, <4>6 DEF x
    <3>3. ASSUME NEW i \in 1 .. at
          PROVE  links'[i] = IF i <= at - 1 THEN links[i] ELSE Linked(at)
      <4>1. i \in 1 .. at - 1 \/ (i = at /\ ~(i <= at - 1))
        BY <1>0
      <4> QED BY <3>2, <4>1
    <3> QED BY <3>2, <3>3
  <2>3. \A i \in 1 .. at : (IF i <= at - 1 THEN links[i] ELSE Linked(at)) = Linked(i)'
    <3>1. ASSUME NEW i \in 1 .. at
          PROVE  (IF i <= at - 1 THEN links[i] ELSE Linked(at)) = Linked(i)'
      <4>1. CASE i <= at - 1
        BY <1>0, <1>1, <4>1
      <4>2. CASE ~(i <= at - 1)
        <5>1. i = at
          BY <1>0, <4>2
        <5> QED BY <1>1, <4>2, <5>1
      <4> QED BY <4>1, <4>2
    <3> QED BY <3>1
  <2>4. 1 .. at' - 1 = 1 .. at
    BY <1>0, <1>2
  <2> QED BY <2>2, <2>3, <2>4
<1>3. CASE at' = at /\ links' = links
  BY <1>1, <1>3
<1>4. Pass => File("input", at) = Linked(at)
  BY DEF Pass, Linked, HasTemp, Kind
<1>5. \/ at' = at + 1 /\ links' = Append(links, Linked(at))
      \/ at' = at /\ links' = links
  <2>1. CASE Pass
    BY <1>4, <2>1 DEF Pass, NextInput
  <2>2. CASE Assemble
    <3>1. CASE Alive'
      BY <2>2, <3>1, RightRuns DEF Assemble, Ends, Exit, Alive, NextInput
    <3>2. CASE ~Alive'
      BY <2>2, <3>2 DEF Assemble, Ends, Exit, Alive
    <3> QED BY <3>1, <3>2
  <2>3. CASE Compile
    BY <2>3 DEF Compile, Ends, Exit
  <2>4. CASE ~Pass /\ ~Assemble /\ ~Compile
    BY <2>4 DEF Next, Refuse, MakeAsm, MakeObject, Direct, EndInputs, Link, Cleanup, Ends, Exit
  <2> QED BY <2>1, <2>2, <2>3, <2>4
<1> QED BY <1>2, <1>3, <1>5

\* Which run is which: every run writes a file of its own.
LEMMA Runs ==
  /\ \A i, j : (Cc(i) = Cc(j) => i = j) /\ (As(i) = As(j) => i = j) /\ Cc(i) # As(j)
  /\ \A i, j : /\ Cc(i).to = Cc(j).to => i = j
               /\ As(i).to = As(j).to => i = j
               /\ Cc(i).to # As(j).to
  /\ \A i : Cc(i).to # Ld.to /\ As(i).to # Ld.to
  /\ \A i : Cc(i).tool = "n65cc" /\ As(i).tool = "n65asm" /\ Ld.tool = "n65ld"
BY DEF Cc, As, Ld, Tool, File

\* Until the linker has run, there are the runs for the inputs passed, and those of
\* the compiler for this one.
LEMMA EarlierRuns ==
  ASSUME RanInv, DoneInv, pc # "cleanup", NEW k \in DOMAIN ran
  PROVE  /\ \/ \E i \in DOMAIN cmd.inputs : ran[k] = Cc(i) /\ Compiled(i)
            \/ cmd.mode # "-S" /\ \E i \in DOMAIN cmd.inputs : ran[k] = As(i) /\ i < at
         /\ ran[k].tool # "n65ld"
<1>1. ran[k].tool # "n65ld"
  BY DEF DoneInv
<1>2. ran[k] # Ld
  BY <1>1, Runs
<1> QED BY <1>1, <1>2 DEF RanInv, DoneInv

LEMMA RanKept ==
  ASSUME RanInv, cmd' = cmd, ran' = ran,
         (at' = at /\ links' = links) \/ (DoneInv /\ pc # "cleanup")
  PROVE  RanInv'
<1>1. /\ \A i : Cc(i)' = Cc(i) /\ As(i)' = As(i)
  BY DEF Cc, As
<1>2. CASE at' = at /\ links' = links
  <2>1. Ld' = Ld
    BY <1>2 DEF Ld, Libraries
  <2> QED BY <1>1, <1>2, <2>1 DEF RanInv, HasTemp
<1>3. CASE DoneInv /\ pc # "cleanup"
  <2>1. \A k \in DOMAIN ran' :
          \/ \E i \in DOMAIN cmd'.inputs : ran'[k] = Cc(i)'
          \/ cmd'.mode # "-S" /\ \E i \in DOMAIN cmd'.inputs : ran'[k] = As(i)'
    BY <1>1, <1>3, EarlierRuns
  <2> QED BY <1>1, <2>1 DEF RanInv, HasTemp
<1> QED BY <1>2, <1>3

\* One more run, of the input at hand or of the linker.
LEMMA RunAdded ==
  ASSUME ArrayInv, RanInv, DoneInv, cmd' = cmd, NEW t, ran' = Append(ran, t), ~cmd.dry,
         \/ t = Cc(at) /\ pc = "cc" /\ at <= Len(cmd.inputs)
         \/ t = As(at) /\ pc = "as" /\ at <= Len(cmd.inputs) /\ cmd.mode # "-S"
         \/ /\ t = Ld /\ Ld' = Ld /\ at' = at /\ pc = "ld" /\ cmd.mode = "link"
            /\ at = Len(cmd.inputs) + 1
  PROVE  /\ RanInv' /\ Len(ran') = Len(ran) + 1 /\ DOMAIN ran' = 1 .. Len(ran) + 1
         /\ Len(ran) \in Nat /\ ran'[Len(ran) + 1] = t /\ DOMAIN ran = 1 .. Len(ran)
         /\ \A k \in 1 .. Len(ran) : ran'[k] = ran[k]
<1>1. /\ \A i : Cc(i)' = Cc(i) /\ As(i)' = As(i)
  BY DEF Cc, As
<1>2. /\ Len(ran') = Len(ran) + 1 /\ DOMAIN ran' = 1 .. Len(ran) + 1 /\ DOMAIN ran = 1 .. Len(ran)
      /\ Len(ran) \in Nat /\ ran'[Len(ran) + 1] = t /\ \A k \in 1 .. Len(ran) : ran'[k] = ran[k]
  BY DEF ArrayInv, TypeOK
<1>3. /\ DOMAIN cmd.inputs = 1 .. Len(cmd.inputs) /\ Len(cmd.inputs) \in Nat /\ at \in Nat \ {0}
      /\ cmd.mode \in {"link", "-c", "-S"}
  BY CommandType DEF ArrayInv, TypeOK
<1>4. pc # "cleanup"
  OBVIOUS
<1>5. \A k \in DOMAIN ran' : k \in DOMAIN ran \/ k = Len(ran) + 1
  BY <1>2
<1>6. ASSUME NEW k \in DOMAIN ran  PROVE ran[k].to # t.to
  <2>1. ASSUME NEW i \in DOMAIN cmd.inputs, ran[k] = Cc(i), Compiled(i)  PROVE ran[k].to # t.to
    <3>1. CASE t = Cc(at) /\ pc = "cc"
      <4>1. i # at
        BY <1>3, <2>1, <3>1 DEF Compiled
      <4> QED BY <2>1, <3>1, <4>1, Runs
    <3> QED BY <2>1, <3>1, Runs
  <2>2. ASSUME NEW i \in DOMAIN cmd.inputs, ran[k] = As(i), i < at  PROVE ran[k].to # t.to
    <3>1. i # at
      BY <1>3, <2>2
    <3> QED BY <2>2, <3>1, Runs
  <2> QED BY <1>4, <2>1, <2>2, EarlierRuns
<1>7. \A j, k \in DOMAIN ran' : ran'[j].to = ran'[k].to => j = k
  <2>1. ASSUME NEW j \in DOMAIN ran', NEW k \in DOMAIN ran', ran'[j].to = ran'[k].to  PROVE j = k
    <3>1. CASE j \in DOMAIN ran /\ k \in DOMAIN ran
      BY <1>2, <2>1, <3>1 DEF RanInv
    <3>2. CASE j \in DOMAIN ran /\ k = Len(ran) + 1
      BY <1>2, <1>6, <2>1, <3>2
    <3>3. CASE j = Len(ran) + 1 /\ k \in DOMAIN ran
      BY <1>2, <1>6, <2>1, <3>3
    <3> QED BY <1>5, <3>1, <3>2, <3>3
  <2> QED BY <2>1
<1>8. \A k \in DOMAIN ran' :
        \/ \E i \in DOMAIN cmd.inputs : ran'[k] = Cc(i)
        \/ cmd.mode # "-S" /\ \E i \in DOMAIN cmd.inputs : ran'[k] = As(i)
        \/ cmd.mode = "link" /\ at' = Len(cmd.inputs) + 1 /\ ran'[k] = Ld /\ Ld' = Ld
  <2>1. ASSUME NEW k \in DOMAIN ran
        PROVE  \/ \E i \in DOMAIN cmd.inputs : ran'[k] = Cc(i)
               \/ cmd.mode # "-S" /\ \E i \in DOMAIN cmd.inputs : ran'[k] = As(i)
    BY <1>2, <1>4, EarlierRuns
  <2>2. at <= Len(cmd.inputs) => at \in DOMAIN cmd.inputs
    BY <1>3
  <2>3. \/ \E i \in DOMAIN cmd.inputs : ran'[Len(ran) + 1] = Cc(i)
        \/ cmd.mode # "-S" /\ \E i \in DOMAIN cmd.inputs : ran'[Len(ran) + 1] = As(i)
        \/ cmd.mode = "link" /\ at' = Len(cmd.inputs) + 1 /\ ran'[Len(ran) + 1] = Ld /\ Ld' = Ld
    BY <1>2, <2>2
  <2> QED BY <1>5, <2>1, <2>3
<1>9. \A k \in DOMAIN ran', i \in DOMAIN cmd.inputs :
        ran'[k] = As(i) /\ cmd.inputs[i] = "n" => \E j \in 1 .. k - 1 : ran'[j] = Cc(i)
  <2>1. ASSUME NEW k \in DOMAIN ran', NEW i \in DOMAIN cmd.inputs, ran'[k] = As(i),
               cmd.inputs[i] = "n"
        PROVE  \E j \in 1 .. k - 1 : ran'[j] = Cc(i)
    <3>1. CASE k \in DOMAIN ran
      <4>1. PICK j \in 1 .. k - 1 : ran[j] = Cc(i)
        BY <1>2, <2>1, <3>1 DEF RanInv
      <4> QED BY <1>2, <3>1, <4>1
    <3>2. CASE k = Len(ran) + 1
      <4>1. pc = "as" /\ i = at
        BY <1>2, <2>1, <3>2, Runs
      <4>2. PICK j \in DOMAIN ran : ran[j] = Cc(i)
        BY <2>1, <4>1 DEF DoneInv, Compiled
      <4> QED BY <1>2, <3>2, <4>2
    <3> QED BY <1>5, <3>1, <3>2
  <2> QED BY <2>1
<1>10. \A k \in DOMAIN ran', i \in DOMAIN cmd.inputs :
         ran'[k].tool = "n65ld" /\ HasTemp(i) => \E j \in 1 .. k - 1 : ran'[j] = As(i)
  <2>1. ASSUME NEW k \in DOMAIN ran', NEW i \in DOMAIN cmd.inputs,
               ran'[k].tool = "n65ld", HasTemp(i)
        PROVE  \E j \in 1 .. k - 1 : ran'[j] = As(i)
    <3>1. k = Len(ran) + 1
      BY <1>2, <1>4, <1>5, <2>1, EarlierRuns
    <3>2. at = Len(cmd.inputs) + 1 /\ cmd.mode = "link"
      BY <1>2, <2>1, <3>1, Runs
    <3>3. i < at
      BY <1>3, <3>2
    <3>4. PICK j \in DOMAIN ran : ran[j] = As(i)
      BY <2>1, <3>2, <3>3 DEF DoneInv
    <3> QED BY <1>2, <3>1, <3>4
  <2> QED BY <2>1
<1>11. RanInv'
  BY <1>1, <1>7, <1>8, <1>9, <1>10, SMTT(60) DEF RanInv, HasTemp
<1> QED BY <1>2, <1>11

LEMMA RanStep ==
  ASSUME ArrayInv, Alive, FreshInv, RanInv, DoneInv, Next
  PROVE  RanInv'
<1>0. /\ Running /\ cmd' = cmd /\ PlaceInv
  BY PlaceStep DEF ArrayInv
<1>1. CASE Compile
  <2>1. pc = "cc" /\ at <= Len(cmd.inputs)
    BY <1>0, <1>1 DEF Compile, PlaceInv
  <2>2. CASE cmd.dry
    BY <1>0, <1>1, <2>1, <2>2, RightRuns, RanKept
  <2>3. CASE ~cmd.dry
    BY <1>0, <1>1, <2>1, <2>3, RightRuns, RunAdded
  <2> QED BY <2>2, <2>3
<1>2. CASE Assemble
  <2>1. pc = "as" /\ at <= Len(cmd.inputs) /\ cmd.mode # "-S"
    BY <1>0, <1>2 DEF Assemble, PlaceInv
  <2>2. CASE cmd.dry
    BY <1>0, <1>2, <2>1, <2>2, RightRuns, RanKept
  <2>3. CASE ~cmd.dry
    BY <1>0, <1>2, <2>1, <2>3, RightRuns, RunAdded
  <2> QED BY <2>2, <2>3
<1>3. CASE Link
  <2>1. /\ pc = "ld" /\ at = Len(cmd.inputs) + 1 /\ cmd.mode = "link" /\ at' = at /\ links' = links
    BY <1>0, <1>3 DEF Link, PlaceInv, Ends, Exit
  <2>2. Ld' = Ld
    BY <1>0, <2>1 DEF Ld, Libraries
  <2>3. CASE ran' = ran
    BY <1>0, <2>1, <2>3, RanKept
  <2>4. CASE ran' # ran
    <3>1. ran' = Append(ran, Ld) /\ ~cmd.dry
      BY <1>3, <2>4, RightRuns DEF Link, Ends
    <3> QED BY <1>0, <2>1, <2>2, <3>1, RunAdded
  <2> QED BY <2>3, <2>4
<1>4. CASE ~Compile /\ ~Assemble /\ ~Link
  <2>1. ran' = ran
    BY <1>4 DEF Next, Refuse, MakeAsm, MakeObject, Direct, Pass, EndInputs, Cleanup, Exit
  <2>2. (at' = at /\ links' = links) \/ pc # "cleanup"
    BY <1>4 DEF Next, Refuse, MakeAsm, MakeObject, Direct, Pass, EndInputs, Cleanup, Exit
  <2> QED BY <1>0, <2>1, <2>2, RanKept
<1> QED BY <1>1, <1>2, <1>3, <1>4

LEMMA DoneStep ==
  ASSUME ArrayInv, Alive, FreshInv, RanInv, DoneInv, Next
  PROVE  Alive' => DoneInv'
<1> SUFFICES ASSUME Alive'  PROVE DoneInv'
  OBVIOUS
<1>0. /\ Running /\ cmd' = cmd /\ PlaceInv /\ PlaceInv' /\ at \in Nat \ {0}
      /\ DOMAIN cmd.inputs = 1 .. Len(cmd.inputs) /\ Len(cmd.inputs) \in Nat
      /\ \A i : Cc(i)' = Cc(i) /\ As(i)' = As(i)
  <2>1. Running /\ cmd' = cmd /\ PlaceInv /\ PlaceInv'
    BY PlaceStep DEF ArrayInv
  <2>2. /\ at \in Nat \ {0} /\ DOMAIN cmd.inputs = 1 .. Len(cmd.inputs)
        /\ Len(cmd.inputs) \in Nat
    BY CommandType DEF ArrayInv, TypeOK
  <2>3. \A i : Cc(i)' = Cc(i) /\ As(i)' = As(i)
    BY <2>1 DEF Cc, As
  <2> QED BY <2>1, <2>2, <2>3
<1>1. CASE Compile
  <2>1. /\ pc = "cc" /\ at <= Len(cmd.inputs)
        /\ IF cmd.mode = "-S" THEN NextInput ELSE pc' = "as" /\ at' = at
    BY <1>0, <1>1 DEF Compile, PlaceInv, Ends, Exit, Alive
  <2>2. /\ \A i \in DOMAIN cmd.inputs : Compiled(i)' <=> i <= at
        /\ \A i \in DOMAIN cmd.inputs : Compiled(i) <=> i < at
        /\ at <= at' /\ pc' # "cleanup"
        /\ cmd.mode # "-S" => at' = at
    BY <1>0, <2>1 DEF Compiled, NextInput
  <2>3. CASE cmd.dry
    <3>1. ran' = ran
      BY <1>1, <2>3, RightRuns
    <3>2. \A i \in DOMAIN cmd.inputs : i < at => i <= at /\ i < at'
      BY <1>0, <2>1 DEF NextInput
    <3> QED BY <1>0, <2>1, <2>2, <2>3, <3>1, <3>2 DEF DoneInv
  <2>4. CASE ~cmd.dry
    <3>1. /\ DOMAIN ran' = 1 .. Len(ran) + 1 /\ Len(ran) \in Nat /\ ran'[Len(ran) + 1] = Cc(at)
          /\ DOMAIN ran = 1 .. Len(ran) /\ \A k \in 1 .. Len(ran) : ran'[k] = ran[k]
      BY <1>0, <1>1, <2>1, <2>4, RightRuns, RunAdded
    <3>2. \A k \in DOMAIN ran' : k \in DOMAIN ran \/ k = Len(ran) + 1
      BY <3>1
    <3>3. \A k \in DOMAIN ran', i \in DOMAIN cmd.inputs : ran'[k] = Cc(i) => i <= at
      BY <1>0, <2>2, <3>1, <3>2, Runs DEF DoneInv
    <3>4. \A k \in DOMAIN ran', i \in DOMAIN cmd.inputs : ran'[k] = As(i) => i < at'
      BY <1>0, <2>1, <3>1, <3>2, Runs DEF DoneInv, NextInput
    <3>5. \A k \in DOMAIN ran' : ran'[k].tool # "n65ld"
      BY <2>1, <3>1, <3>2, Runs DEF DoneInv
    <3>6. ASSUME NEW i \in DOMAIN cmd.inputs, cmd.inputs[i] = "n", i <= at
          PROVE  \E k \in DOMAIN ran' : ran'[k] = Cc(i)
      <4>1. CASE i = at
        BY <3>1, <4>1
      <4>2. CASE i # at
        <5>1. i < at
          BY <1>0, <3>6, <4>2
        <5>2. PICK k \in DOMAIN ran : ran[k] = Cc(i)
          BY <2>2, <2>4, <3>6, <5>1 DEF DoneInv
        <5> QED BY <3>1, <5>2
      <4> QED BY <4>1, <4>2
    <3>7. ASSUME cmd.mode # "-S", NEW i \in DOMAIN cmd.inputs, HasTemp(i), i < at'
          PROVE  \E k \in DOMAIN ran' : ran'[k] = As(i)
      <4>1. PICK k \in DOMAIN ran : ran[k] = As(i)
        BY <2>2, <2>4, <3>7 DEF DoneInv
      <4> QED BY <3>1, <4>1
    <3> QED BY <1>0, <2>2, <3>3, <3>4, <3>5, <3>6, <3>7 DEF DoneInv, HasTemp
  <2> QED BY <2>3, <2>4
<1>2. CASE Assemble
  <2>1. /\ pc = "as" /\ at <= Len(cmd.inputs) /\ cmd.mode # "-S" /\ pc' = "input" /\ at' = at + 1
    BY <1>0, <1>2 DEF Assemble, PlaceInv, Ends, Exit, Alive, NextInput
  <2>2. /\ \A i \in DOMAIN cmd.inputs : Compiled(i)' <=> Compiled(i)
        /\ \A i \in DOMAIN cmd.inputs : i < at' <=> i < at \/ i = at
    BY <1>0, <2>1 DEF Compiled
  <2>3. CASE cmd.dry
    <3>1. ran' = ran
      BY <1>2, <2>3, RightRuns
    <3> QED BY <1>0, <2>1, <2>2, <2>3, <3>1 DEF DoneInv
  <2>4. CASE ~cmd.dry
    <3>1. /\ DOMAIN ran' = 1 .. Len(ran) + 1 /\ Len(ran) \in Nat /\ ran'[Len(ran) + 1] = As(at)
          /\ DOMAIN ran = 1 .. Len(ran) /\ \A k \in 1 .. Len(ran) : ran'[k] = ran[k]
      BY <1>0, <1>2, <2>1, <2>4, RightRuns, RunAdded
    <3>2. \A k \in DOMAIN ran' : k \in DOMAIN ran \/ k = Len(ran) + 1
      BY <3>1
    <3>3. \A k \in DOMAIN ran', i \in DOMAIN cmd.inputs : ran'[k] = Cc(i) => Compiled(i)
      BY <3>1, <3>2, Runs DEF DoneInv
    <3>4. \A k \in DOMAIN ran', i \in DOMAIN cmd.inputs : ran'[k] = As(i) => i < at \/ i = at
      BY <3>1, <3>2, Runs DEF DoneInv
    <3>5. \A k \in DOMAIN ran' : ran'[k].tool # "n65ld"
      BY <2>1, <3>1, <3>2, Runs DEF DoneInv
    <3>6. ASSUME NEW i \in DOMAIN cmd.inputs, cmd.inputs[i] = "n", Compiled(i)
          PROVE  \E k \in DOMAIN ran' : ran'[k] = Cc(i)
      <4>1. PICK k \in DOMAIN ran : ran[k] = Cc(i)
        BY <2>4, <3>6 DEF DoneInv
      <4> QED BY <3>1, <4>1
    <3>7. ASSUME NEW i \in DOMAIN cmd.inputs, HasTemp(i), i < at \/ i = at
          PROVE  \E k \in DOMAIN ran' : ran'[k] = As(i)
      <4>1. CASE i = at
        BY <3>1, <4>1
      <4>2. CASE i < at
        <5>1. PICK k \in DOMAIN ran : ran[k] = As(i)
          BY <2>1, <2>4, <3>7, <4>2 DEF DoneInv
        <5> QED BY <3>1, <5>1
      <4> QED BY <3>7, <4>1, <4>2
    <3> QED BY <1>0, <2>1, <2>2, <3>3, <3>4, <3>5, <3>6, <3>7 DEF DoneInv, HasTemp
  <2> QED BY <2>3, <2>4
<1>3. CASE Link
  <2>1. /\ pc = "ld" /\ at = Len(cmd.inputs) + 1 /\ cmd.mode = "link" /\ pc' = "cleanup"
        /\ at' = at /\ links' = links
    BY <1>0, <1>3 DEF Link, PlaceInv, Ends, Exit, Alive
  <2>2. /\ \A i \in DOMAIN cmd.inputs : Compiled(i)' <=> Compiled(i)
        /\ Ld' = Ld
    BY <1>0, <2>1 DEF Compiled, Ld, Libraries
  <2>3. CASE cmd.dry
    <3>1. ran' = ran
      BY <1>3, <2>3, RightRuns
    <3> QED BY <1>0, <2>1, <2>2, <2>3, <3>1 DEF DoneInv
  <2>4. CASE ~cmd.dry
    <3>1. /\ DOMAIN ran' = 1 .. Len(ran) + 1 /\ Len(ran) \in Nat /\ ran'[Len(ran) + 1] = Ld
          /\ DOMAIN ran = 1 .. Len(ran) /\ \A k \in 1 .. Len(ran) : ran'[k] = ran[k]
          /\ Len(ran') = Len(ran) + 1
      BY <1>0, <1>3, <2>1, <2>2, <2>4, RightRuns, RunAdded
    <3>2. \A k \in DOMAIN ran' : k \in DOMAIN ran \/ k = Len(ran) + 1
      BY <3>1
    <3>3. /\ \A k \in DOMAIN ran', i \in DOMAIN cmd.inputs : ran'[k] = Cc(i) => Compiled(i)
          /\ \A k \in DOMAIN ran', i \in DOMAIN cmd.inputs : ran'[k] = As(i) => i < at
      <4>1. \A i : Cc(i) # Ld /\ As(i) # Ld
        BY Runs
      <4> QED BY <3>1, <3>2, <4>1 DEF DoneInv
    <3>4. ASSUME NEW i \in DOMAIN cmd.inputs, cmd.inputs[i] = "n", Compiled(i)
          PROVE  \E k \in DOMAIN ran' : ran'[k] = Cc(i)
      <4>1. PICK k \in DOMAIN ran : ran[k] = Cc(i)
        BY <2>4, <3>4 DEF DoneInv
      <4> QED BY <3>1, <4>1
    <3>5. ASSUME NEW i \in DOMAIN cmd.inputs, HasTemp(i), i < at
          PROVE  \E k \in DOMAIN ran' : ran'[k] = As(i)
      <4>1. PICK k \in DOMAIN ran : ran[k] = As(i)
        BY <2>1, <2>4, <3>5 DEF DoneInv
      <4> QED BY <3>1, <4>1
    <3>6. ran' # <<>> /\ ran'[Len(ran')] = Ld'
      BY <2>2, <3>1
    <3> QED BY <1>0, <2>1, <2>2, <3>3, <3>4, <3>5, <3>6 DEF DoneInv, HasTemp
  <2> QED BY <2>3, <2>4
<1>4. CASE Pass
  <2>1. /\ ran' = ran /\ pc = "input" /\ pc' = "input" /\ at' = at + 1 /\ Kind \in {"obj", "arc"}
    BY <1>0, <1>4 DEF Pass, NextInput
  <2>2. \A i \in DOMAIN cmd.inputs : /\ Compiled(i) => Compiled(i)' /\ i < at'
                                     /\ Compiled(i)' \/ i < at' => Compiled(i) \/ i = at
                                     /\ Compiled(i) <=> i < at
    BY <1>0, <2>1 DEF Compiled
  <2>3. cmd.inputs[at] # "n" /\ ~HasTemp(at)
    BY <2>1 DEF HasTemp, Kind
  <2> QED BY <1>0, <2>1, <2>2, <2>3 DEF DoneInv, HasTemp
<1>5. CASE MakeAsm \/ MakeObject \/ Direct
  <2>1. /\ ran' = ran /\ at' = at /\ pc \in {"input", "object"} /\ pc' \in {"object", "cc", "as"}
        /\ pc' = "as" => cmd.inputs[at] # "n"
    BY <1>0, <1>5 DEF MakeAsm, MakeObject, Direct, Kind
  <2>2. \A i \in DOMAIN cmd.inputs : /\ Compiled(i) => Compiled(i)'
                                     /\ Compiled(i)' /\ cmd.inputs[i] = "n" => Compiled(i)
    BY <1>0, <2>1 DEF Compiled
  <2> QED BY <1>0, <2>1, <2>2 DEF DoneInv, HasTemp
<1>6. CASE EndInputs
  <2>1. /\ ran' = ran /\ at' = at /\ pc = "input"
        /\ pc' = IF cmd.mode = "link" THEN "ld" ELSE "cleanup"
    BY <1>0, <1>6 DEF EndInputs
  <2>2. \A i \in DOMAIN cmd.inputs : Compiled(i)' <=> Compiled(i)
    BY <2>1 DEF Compiled
  <2> QED BY <1>0, <2>1, <2>2 DEF DoneInv, HasTemp
<1>7. CASE Cleanup
  <2>1. /\ ran' = ran /\ at' = at /\ pc' = pc /\ links' = links
    BY <1>0, <1>7 DEF Cleanup
  <2>2. Ld' = Ld /\ \A i \in DOMAIN cmd.inputs : Compiled(i)' <=> Compiled(i)
    BY <1>0, <2>1 DEF Compiled, Ld, Libraries
  <2> QED BY <1>0, <2>1, <2>2 DEF DoneInv, HasTemp
<1>8. ~Refuse
  BY DEF Refuse, Exit, Alive
<1> QED BY <1>1, <1>2, <1>3, <1>4, <1>5, <1>6, <1>7, <1>8 DEF Next

LEMMA FlowInit == Init => FlowInv
<1> SUFFICES ASSUME Init  PROVE FlowInv
  OBVIOUS
<1>1. cmd \in Commands /\ pc = "input" /\ at = 1 /\ links = <<>> /\ ran = <<>>
  BY DEF Init
<1>2. FreshInv /\ RanInv
  BY <1>1 DEF FreshInv, NeedsAsm, NeedsObj, RanInv
<1>3. LinksInv
  BY <1>1 DEF LinksInv
<1>4. DoneInv
  BY <1>1, CommandType DEF DoneInv, Compiled
<1> QED BY <1>2, <1>3, <1>4 DEF FlowInv

LEMMA FlowStep == ArrayInv /\ FlowInv /\ [Next]_vars => FlowInv'
<1> SUFFICES ASSUME ArrayInv, FlowInv, [Next]_vars  PROVE FlowInv'
  OBVIOUS
<1>1. CASE Next
  <2>1. Alive /\ cmd' = cmd
    BY <1>1 DEF Next, Refuse, MakeAsm, MakeObject, Direct, Pass, Compile, Assemble, EndInputs, Link,
                Cleanup, Ends, Exit, Alive, Running
  <2> SUFFICES ASSUME ~GrowsBetween(cmd)
               PROVE  RanInv' /\ LinksInv' /\ (Alive' => FreshInv' /\ DoneInv')
    BY <2>1 DEF FlowInv, GrowsBetween, TempsBefore
  <2>2. RanInv /\ FreshInv /\ LinksInv /\ DoneInv
    BY <2>1 DEF FlowInv
  <2> QED BY <1>1, <2>1, <2>2, FreshStep, LinksStep, RanStep, DoneStep
<1>2. CASE UNCHANGED vars
  <2>1. /\ cmd' = cmd /\ pc' = pc /\ at' = at /\ block' = block /\ asm' = asm /\ obj' = obj
        /\ links' = links /\ ran' = ran /\ status' = status
    BY <1>2 DEF vars
  <2>2. GrowsBetween(cmd)' = GrowsBetween(cmd)
    BY <2>1 DEF GrowsBetween, TempsBefore
  <2>3. RanInv => RanInv'
    BY <2>1, RanKept
  <2>4. LinksInv => LinksInv'
    BY <2>1 DEF LinksInv, Linked, HasTemp
  <2>5. FreshInv => FreshInv'
    BY <2>1 DEF FreshInv, NeedsAsm, NeedsObj, Kind
  <2>6. DoneInv => DoneInv'
    <3>1. /\ Ld' = Ld /\ \A i : Cc(i)' = Cc(i) /\ As(i)' = As(i) /\ (Compiled(i)' <=> Compiled(i))
      BY <2>1 DEF Ld, Libraries, Cc, As, Compiled
    <3> QED BY <2>1, <3>1 DEF DoneInv, HasTemp
  <2> QED BY <2>1, <2>2, <2>3, <2>4, <2>5, <2>6 DEF FlowInv, Alive
<1> QED BY <1>1, <1>2

\* The parts of a command line of the linker: the inputs, then the libraries.
LEMMA LinkedFiles ==
  ASSUME ArrayInv, LinksInv, cmd.mode = "link", at = Len(cmd.inputs) + 1,
         NEW f \in ToSet(links \o Libraries)
  PROVE  \/ f.kind \in {"lib", "nlib"} /\ f # Unknown
         \/ \E i \in DOMAIN cmd.inputs : f = Linked(i) /\ f # Unknown
<1>1. /\ cmd \in Commands /\ DOMAIN cmd.inputs = 1 .. Len(cmd.inputs) /\ Len(cmd.inputs) \in Nat
      /\ links \in Seq(Files)
  BY CommandType DEF ArrayInv, TypeOK
<1>2. /\ Libraries \in Seq(Names)
      /\ \A k \in DOMAIN Libraries : Libraries[k].kind \in {"lib", "nlib"}
  BY <1>1, LibrariesType
<1>3. PICK k \in DOMAIN (links \o Libraries) : f = (links \o Libraries)[k]
  BY DEF ToSet
<1>4. /\ k \in 1 .. Len(links) + Len(Libraries) /\ Len(links) \in Nat /\ Len(Libraries) \in Nat
      /\ f = IF k <= Len(links) THEN links[k] ELSE Libraries[k - Len(links)]
  BY <1>1, <1>2, <1>3
<1>5. CASE k <= Len(links)
  <2>1. at - 1 = Len(cmd.inputs)
    BY <1>1
  <2>2. links = [i \in 1 .. Len(cmd.inputs) |-> Linked(i)]
    BY <2>1 DEF LinksInv
  <2>3. k \in 1 .. Len(cmd.inputs) /\ f = Linked(k)
    BY <1>1, <1>4, <1>5, <2>2
  <2>4. Linked(k) # Unknown
    BY <2>3, FileType DEF Linked
  <2> QED BY <1>1, <2>3, <2>4
<1>6. CASE ~(k <= Len(links))
  <2>1. k - Len(links) \in 1 .. Len(Libraries) /\ f = Libraries[k - Len(links)]
    BY <1>4, <1>6
  <2>2. k - Len(links) \in DOMAIN Libraries /\ f \in Names
    BY <1>2, <2>1
  <2> QED BY <1>2, <2>1, <2>2, UnknownAssumption
<1> QED BY <1>5, <1>6

\* The file a run before the kth has written has one writer.
LEMMA OneWriter ==
  ASSUME RanInv, NEW k \in DOMAIN ran, NEW j \in 1 .. k - 1, NEW f, ran[j].to = f, ArrayInv
  PROVE  Writers(f, k) = {j} /\ Cardinality(Writers(f, k)) = 1
<1>1. DOMAIN ran = 1 .. Len(ran) /\ Len(ran) \in Nat
  BY DEF ArrayInv, TypeOK
<1>2. \A i \in 1 .. k - 1 : i \in DOMAIN ran /\ (ran[i].to = f => i = j)
  BY <1>1 DEF RanInv
<1>3. Writers(f, k) = {j}
  BY <1>2 DEF Writers
<1> QED BY <1>3, FS_Singleton

\* What the tools read is what was written for them (temp_store_make_file, run_vec_or_die).
LEMMA FlowFollows == ArrayInv /\ FlowInv => FlowSound
<1> SUFFICES ASSUME ArrayInv, RanInv, LinksInv, NEW k \in DOMAIN ran
             PROVE  /\ \A f \in ToSet(ran[k].from) :
                         /\ f # Unknown
                         /\ f.kind \in Temps => /\ Cardinality(Writers(f, k)) = 1
                                                /\ \A j \in Writers(f, k) : ran[j].from[1].of = f.of
                    /\ ran[k].to # Unknown /\ Writers(ran[k].to, k) = {}
  BY DEF FlowInv, FlowSound
<1>1. /\ DOMAIN ran = 1 .. Len(ran) /\ Len(ran) \in Nat
      /\ DOMAIN cmd.inputs = 1 .. Len(cmd.inputs) /\ Len(cmd.inputs) \in Nat
  BY CommandType DEF ArrayInv, TypeOK
<1>2. Writers(ran[k].to, k) = {}
  <2>1. \A j \in 1 .. k - 1 : j \in DOMAIN ran /\ j # k
    BY <1>1
  <2> QED BY <2>1 DEF Writers, RanInv
<1>3. ASSUME NEW i \in DOMAIN cmd.inputs, ran[k] = Cc(i)
      PROVE  /\ ToSet(ran[k].from) = {File("input", i)} /\ File("input", i) # Unknown
             /\ ran[k].to # Unknown
  <2>1. i \in Nat
    BY <1>1
  <2>2. File("input", i) # Unknown /\ File("named.s", i) # Unknown /\ File("temp.s", i) # Unknown
    BY <2>1, FileType
  <2>3. ran[k].from = <<File("input", i)>> /\ ran[k].to # Unknown
    BY <1>3, <2>2 DEF Cc, Tool
  <2> QED BY <2>2, <2>3 DEF ToSet
<1>4. ASSUME NEW i \in DOMAIN cmd.inputs, ran[k] = As(i)
      PROVE  LET f == File(IF cmd.inputs[i] = "n" THEN "temp.s" ELSE "input", i)
             IN  ToSet(ran[k].from) = {f} /\ f # Unknown /\ ran[k].to # Unknown
  <2>1. i \in Nat
    BY <1>1
  <2>2. /\ File("input", i) # Unknown /\ File("temp.s", i) # Unknown
        /\ File("named.o65", i) # Unknown /\ File("temp.o65", i) # Unknown
    BY <2>1, FileType
  <2>3. /\ ran[k].from = <<File(IF cmd.inputs[i] = "n" THEN "temp.s" ELSE "input", i)>>
        /\ ran[k].to # Unknown
    BY <1>4, <2>2 DEF As, Tool
  <2> QED BY <2>2, <2>3 DEF ToSet
<1>5. CASE \E i \in DOMAIN cmd.inputs : ran[k] = Cc(i)
  <2>1. PICK i \in DOMAIN cmd.inputs : ran[k] = Cc(i)
    BY <1>5
  <2>2. File("input", i).kind \notin Temps
    BY DEF File, Temps
  <2> QED BY <1>2, <1>3, <2>1, <2>2
<1>6. CASE cmd.mode # "-S" /\ \E i \in DOMAIN cmd.inputs : ran[k] = As(i)
  <2>1. PICK i \in DOMAIN cmd.inputs : ran[k] = As(i)
    BY <1>6
  <2>2. CASE cmd.inputs[i] = "n"
    <3>1. PICK j \in 1 .. k - 1 : ran[j] = Cc(i)
      BY <2>1, <2>2 DEF RanInv
    <3>2. ran[j].to = File("temp.s", i) /\ ran[j].from[1].of = i /\ File("temp.s", i).of = i
      BY <1>6, <3>1 DEF Cc, Tool, File
    <3>3. Writers(File("temp.s", i), k) = {j} /\ Cardinality(Writers(File("temp.s", i), k)) = 1
      BY <3>2, OneWriter
    <3>4. ToSet(ran[k].from) = {File("temp.s", i)} /\ File("temp.s", i) # Unknown
          /\ ran[k].to # Unknown
      BY <1>4, <2>1, <2>2
    <3> QED BY <1>2, <3>2, <3>3, <3>4
  <2>3. CASE cmd.inputs[i] # "n"
    <3>1. File("input", i).kind \notin Temps
      BY DEF File, Temps
    <3>2. /\ ToSet(ran[k].from) = {File("input", i)} /\ File("input", i) # Unknown
          /\ ran[k].to # Unknown
      BY <1>4, <2>1, <2>3
    <3> QED BY <1>2, <3>1, <3>2
  <2> QED BY <2>2, <2>3
<1>7. CASE cmd.mode = "link" /\ at = Len(cmd.inputs) + 1 /\ ran[k] = Ld
  <2>1. /\ ran[k].from = links \o Libraries /\ ran[k].to = File("hex", 0) /\ ran[k].tool = "n65ld"
    BY <1>7 DEF Ld, Tool
  <2>2. ran[k].to # Unknown
    BY <2>1, FileType
  <2>3. ASSUME NEW f \in ToSet(links \o Libraries)
        PROVE  /\ f # Unknown
               /\ f.kind \in Temps => /\ Cardinality(Writers(f, k)) = 1
                                      /\ \A j \in Writers(f, k) : ran[j].from[1].of = f.of
    <3>1. CASE f.kind \in {"lib", "nlib"} /\ f # Unknown
      BY <3>1 DEF Temps
    <3>2. ASSUME NEW i \in DOMAIN cmd.inputs, f = Linked(i), f # Unknown, f.kind \in Temps
          PROVE  /\ Cardinality(Writers(f, k)) = 1
                 /\ \A j \in Writers(f, k) : ran[j].from[1].of = f.of
      <4>1. HasTemp(i) /\ f = File("temp.o65", i)
        BY <3>2 DEF Linked, File, Temps
      <4>2. PICK j \in 1 .. k - 1 : ran[j] = As(i)
        BY <2>1, <4>1 DEF RanInv
      <4>3. ran[j].to = f /\ ran[j].from[1].of = i /\ f.of = i
        BY <1>7, <4>1, <4>2 DEF As, Tool, File
      <4>4. Writers(f, k) = {j} /\ Cardinality(Writers(f, k)) = 1
        BY <4>3, OneWriter
      <4> QED BY <4>3, <4>4
    <3> QED BY <1>7, <3>1, <3>2, LinkedFiles
  <2> QED BY <1>2, <2>1, <2>2, <2>3
<1> QED BY <1>5, <1>6, <1>7 DEF RanInv

LEMMA BuiltFollows == ArrayInv /\ FlowInv => AllBuilt
<1> SUFFICES ASSUME ArrayInv, FlowInv, status = "0", ~cmd.dry, ~GrowsBetween(cmd)
             PROVE  LET outputs == {ran[k].to : k \in DOMAIN ran}
                        inputs == DOMAIN cmd.inputs
                    IN  /\ cmd.mode = "-S" => outputs = {File("named.s", i) : i \in inputs}
                        /\ cmd.mode = "-c" =>
                             {File("named.o65", i) : i \in inputs} \subseteq outputs
                        /\ cmd.mode = "link" =>
                             /\ ran[Len(ran)].tool = "n65ld"
                             /\ ran[Len(ran)].from =
                                  [i \in inputs |->
                                     File(IF cmd.inputs[i] \in {"n", "asm"} THEN "temp.o65"
                                                                             ELSE "input", i)]
                                  \o Libraries
  BY DEF AllBuilt
<1>1. /\ PlaceInv /\ RanInv /\ LinksInv /\ DoneInv
      /\ DOMAIN cmd.inputs = 1 .. Len(cmd.inputs) /\ Len(cmd.inputs) \in Nat
  BY CommandType DEF ArrayInv, TypeOK, FlowInv, Alive
<1>2. pc = "cleanup" /\ at = Len(cmd.inputs) + 1 /\ at - 1 = Len(cmd.inputs)
  BY <1>1 DEF PlaceInv
<1>3. \A i \in DOMAIN cmd.inputs : i < at /\ Compiled(i) /\ i \in 1 .. at - 1
  BY <1>1, <1>2 DEF Compiled
<1>4. ASSUME cmd.mode = "-S"
      PROVE  {ran[k].to : k \in DOMAIN ran} = {File("named.s", i) : i \in DOMAIN cmd.inputs}
  <2>1. \A i \in DOMAIN cmd.inputs : Cc(i).to = File("named.s", i) /\ cmd.inputs[i] = "n"
    BY <1>1, <1>3, <1>4 DEF Cc, Tool, PlaceInv
  <2>2. \A k \in DOMAIN ran : \E i \in DOMAIN cmd.inputs : ran[k] = Cc(i)
    BY <1>1, <1>4 DEF RanInv
  <2>3. \A i \in DOMAIN cmd.inputs : \E k \in DOMAIN ran : ran[k] = Cc(i)
    BY <1>1, <1>3, <2>1 DEF DoneInv
  <2>4. \A k \in DOMAIN ran : \E i \in DOMAIN cmd.inputs : ran[k].to = File("named.s", i)
    BY <2>1, <2>2
  <2>5. \A i \in DOMAIN cmd.inputs : \E k \in DOMAIN ran : ran[k].to = File("named.s", i)
    BY <2>1, <2>3
  <2> QED BY <2>4, <2>5
<1>5. ASSUME cmd.mode = "-c"
      PROVE  {File("named.o65", i) : i \in DOMAIN cmd.inputs}
               \subseteq {ran[k].to : k \in DOMAIN ran}
  <2>1. \A i \in DOMAIN cmd.inputs : As(i).to = File("named.o65", i) /\ HasTemp(i)
    BY <1>1, <1>3, <1>5 DEF As, Tool, PlaceInv
  <2>2. \A i \in DOMAIN cmd.inputs : \E k \in DOMAIN ran : ran[k] = As(i)
    BY <1>1, <1>3, <1>5, <2>1 DEF DoneInv
  <2> QED BY <2>1, <2>2
<1>6. ASSUME cmd.mode = "link"
      PROVE  /\ ran[Len(ran)].tool = "n65ld"
             /\ ran[Len(ran)].from =
                  [i \in DOMAIN cmd.inputs |->
                     File(IF cmd.inputs[i] \in {"n", "asm"} THEN "temp.o65" ELSE "input", i)]
                  \o Libraries
  <2>1. ran[Len(ran)] = Ld
    BY <1>1, <1>2, <1>6 DEF DoneInv
  <2>2. links = [i \in DOMAIN cmd.inputs |->
                   File(IF cmd.inputs[i] \in {"n", "asm"} THEN "temp.o65" ELSE "input", i)]
    BY <1>1, <1>2, <1>6 DEF LinksInv, Linked, HasTemp
  <2> QED BY <2>1, <2>2 DEF Ld, Tool
<1> QED BY <1>4, <1>5, <1>6

LEMMA FlowCorrect == Spec => [](ArrayInv /\ FlowInv)
<1>1. ArrayInv /\ FlowInv /\ [Next]_vars => (ArrayInv /\ FlowInv)'
  BY ArrayStep, FlowStep
<1> QED BY <1>1, ArrayInit, FlowInit, PTL DEF Spec

\* For every size of the array and every command line on which it does not grow between
\* the two files of one input: no tool reads a temporary file that an earlier tool has
\* not written for its input, and none is written twice.
THEOREM FlowIsSound == Spec => []FlowSound
BY FlowCorrect, FlowFollows, PTL

\* On the same command lines: a driver that succeeds has built all that it was asked to
\* build, and the linker has had the inputs in the order of the command line.
THEOREM SuccessMeansBuilt == Spec => []AllBuilt
BY FlowCorrect, BuiltFollows, PTL
=============================================================================
