---------------------------- MODULE AsmRelaxProofs ----------------------------
(***************************************************************************)
(* Proofs about the relaxation loop of n65asm, for every set of programs   *)
(* and every cap on the number of passes.                                  *)
(***************************************************************************)
EXTENDS AsmRelax, WellFoundedInduction, TLAPS

\* A set of numbers has a least one: the induction of the proofs below.
LEMMA FirstIn ==
  ASSUME NEW S, S \subseteq Nat, S # {}
  PROVE  \E i \in S : \A j \in S : i <= j
<1> DEFINE R == {p \in Nat \X Nat : p[1] < p[2]}
<1>1. IsWellFoundedOn(R, Nat)
  BY NatLessThanWellFounded DEF OpToRel
<1>2. \A i, j \in Nat : <<j, i>> \in R <=> j < i
  OBVIOUS
<1> HIDE DEF R
<1>3. \E i \in S : \A j \in S : ~(<<j, i>> \in R)
  BY <1>1, WFMin
<1>4. \A i, j \in S : ~(<<j, i>> \in R) => i <= j
  BY <1>2
<1> QED BY <1>3, <1>4

\* What a parsed program looks like, in the form the proofs below use.
LEMMA ProgramShape ==
  ASSUME prog \in Programs
  PROVE  /\ prog.o65 \in BOOLEAN
         /\ N \in Nat
         /\ \A i \in 1 .. N : /\ Stmt(i) \in Stmts
                              /\ Stmt(i).seg \in SegSet
                              /\ Stmt(i).expr.plus \in 0 .. N
                              /\ Stmt(i).expr.minus \in 0 .. N
         /\ \A s \in SegSet : /\ prog.segs[s] \in SegDefs
                              /\ prog.segs[s].after # 0 => prog.segs[s].after \in SegSet
<1>1. WellFormed(prog)
  BY ProgramsAssumption
<1>2. prog \in [o65 : BOOLEAN, segs : Seq(SegDefs), stmts : Seq(Stmts)]
  BY <1>1 DEF WellFormed
<1>3. /\ prog.o65 \in BOOLEAN /\ prog.segs \in Seq(SegDefs) /\ prog.stmts \in Seq(Stmts)
  BY <1>2
<1>4. /\ N \in Nat /\ DOMAIN prog.stmts = 1 .. N
      /\ \A i \in 1 .. N : Stmt(i) \in Stmts
  BY <1>3 DEF N, Stmt
<1>5. \A s \in SegSet : prog.segs[s] \in SegDefs
  BY <1>3 DEF SegSet
<1>6. SegSet = 1 .. Len(prog.segs) /\ Len(prog.segs) \in Nat
  BY <1>3 DEF SegSet
<1>7. \A s \in SegSet : prog.segs[s].after # 0 => prog.segs[s].after \in SegSet
  BY <1>1, <1>6 DEF WellFormed, SegSet
<1>8. \A i \in 1 .. N : /\ Stmt(i).seg \in SegSet
                        /\ Stmt(i).expr.plus \in 0 .. N
                        /\ Stmt(i).expr.minus \in 0 .. N
  BY <1>1, <1>4 DEF WellFormed, SegSet, N, Stmt
<1> QED
  BY <1>3, <1>4, <1>5, <1>7, <1>8

LEMMA SizeNat ==
  ASSUME prog \in Programs, final_mode \in [1 .. N -> Modes], NEW i \in 1 .. N
  PROVE  Size(i) \in Nat
<1>1. Stmt(i).bytes \in Nat
  BY ProgramShape DEF Stmts
<1>2. final_mode[i] \in Modes
  OBVIOUS
<1>3. SizeOf[final_mode[i]] \in Nat
  BY <1>2 DEF SizeOf, Modes
<1> QED
  BY <1>1, <1>3 DEF Size

\* The values a directive's expression can take during the layout.
LEMMA ValueHereInt ==
  ASSUME TypeOK, NEW i \in 1 .. N
  PROVE  ValueHere(i, Stmt(i).expr) \in Int
<1> DEFINE e == Stmt(i).expr
           here(j) == IF j = 0 THEN 0
                      ELSE IF j = i THEN base[Stmt(i).seg] + pc[Stmt(i).seg]
                      ELSE address[j]
<1>1. e \in Exprs /\ e.plus \in 0 .. N /\ e.minus \in 0 .. N /\ Stmt(i).seg \in SegSet /\ N \in Nat
  BY ProgramShape DEF Stmts, TypeOK
<1>2. \A j \in 0 .. N : here(j) \in Int
  BY <1>1, SMTT(60) DEF TypeOK
<1>3. e.off \in Int
  BY <1>1 DEF Exprs
<1>4. here(e.plus) - here(e.minus) + e.off \in Int
  BY <1>1, <1>2, <1>3
<1> QED
  BY <1>4 DEF ValueHere

-----------------------------------------------------------------------------
(* Type correctness.                                                         *)

LEMMA TypeInit == Init => TypeOK
<1> SUFFICES ASSUME Init PROVE TypeOK
  OBVIOUS
<1>1. prog \in Programs /\ N \in Nat
  BY ProgramShape DEF Init
<1>2. \A i \in 1 .. N : InitialMode(Stmt(i).kind) \in Modes
  BY DEF InitialMode, Modes
<1>3. final_mode \in [1 .. N -> Modes] /\ address \in [1 .. N -> Nat]
  BY <1>1, <1>2 DEF Init
<1>4. /\ base \in [SegSet -> Nat] /\ cap \in [SegSet -> Nat]
      /\ pc \in [SegSet -> Nat] /\ used \in [SegSet -> Nat]
  BY DEF Init
<1>5. pass \in 1 .. MaxPass /\ at \in 1 .. N + 1
  BY <1>1, MaxPassAssumption DEF Init
<1>7. changed = FALSE /\ phase = "gather"
  BY DEF Init
<1>6. before = {} /\ errors = {}
  BY DEF Init
<1> QED
  BY <1>1, <1>3, <1>4, <1>5, <1>6, <1>7 DEF TypeOK

LEMMA TypeStep == TypeOK /\ [Next]_vars => TypeOK'
<1> SUFFICES ASSUME TypeOK, [Next]_vars PROVE TypeOK'
  OBVIOUS
<1>0. /\ N \in Nat
      /\ \A i \in 1 .. N : Stmt(i).seg \in SegSet
      /\ \A s \in SegSet : /\ prog.segs[s].base \in Nat
                           /\ prog.segs[s].size \in Nat
                           /\ prog.segs[s].after # 0 => prog.segs[s].after \in SegSet
  BY ProgramShape DEF TypeOK, SegDefs
<1>a. prog' = prog
  BY DEF Next, vars, Gather, ZeroPc, LayoutSized, LayoutOrg, LayoutRes, Accepted, EndLayout, Relax,
         Emit, Finish
<1>b. N' = N /\ SegSet' = SegSet
  BY <1>a DEF N, SegSet
<1>c. ASSUME NEW i \in 1 .. N, NEW w \in {"org", "res", "emit"}
      PROVE  (errors \cup {<<i, w>>}) \subseteq (1 .. N) \X {"org", "res", "emit"}
  BY DEF TypeOK
<1>1. CASE Gather
  <2>1. ASSUME NEW s \in SegSet PROVE DefinedBase(s) \in Nat
    <3>1. CASE prog.segs[s].after = 0
      BY <1>0, <3>1 DEF DefinedBase
    <3>2. CASE prog.segs[s].after # 0
      <4>1. prog.segs[s].after \in SegSet
        BY <1>0, <3>2
      <4>2. prog.segs[prog.segs[s].after].base \in Nat /\ used[prog.segs[s].after] \in Nat
        BY <1>0, <4>1 DEF TypeOK
      <4> QED
        BY <1>0, <3>2, <4>2 DEF DefinedBase
    <3> QED
      BY <3>1, <3>2
  <2>2. pc' \in [SegSet -> Nat]
    BY <1>1 DEF Gather, ZeroPc
  <2>3. base' \in [SegSet -> Nat] /\ cap' \in [SegSet -> Nat]
    <3>1. CASE prog.o65
      BY <1>1, <3>1 DEF Gather, ZeroPc, TypeOK
    <3>2. CASE ~prog.o65
      <4>1. /\ base' = [s \in SegSet |-> DefinedBase(s)]
            /\ cap' = [s \in SegSet |-> prog.segs[s].size]
        BY <1>1, <3>2 DEF Gather, ZeroPc
      <4>2. \A s \in SegSet : prog.segs[s].size \in Nat
        BY <1>0
      <4> QED
        BY <2>1, <4>1, <4>2
    <3> QED
      BY <3>1, <3>2
  <2>4. before' \subseteq 0 .. 19
    BY <1>1 DEF Gather, ZeroPc, Signature
  <2>5. phase' = "layout" /\ at' = 1
        /\ UNCHANGED <<pass, used, address, final_mode, changed, errors>>
    BY <1>1 DEF Gather, ZeroPc
  <2> QED
    BY <1>0, <1>a, <1>b, <2>2, <2>3, <2>4, <2>5 DEF TypeOK
<1>2. CASE LayoutSized
  <2>1. at \in 1 .. N /\ Size(at) \in Nat /\ Stmt(at).seg \in SegSet
    BY <1>0, <1>2, SizeNat DEF LayoutSized, AtStmt, TypeOK
  <2>2. address' \in [1 .. N -> Nat] /\ pc' \in [SegSet -> Nat]
    BY <1>2, <2>1, SMTT(60) DEF LayoutSized, Place, TypeOK
  <2>3. at' \in 1 .. N + 1
        /\ UNCHANGED <<phase, pass, base, cap, used, before, final_mode, changed, errors>>
    BY <1>0, <1>2, <2>1 DEF LayoutSized
  <2> QED
    BY <1>a, <1>b, <2>2, <2>3 DEF TypeOK
<1>3. CASE LayoutOrg
  <2>1. at \in 1 .. N /\ Stmt(at).seg \in SegSet /\ ValueHere(at, Stmt(at).expr) \in Int
    BY <1>0, <1>3, ValueHereInt DEF LayoutOrg, Accepted, AtStmt, TypeOK
  <2>2. address' \in [1 .. N -> Nat]
    BY <1>3, <2>1 DEF LayoutOrg, Accepted, Place, TypeOK
  <2>3. at' \in 1 .. N + 1
        /\ UNCHANGED <<phase, pass, base, cap, used, before, final_mode, changed>>
    BY <1>0, <1>3, <2>1 DEF LayoutOrg, Accepted
  <2>4. pc' \in [SegSet -> Nat]
    <3>1. \/ pc' = pc
          \/ \E n \in Nat : pc' = [pc EXCEPT ![Stmt(at).seg] = n]
      <4> DEFINE n == ValueHere(at, Stmt(at).expr) - base[Stmt(at).seg]
      <4>1. base[Stmt(at).seg] \in Nat /\ pc[Stmt(at).seg] \in Nat
        BY <2>1 DEF TypeOK
      <4>2. n \in Int
        BY <2>1, <4>1
      <4>3. pc' = pc \/ (n >= 0 /\ pc' = [pc EXCEPT ![Stmt(at).seg] = n])
        BY <1>3, <2>1, <4>1 DEF LayoutOrg, Accepted
      <4> HIDE DEF n
      <4> QED
        BY <4>2, <4>3
    <3> QED
      BY <2>1, <3>1 DEF TypeOK
  <2>5. errors' = errors \/ errors' = errors \cup {<<at, "org">>}
    BY <1>3 DEF LayoutOrg, Accepted
  <2>6. errors' \subseteq (1 .. N) \X {"org", "res", "emit"}
    BY <1>c, <2>1, <2>5 DEF TypeOK
  <2> QED
    BY <1>a, <1>b, <2>2, <2>3, <2>4, <2>6 DEF TypeOK
<1>4. CASE LayoutRes
  <2>1. at \in 1 .. N /\ Stmt(at).seg \in SegSet /\ ValueHere(at, Stmt(at).expr) \in Int
    BY <1>0, <1>4, ValueHereInt DEF LayoutRes, Accepted, AtStmt, TypeOK
  <2>2. address' \in [1 .. N -> Nat]
    BY <1>4, <2>1 DEF LayoutRes, Accepted, Place, TypeOK
  <2>3. at' \in 1 .. N + 1
        /\ UNCHANGED <<phase, pass, base, cap, used, before, final_mode, changed>>
    BY <1>0, <1>4, <2>1 DEF LayoutRes, Accepted
  <2>4. pc' \in [SegSet -> Nat]
    <3>1. \/ pc' = pc
          \/ \E n \in Nat : pc' = [pc EXCEPT ![Stmt(at).seg] = n]
      <4> DEFINE n == pc[Stmt(at).seg] + ValueHere(at, Stmt(at).expr)
      <4>1. base[Stmt(at).seg] \in Nat /\ pc[Stmt(at).seg] \in Nat
        BY <2>1 DEF TypeOK
      <4>2. n \in Int
        BY <2>1, <4>1
      <4>3. pc' = pc \/ (n >= 0 /\ pc' = [pc EXCEPT ![Stmt(at).seg] = n])
        BY <1>4, <2>1, <4>1 DEF LayoutRes, Accepted
      <4> HIDE DEF n
      <4> QED
        BY <4>2, <4>3
    <3> QED
      BY <2>1, <3>1 DEF TypeOK
  <2>5. errors' = errors \/ errors' = errors \cup {<<at, "res">>}
    BY <1>4 DEF LayoutRes, Accepted
  <2>6. errors' \subseteq (1 .. N) \X {"org", "res", "emit"}
    BY <1>c, <2>1, <2>5 DEF TypeOK
  <2> QED
    BY <1>a, <1>b, <2>2, <2>3, <2>4, <2>6 DEF TypeOK
<1>5. CASE EndLayout
  BY <1>5, <1>a, <1>b DEF EndLayout, TypeOK
<1>6. CASE Relax
  <2>1. \A i \in 1 .. N : Shorter(final_mode[i]) \in Modes
    BY DEF Shorter, Modes
  <2>2. final_mode' \in [1 .. N -> Modes]
    BY <1>6, <2>1 DEF Relax, TypeOK
  <2>3. changed' \in BOOLEAN
    BY <1>6 DEF Relax, TypeOK
  <2>4. pass' \in 1 .. MaxPass /\ phase' \in {"gather", "emit"}
    BY <1>6, MaxPassAssumption DEF Relax, TypeOK
  <2> QED
    BY <1>0, <1>a, <1>b, <1>6, <2>2, <2>3, <2>4 DEF Relax, TypeOK
<1>7. CASE Emit
  <2>1. at \in 1 .. N
    BY <1>0, <1>7 DEF Emit, TypeOK
  <2>2. errors' = errors \/ errors' = errors \cup {<<at, "emit">>}
    BY <1>7 DEF Emit
  <2>3. errors' \subseteq (1 .. N) \X {"org", "res", "emit"}
    BY <1>c, <2>1, <2>2 DEF TypeOK
  <2>4. at' \in 1 .. N + 1
    BY <1>0, <1>7, <2>1 DEF Emit
  <2> QED
    BY <1>a, <1>b, <1>7, <2>3, <2>4 DEF Emit, TypeOK
<1>8. CASE Finish
  BY <1>8, <1>a, <1>b DEF Finish, TypeOK
<1>9. CASE UNCHANGED vars
  BY <1>9, <1>a, <1>b DEF vars, TypeOK
<1> QED
  BY <1>1, <1>2, <1>3, <1>4, <1>5, <1>6, <1>7, <1>8, <1>9 DEF Next

\* The state of the assembler stays within its types, for every program.
THEOREM TypeCorrect == Spec => []TypeOK
<1> QED
  BY TypeInit, TypeStep, PTL DEF Spec

-----------------------------------------------------------------------------
(***************************************************************************)
(* In a plain program a shortened form fits at every later layout.         *)
(*                                                                         *)
(* The reason is that distances inside a segment never grow: from one pass *)
(* to the next statements only lose bytes.  In the middle of a layout the  *)
(* first statements have their new address and the others their old one,   *)
(* so the invariant speaks of a branch that spans the statement the layout *)
(* is at in two parts: from the branch to the place the layout has reached *)
(* (new addresses), and from any statement q still to come to the label    *)
(* (old addresses).  Their sum stays within the reach.                     *)
(***************************************************************************)
Here(s) == base[s] + pc[s]
StartOf(s) == IF prog.o65 THEN 0 ELSE prog.segs[s].base
SameSeg(i, j) == Stmt(i).seg = Stmt(j).seg
Target1(b) == Stmt(b).expr.plus

ModeOK == \A i \in 1 .. N :
  /\ final_mode[i] \in {"EM_REL_LONG", "EM_REL"} => Stmt(i).kind = "branch"
  /\ final_mode[i] \in {"EM_ABS", "EM_ZP"} => Stmt(i).kind = "operand"
  /\ final_mode[i] = "EM_REL" => Stmt(i).expr.ext = "no"

Floor == \A i \in 1 .. N : StartOf(Stmt(i).seg) <= address[i]
Spaced == \A i, j \in 1 .. N :
            i < j /\ SameSeg(i, j) => address[i] + Size(i) <= address[j]
LegalAll == \A i \in 1 .. N : Legal(i)
Full == Floor /\ Spaced /\ LegalAll

\* The distance from lo to hi, of which the layout may have moved only lo so far,
\* is at most K.
Far(lo, hi, K) ==
  IF lo < at /\ at <= hi
  THEN \A q \in at .. hi :
         SameSeg(q, lo) => Here(Stmt(lo).seg) - address[lo] + address[hi] - address[q] <= K
  ELSE address[hi] - address[lo] <= K

PartialNew ==
  /\ \A s \in SegSet : base[s] = StartOf(s)
  /\ \A i \in 1 .. N : i < at => /\ address[i] + Size(i) <= Here(Stmt(i).seg)
                                 /\ StartOf(Stmt(i).seg) <= address[i]
  /\ \A i, j \in 1 .. N :
        i < j /\ j < at /\ SameSeg(i, j) => address[i] + Size(i) <= address[j]
PartialOld ==
  pass > 1 => /\ \A i, j \in 1 .. N :
                   at <= i /\ i < j /\ SameSeg(i, j) => address[i] + Size(i) <= address[j]
              /\ \A i \in 1 .. N : at <= i => Here(Stmt(i).seg) <= address[i]
PartialFar ==
  \A b \in {i \in 1 .. N : final_mode[i] = "EM_REL"} :
     /\ b < Target1(b) => Far(b, Target1(b), 129)
     /\ Target1(b) < b => Far(Target1(b), b, 126)
PartialByte ==
  \A i \in 1 .. N :
     (final_mode[i] = "EM_ZP" /\ Stmt(i).expr.ext = "no") => IsByte(Value(Stmt(i).expr))
Partial == PartialNew /\ PartialOld /\ PartialFar /\ PartialByte

PlainInv ==
  /\ ModeOK
  /\ prog.o65 => \A s \in SegSet : base[s] = 0
  /\ phase = "gather" /\ pass > 1 => Full
  /\ phase = "layout" => Partial
  /\ phase \in {"relax", "emit", "done"} => Full
  /\ (pass = 1 /\ phase \in {"gather", "layout", "relax"}) =>
        (\A i \in 1 .. N : ~Short(i))
IInv == TypeOK /\ (Plain(prog) => PlainInv)

\* A program never changes, so neither does anything that is read from it.
LEMMA ProgramFixed ==
  ASSUME [Next]_vars
  PROVE  /\ prog' = prog /\ N' = N /\ SegSet' = SegSet /\ Plain(prog)' = Plain(prog)
         /\ \A i : Stmt(i)' = Stmt(i)
         /\ \A s : StartOf(s)' = StartOf(s)
         /\ \A i, j : SameSeg(i, j)' = SameSeg(i, j)
         /\ \A i : Target1(i)' = Target1(i)
<1>1. prog' = prog
  BY DEF Next, vars, Gather, ZeroPc, LayoutSized, LayoutOrg, LayoutRes, Accepted, EndLayout, Relax,
         Emit, Finish
<1> QED
  BY <1>1 DEF N, SegSet, Stmt, StartOf, SameSeg, Target1, Plain

\* What a plain program guarantees of a two-byte branch and of a label operand.
LEMMA PlainShape ==
  ASSUME TypeOK, Plain(prog), ModeOK, NEW i \in 1 .. N
  PROVE  /\ Stmt(i).kind \in {"bytes", "branch", "operand"}
         /\ final_mode[i] = "EM_REL" =>
              /\ Target1(i) \in 1 .. N /\ SameSeg(Target1(i), i) /\ SameSeg(i, Target1(i))
              /\ Displacement(i) = address[Target1(i)] - address[i] - 2
<1>1. Stmt(i).expr \in Exprs /\ Stmt(i).expr.plus \in 0 .. N /\ N \in Nat
  BY ProgramShape DEF TypeOK, Stmts
<1>2. DOMAIN prog.stmts = 1 .. N
  BY ProgramsAssumption DEF TypeOK, WellFormed, N
<1>3. Stmt(i).kind \in {"bytes", "branch", "operand"}
  BY <1>2 DEF Plain, Stmt
<1>4. ASSUME final_mode[i] = "EM_REL"
      PROVE  /\ Target1(i) \in 1 .. N /\ SameSeg(Target1(i), i) /\ SameSeg(i, Target1(i))
             /\ Displacement(i) = address[Target1(i)] - address[i] - 2
  <2>1. Stmt(i).kind = "branch" /\ Stmt(i).expr.ext = "no"
    BY <1>4 DEF ModeOK
  <2>2. /\ Stmt(i).expr.plus # 0 /\ Stmt(i).expr.minus = 0 /\ Stmt(i).expr.off = 0
        /\ Stmt(Stmt(i).expr.plus).seg = Stmt(i).seg
    BY <1>2, <2>1 DEF Plain, Stmt
  <2>3. Target1(i) \in 1 .. N /\ SameSeg(Target1(i), i) /\ SameSeg(i, Target1(i))
    BY <1>1, <2>2 DEF Target1, SameSeg
  <2>4. Value(Stmt(i).expr) = address[Target1(i)]
    BY <2>2, <2>3 DEF Value, AddressOf, Target1, TypeOK
  <2>5. address[Target1(i)] \in Nat /\ address[i] \in Nat
    BY <2>3 DEF TypeOK
  <2> QED
    BY <2>3, <2>4, <2>5 DEF Displacement
<1> QED
  BY <1>3, <1>4

\* The short forms take no more than the long ones, and nothing else changes size.
LEMMA ShorterIsShorter ==
  ASSUME TypeOK, Relax, NEW i \in 1 .. N
  PROVE  Size(i)' <= Size(i)
<1>1. final_mode'[i] = final_mode[i]
      \/ (final_mode[i] = "EM_REL_LONG" /\ final_mode'[i] = "EM_REL")
      \/ (final_mode[i] = "EM_ABS" /\ final_mode'[i] = "EM_ZP")
  BY DEF Relax, CanShorten, Shorter
<1>2. SizeOf[final_mode'[i]] <= SizeOf[final_mode[i]]
  <2>1. final_mode[i] \in Modes
    BY DEF TypeOK
  <2> QED
    BY <1>1, <2>1 DEF SizeOf, Modes
<1>3. Stmt(i)' = Stmt(i) /\ Stmt(i).bytes \in Nat
  BY ProgramShape DEF Relax, Stmt, TypeOK, Stmts
<1>4. SizeOf[final_mode'[i]] \in Nat /\ SizeOf[final_mode[i]] \in Nat
  <2>1. final_mode[i] \in Modes
    BY DEF TypeOK
  <2> QED
    BY <1>1, <2>1 DEF SizeOf, Modes
<1> QED
  BY <1>2, <1>3, <1>4 DEF Size

\* What placing one statement changes: its own address and the place its segment
\* has reached.
LEMMA SizedFacts ==
  ASSUME TypeOK, LayoutSized
  PROVE  /\ N \in Nat /\ at \in 1 .. N /\ at' = at + 1
         /\ \A i \in 1 .. N : Stmt(i).seg \in SegSet
         /\ \A i \in 1 .. N : Size(i) \in Nat /\ Size(i)' = Size(i)
         /\ address'[at] = Here(Stmt(at).seg)
         /\ \A i \in 1 .. N : i # at => address'[i] = address[i]
         /\ \A t \in SegSet : Here(t)' = Here(t) + (IF Stmt(at).seg = t THEN Size(at) ELSE 0)
         /\ \A i \in 1 .. N : address[i] \in Int /\ address'[i] \in Int
         /\ \A t \in SegSet : Here(t) \in Int /\ Here(t)' \in Int
<1>0. /\ N \in Nat /\ at \in 1 .. N /\ at' = at + 1
      /\ Stmt(at).seg \in SegSet /\ \A i \in 1 .. N : Stmt(i).seg \in SegSet
  BY ProgramShape DEF TypeOK, LayoutSized, AtStmt
<1>1. /\ base' = base /\ final_mode' = final_mode /\ \A i : Stmt(i)' = Stmt(i)
  BY DEF LayoutSized, Stmt
<1>2. \A i \in 1 .. N : Size(i) \in Nat /\ Size(i)' = Size(i)
  <2>1. \A i : Size(i)' = Size(i)
    BY <1>1 DEF Size
  <2> QED
    BY <2>1, SizeNat DEF TypeOK
<1>3. /\ address'[at] = Here(Stmt(at).seg)
      /\ \A i \in 1 .. N : i # at => address'[i] = address[i]
  BY <1>0 DEF LayoutSized, Place, Here, TypeOK
<1>4. ASSUME NEW t \in SegSet
      PROVE  /\ Here(t)' = Here(t) + (IF Stmt(at).seg = t THEN Size(at) ELSE 0)
             /\ Here(t) \in Int /\ Here(t)' \in Int
  <2>0. Size(at) \in Nat
    BY <1>0, <1>2
  <2>1. pc' = [pc EXCEPT ![Stmt(at).seg] = pc[Stmt(at).seg] + Size(at)]
    BY DEF LayoutSized
  <2>2. pc[t] \in Nat /\ base[t] \in Nat /\ pc \in [SegSet -> Nat]
    BY <1>4 DEF TypeOK
  <2>3. Here(t)' = base[t] + pc'[t]
    BY <1>1 DEF Here
  <2>4. pc'[t] = pc[t] + (IF Stmt(at).seg = t THEN Size(at) ELSE 0)
    <3>1. CASE Stmt(at).seg = t
      BY <1>0, <1>4, <2>0, <2>1, <2>2, <3>1
    <3>2. CASE Stmt(at).seg # t
      BY <1>0, <1>4, <2>0, <2>1, <2>2, <3>2
    <3> QED
      BY <3>1, <3>2
  <2> QED
    BY <2>0, <2>2, <2>3, <2>4 DEF Here
<1>5. \A i \in 1 .. N : address[i] \in Int
  <2>1. address \in [1 .. N -> Nat]
    BY DEF TypeOK
  <2>2. \A i \in 1 .. N : address[i] \in Nat
    BY <2>1
  <2> QED
    BY <2>2
<1>6. \A i \in 1 .. N : address'[i] \in Int
  BY <1>0, <1>3, <1>4, <1>5
<1> QED
  BY <1>0, <1>2, <1>3, <1>4, <1>5, <1>6

\* Placing one statement keeps the two parts of a spanning distance within K.
LEMMA FarStep ==
  ASSUME TypeOK, PartialOld, pass > 1, LayoutSized,
         NEW lo \in 1 .. N, NEW hi \in 1 .. N, NEW K \in Int,
         lo < hi, SameSeg(lo, hi), Far(lo, hi, K)
  PROVE  Far(lo, hi, K)'
<1> DEFINE s == Stmt(lo).seg
<1>0. /\ N \in Nat /\ at \in 1 .. N /\ Size(at) \in Nat /\ s \in SegSet
      /\ Stmt(at).seg \in SegSet
  BY SizedFacts
<1>1. /\ at' = at + 1 /\ N' = N
      /\ \A i : Stmt(i)' = Stmt(i)
      /\ \A i, j : SameSeg(i, j)' = SameSeg(i, j)
  BY DEF LayoutSized, N, Stmt, SameSeg
<1>2. /\ address'[at] = Here(Stmt(at).seg)
      /\ \A i \in 1 .. N : i # at => address'[i] = address[i]
  BY SizedFacts
<1>3. Here(s)' = Here(s) + (IF Stmt(at).seg = s THEN Size(at) ELSE 0)
  BY <1>0, <1>1, SizedFacts DEF Here
<1>4. /\ \A i \in 1 .. N : address[i] \in Int /\ address'[i] \in Int
      /\ Here(s) \in Int /\ Here(s)' \in Int
  BY <1>0, <1>3, SizedFacts
<1>5. CASE hi < at
  BY <1>0, <1>1, <1>2, <1>5 DEF Far
<1>6. CASE at < lo
  BY <1>0, <1>1, <1>2, <1>6 DEF Far
<1>7. CASE lo = at
  <2>1. address[hi] - address[lo] <= K
    BY <1>0, <1>7 DEF Far
  <2>2. \A q \in at + 1 .. hi : SameSeg(q, lo) => address[at] + Size(at) <= address[q]
    BY <1>0, <1>7 DEF PartialOld, SameSeg
  <2>3. Here(s)' = address'[at] + Size(at)
    BY <1>0, <1>2, <1>3, <1>7
  <2>4. ASSUME NEW q \in at + 1 .. hi, SameSeg(q, lo)
        PROVE  Here(s)' - address'[lo] + address'[hi] - address'[q] <= K
    <3>1. address'[hi] = address[hi] /\ address'[q] = address[q] /\ q \in 1 .. N
      BY <1>0, <1>2, <1>7, <2>4
    <3>2. address[at] + Size(at) <= address[q]
      BY <2>2, <2>4
    <3> QED
      BY <1>0, <1>4, <1>7, <2>1, <2>3, <3>1, <3>2
  <2> QED
    BY <1>0, <1>1, <1>7, <2>4 DEF Far
<1>8. CASE hi = at
  <2>1. Here(s) - address[lo] + address[hi] - address[at] <= K
    BY <1>0, <1>8 DEF Far, SameSeg
  <2>2. address'[hi] = Here(s) /\ address'[lo] = address[lo]
    BY <1>0, <1>2, <1>8 DEF SameSeg
  <2>3. address'[hi] - address'[lo] <= K
    BY <1>0, <1>4, <1>8, <2>1, <2>2
  <2> QED
    BY <1>0, <1>1, <1>8, <2>3 DEF Far
<1>9. CASE lo < at /\ at < hi
  <2>1. \A q \in at .. hi : SameSeg(q, lo) => Here(s) - address[lo] + address[hi] - address[q] <= K
    BY <1>0, <1>9 DEF Far
  <2>2. address'[lo] = address[lo] /\ address'[hi] = address[hi]
    BY <1>0, <1>2, <1>9
  <2>3. ASSUME NEW q \in at + 1 .. hi, SameSeg(q, lo)
        PROVE  Here(s)' - address'[lo] + address'[hi] - address'[q] <= K
    <3>1. address'[q] = address[q] /\ q \in 1 .. N
      BY <1>0, <1>2, <1>9, <2>3
    <3>2. CASE Stmt(at).seg # s
      BY <1>0, <1>3, <1>4, <2>1, <2>2, <2>3, <3>1, <3>2
    <3>3. CASE Stmt(at).seg = s
      <4>1. Here(s) - address[lo] + address[hi] - address[at] <= K
        BY <1>0, <1>9, <2>1, <3>3 DEF SameSeg
      <4>2. address[at] + Size(at) <= address[q]
        BY <1>0, <2>3, <3>1, <3>3 DEF PartialOld, SameSeg
      <4> QED
        BY <1>0, <1>3, <1>4, <2>2, <3>1, <3>3, <4>1, <4>2
    <3> QED
      BY <3>2, <3>3
  <2> QED
    BY <1>0, <1>1, <1>9, <2>3 DEF Far
<1> QED
  BY <1>0, <1>5, <1>6, <1>7, <1>8, <1>9

\* LayoutSized, the statements already placed: they lie behind each other, below
\* the place their segment has reached.
LEMMA NewStep ==
  ASSUME TypeOK, PartialNew, LayoutSized
  PROVE  PartialNew'
<1>1. /\ prog' = prog /\ base' = base /\ N' = N /\ SegSet' = SegSet
      /\ \A i : Stmt(i)' = Stmt(i)
      /\ \A i, j : SameSeg(i, j)' = SameSeg(i, j)
      /\ \A t : StartOf(t)' = StartOf(t)
  BY DEF LayoutSized, N, Stmt, SameSeg, SegSet, StartOf
<1>2. \A t \in SegSet : base[t] = StartOf(t)
  BY DEF PartialNew
<1>3. /\ N \in Nat /\ at \in 1 .. N /\ at' = at + 1 /\ Size(at) \in Nat
      /\ Stmt(at).seg \in SegSet
  BY SizedFacts
<1>4. StartOf(Stmt(at).seg) <= Here(Stmt(at).seg) /\ StartOf(Stmt(at).seg) \in Int
  <2>1. base[Stmt(at).seg] \in Nat /\ pc[Stmt(at).seg] \in Nat
    BY <1>3 DEF TypeOK
  <2> QED
    BY <1>2, <1>3, <2>1 DEF Here
<1>5. ASSUME NEW i \in 1 .. N, i < at'
      PROVE  /\ address'[i] + Size(i)' <= Here(Stmt(i).seg)'
             /\ StartOf(Stmt(i).seg)' <= address'[i]
  <2>1. /\ Stmt(i).seg \in SegSet /\ Size(i) \in Nat /\ Size(i)' = Size(i)
        /\ address[i] \in Int /\ address'[i] \in Int
        /\ Here(Stmt(i).seg) \in Int
        /\ i # at => address'[i] = address[i]
    BY SizedFacts
  <2>2. Here(Stmt(i).seg)'
          = Here(Stmt(i).seg) + (IF Stmt(at).seg = Stmt(i).seg THEN Size(at) ELSE 0)
    BY <1>1, <2>1, SizedFacts DEF Here
  <2>3. CASE i = at
    <3>1. address'[i] = Here(Stmt(i).seg)
      BY <2>3, SizedFacts
    <3> QED
      BY <1>1, <1>4, <2>1, <2>2, <2>3, <3>1
  <2>4. CASE i # at
    <3>1. i < at
      BY <1>3, <1>5, <2>4
    <3>2. address[i] + Size(i) <= Here(Stmt(i).seg) /\ StartOf(Stmt(i).seg) <= address[i]
      BY <3>1 DEF PartialNew
    <3>3. StartOf(Stmt(i).seg)' = StartOf(Stmt(i).seg)
      BY <1>1 DEF StartOf
    <3> QED
      BY <1>3, <2>1, <2>2, <2>4, <3>2, <3>3
  <2> QED
    BY <2>3, <2>4
<1>6. ASSUME NEW i \in 1 .. N, NEW j \in 1 .. N, i < j, j < at', SameSeg(i, j)
      PROVE  address'[i] + Size(i)' <= address'[j]
  <2>1. /\ i # at /\ i < at /\ Size(i)' = Size(i) /\ address'[i] = address[i]
        /\ j # at => j < at /\ address'[j] = address[j]
    BY <1>3, <1>6, SizedFacts
  <2>2. CASE j = at
    <3>1. address'[j] = Here(Stmt(i).seg)
      BY <1>6, <2>2, SizedFacts DEF SameSeg
    <3> QED
      BY <2>1, <3>1 DEF PartialNew
  <2>3. CASE j # at
    BY <1>6, <2>1, <2>3 DEF PartialNew
  <2> QED
    BY <2>2, <2>3
<1> QED
  BY <1>1, <1>2, <1>5, <1>6 DEF PartialNew

\* LayoutSized, the statements still to come: in every pass but the first, the
\* place a segment has reached is not above the old address of what follows.
LEMMA OldStep ==
  ASSUME TypeOK, PartialOld, LayoutSized
  PROVE  /\ PartialOld'
         /\ pass > 1 => address'[at] <= address[at]
<1> SUFFICES ASSUME pass > 1
             PROVE  PartialOld' /\ address'[at] <= address[at]
  BY DEF PartialOld, LayoutSized
<1>1. /\ N' = N /\ \A i : Stmt(i)' = Stmt(i)
      /\ \A i, j : SameSeg(i, j)' = SameSeg(i, j)
  BY DEF LayoutSized, N, Stmt, SameSeg
<1>2. /\ N \in Nat /\ at \in 1 .. N /\ at' = at + 1 /\ Size(at) \in Nat
  BY SizedFacts
<1>3. ASSUME NEW i \in 1 .. N, NEW j \in 1 .. N, at' <= i, i < j, SameSeg(i, j)
      PROVE  address'[i] + Size(i)' <= address'[j]
  <2>1. /\ i # at /\ j # at /\ at <= i /\ Size(i)' = Size(i)
        /\ address'[i] = address[i] /\ address'[j] = address[j]
    BY <1>2, <1>3, SizedFacts
  <2> QED
    BY <1>3, <2>1 DEF PartialOld
<1>4. ASSUME NEW i \in 1 .. N, at' <= i
      PROVE  Here(Stmt(i).seg)' <= address'[i]
  <2>1. /\ i # at /\ at < i /\ at <= i /\ address'[i] = address[i] /\ address[i] \in Int
        /\ address[at] \in Int /\ Stmt(i).seg \in SegSet /\ Here(Stmt(i).seg) \in Int
    BY <1>2, <1>4, SizedFacts
  <2>2. Here(Stmt(i).seg)'
          = Here(Stmt(i).seg) + (IF Stmt(at).seg = Stmt(i).seg THEN Size(at) ELSE 0)
    BY <1>1, <2>1, SizedFacts DEF Here
  <2>3. Here(Stmt(i).seg) <= address[i] /\ Here(Stmt(at).seg) <= address[at]
    BY <1>2, <2>1 DEF PartialOld
  <2>4. CASE Stmt(at).seg = Stmt(i).seg
    <3>1. address[at] + Size(at) <= address[i]
      BY <1>2, <2>1, <2>4 DEF PartialOld, SameSeg
    <3> QED
      BY <1>2, <2>1, <2>2, <2>3, <2>4, <3>1
  <2>5. CASE Stmt(at).seg # Stmt(i).seg
    BY <1>2, <2>1, <2>2, <2>3, <2>5
  <2> QED
    BY <2>4, <2>5
<1>5. address'[at] <= address[at]
  BY <1>2, SizedFacts DEF PartialOld
<1> QED
  BY <1>1, <1>3, <1>4, <1>5 DEF PartialOld

\* LayoutSized, the shortened operands: a label only moves down, and never below 0.
LEMMA ByteStep ==
  ASSUME TypeOK, Plain(prog), ModeOK, PartialOld, PartialByte, pass > 1, LayoutSized
  PROVE  PartialByte'
<1>1. /\ N' = N /\ final_mode' = final_mode /\ \A i : Stmt(i)' = Stmt(i)
  BY DEF LayoutSized, N, Stmt
<1>2. ASSUME NEW i \in 1 .. N, final_mode[i] = "EM_ZP", Stmt(i).expr.ext = "no"
      PROVE  IsByte(Value(Stmt(i).expr))'
  <2> DEFINE e == Stmt(i).expr
  <2>1. /\ e \in Exprs /\ e.plus \in 0 .. N /\ N \in Nat /\ DOMAIN prog.stmts = 1 .. N
        /\ at \in 1 .. N
    <3>1. e \in Exprs /\ e.plus \in 0 .. N /\ N \in Nat
      BY ProgramShape DEF TypeOK, Stmts
    <3>2. DOMAIN prog.stmts = 1 .. N
      BY ProgramsAssumption DEF TypeOK, WellFormed, N
    <3> QED
      BY <3>1, <3>2, SizedFacts
  <2>2. e.minus = 0 /\ e.off >= 0 /\ e.off \in Int
    BY <1>2, <2>1 DEF ModeOK, Plain, Stmt, Exprs
  <2>3. IsByte(Value(e))
    BY <1>2 DEF PartialByte
  <2>4. e' = e
    BY <1>1
  <2>5. CASE e.plus = 0
    BY <2>2, <2>3, <2>4, <2>5 DEF IsByte, Value, AddressOf
  <2>6. CASE e.plus # 0
    <3>1. e.plus \in 1 .. N
      BY <2>1, <2>6
    <3>2. address[e.plus] \in Nat /\ address'[e.plus] \in Nat
      <4>1. address' \in [1 .. N -> Nat]
        BY <1>1, TypeStep DEF TypeOK, Next
      <4>2. address \in [1 .. N -> Nat]
        BY DEF TypeOK
      <4> QED
        BY <3>1, <4>1, <4>2
    <3>3. address'[e.plus] <= address[e.plus]
      <4>1. address'[at] <= address[at]
        BY OldStep
      <4>2. e.plus # at => address'[e.plus] = address[e.plus]
        BY <3>1, SizedFacts
      <4> HIDE DEF e
      <4> QED
        BY <3>2, <4>1, <4>2
    <3>4. Value(e) = address[e.plus] + e.off /\ Value(e)' = address'[e.plus] + e.off
      BY <2>2, <2>4, <2>6, <3>2 DEF Value, AddressOf
    <3> QED
      BY <2>2, <2>3, <2>4, <3>2, <3>3, <3>4 DEF IsByte
  <2> QED
    BY <2>5, <2>6
<1> QED
  BY <1>1, <1>2 DEF PartialByte

\* What a legal branch means for the distance between it and its label.
LEMMA LegalDistance ==
  ASSUME TypeOK, Plain(prog), ModeOK, LegalAll, NEW b \in 1 .. N, final_mode[b] = "EM_REL"
  PROVE  /\ Target1(b) \in 1 .. N
         /\ address[Target1(b)] - address[b] <= 129
         /\ address[b] - address[Target1(b)] <= 126
<1>1. Target1(b) \in 1 .. N /\ Displacement(b) = address[Target1(b)] - address[b] - 2
  BY PlainShape
<1>2. InReach(Displacement(b))
  BY DEF LegalAll, Legal
<1>3. address[Target1(b)] \in Nat /\ address[b] \in Nat
  BY <1>1 DEF TypeOK
<1> QED
  BY <1>1, <1>2, <1>3 DEF InReach

\* Gather, between two passes: nothing is placed yet, so the old layout is what
\* every part of the invariant speaks of.
LEMMA GatherStep ==
  ASSUME TypeOK, Plain(prog), PlainInv, Gather
  PROVE  PlainInv'
<1>1. /\ prog' = prog /\ N' = N /\ SegSet' = SegSet /\ \A i : Stmt(i)' = Stmt(i)
      /\ \A i, j : SameSeg(i, j)' = SameSeg(i, j)
      /\ \A t : StartOf(t)' = StartOf(t)
      /\ \A i : Target1(i)' = Target1(i)
  BY DEF Gather, ZeroPc, N, Stmt, SameSeg, SegSet, StartOf, Target1
<1>2. /\ phase = "gather" /\ phase' = "layout" /\ at' = 1 /\ pass' = pass
      /\ address' = address /\ final_mode' = final_mode
  BY DEF Gather, ZeroPc
<1>3. N \in Nat
  BY ProgramShape DEF TypeOK
<1>4. \A i : Size(i)' = Size(i) /\ Short(i)' = Short(i)
  BY <1>1, <1>2 DEF Size, Short
<1>5. ModeOK'
  <2>1. ModeOK
    BY DEF PlainInv
  <2> QED
    BY <1>1, <1>2, <2>1 DEF ModeOK
<1>6. \A t \in SegSet : base'[t] = StartOf(t) /\ Here(t)' = StartOf(t)
  <2>1. ASSUME NEW t \in SegSet
        PROVE  base'[t] = StartOf(t) /\ pc'[t] = 0 /\ StartOf(t) \in Int
    <3>1. pc'[t] = 0
      BY <2>1 DEF Gather, ZeroPc
    <3>2. CASE prog.o65
      BY <2>1, <3>1, <3>2 DEF PlainInv, Gather, ZeroPc, StartOf
    <3>3. CASE ~prog.o65
      <4>1. prog.segs[t].after = 0
        BY <2>1 DEF Plain, SegSet
      <4>2. prog.segs[t].base \in Nat
        BY <2>1, ProgramShape DEF TypeOK, SegDefs, SegSet
      <4>3. base'[t] = DefinedBase(t)
        BY <2>1, <3>3 DEF Gather, ZeroPc
      <4> QED
        BY <3>1, <3>3, <4>1, <4>2, <4>3 DEF DefinedBase, StartOf
    <3> QED
      BY <3>2, <3>3
  <2> QED
    BY <2>1 DEF Here
<1>7. PartialNew'
  BY <1>1, <1>2, <1>3, <1>6 DEF PartialNew
<1>8. pass = 1 => \A i \in 1 .. N : ~Short(i)
  BY <1>2 DEF PlainInv
<1>9. pass > 1 => Full
  BY <1>2 DEF PlainInv
<1>10. PartialOld'
  <2>1. ASSUME pass > 1, NEW i \in 1 .. N
        PROVE  Here(Stmt(i).seg)' <= address[i]
    <3>1. Stmt(i).seg \in SegSet
      BY ProgramShape DEF TypeOK
    <3>2. Here(Stmt(i).seg)' = StartOf(Stmt(i).seg)
      BY <1>1, <1>6, <3>1 DEF Here
    <3> QED
      BY <1>9, <2>1, <3>2 DEF Full, Floor
  <2>2. ASSUME pass > 1, NEW i \in 1 .. N, NEW j \in 1 .. N, i < j, SameSeg(i, j)
        PROVE  address[i] + Size(i) <= address[j]
    BY <1>9, <2>2 DEF Full, Spaced
  <2> QED
    BY <1>1, <1>2, <1>4, <2>1, <2>2 DEF PartialOld
<1>11. ASSUME NEW b \in 1 .. N, final_mode[b] = "EM_REL"
       PROVE  /\ b < Target1(b) => Far(b, Target1(b), 129)'
              /\ Target1(b) < b => Far(Target1(b), b, 126)'
  <2>1. pass > 1 /\ LegalAll
    BY <1>8, <1>9, <1>11 DEF Short, TypeOK, Full
  <2>2. /\ Target1(b) \in 1 .. N
        /\ address[Target1(b)] - address[b] <= 129
        /\ address[b] - address[Target1(b)] <= 126
    BY <1>11, <2>1, LegalDistance DEF PlainInv
  <2> QED
    BY <1>1, <1>2, <2>2 DEF Far
<1>12. PartialFar'
  BY <1>1, <1>2, <1>11 DEF PartialFar
<1>13. PartialByte'
  <2>1. ASSUME NEW i \in 1 .. N, final_mode[i] = "EM_ZP", Stmt(i).expr.ext = "no"
        PROVE  IsByte(Value(Stmt(i).expr))
    <3>1. pass > 1 /\ LegalAll
      BY <1>8, <1>9, <2>1 DEF Short, TypeOK, Full
    <3> QED
      BY <2>1, <3>1 DEF LegalAll, Legal
  <2>2. \A e : Value(e)' = Value(e)
    BY <1>2 DEF Value, AddressOf
  <2> QED
    BY <1>1, <1>2, <2>1, <2>2 DEF PartialByte
<1>14. prog'.o65 => \A t \in SegSet' : base'[t] = 0
  BY <1>1, <1>6 DEF StartOf
<1> QED
  BY <1>1, <1>2, <1>4, <1>5, <1>7, <1>8, <1>10, <1>12, <1>13, <1>14 DEF PlainInv, Partial

\* LayoutSized.
LEMMA SizedStep ==
  ASSUME TypeOK, Plain(prog), PlainInv, LayoutSized
  PROVE  PlainInv'
<1>1. /\ prog' = prog /\ N' = N /\ SegSet' = SegSet /\ \A i : Stmt(i)' = Stmt(i)
      /\ \A i : Target1(i)' = Target1(i)
  BY DEF LayoutSized, N, Stmt, SegSet, Target1
<1>2. /\ phase = "layout" /\ phase' = phase /\ pass' = pass /\ base' = base
      /\ final_mode' = final_mode
  BY DEF LayoutSized, AtStmt
<1>3. PartialNew /\ PartialOld /\ PartialFar /\ PartialByte /\ ModeOK
  BY <1>2 DEF PlainInv, Partial
<1>4. ModeOK' /\ (prog.o65 => \A t \in SegSet : base[t] = 0)'
  BY <1>1, <1>2, <1>3 DEF PlainInv, ModeOK
<1>5. pass = 1 => \A i \in 1 .. N : ~Short(i)
  BY <1>2 DEF PlainInv
<1>6. \A i : Short(i)' = Short(i)
  BY <1>2 DEF Short
<1>7. PartialNew'
  BY <1>3, NewStep
<1>8. PartialOld'
  BY <1>3, OldStep
<1>9. PartialFar'
  <2>1. ASSUME NEW b \in 1 .. N, final_mode[b] = "EM_REL"
        PROVE  /\ b < Target1(b) => Far(b, Target1(b), 129)'
               /\ Target1(b) < b => Far(Target1(b), b, 126)'
    <3>1. pass > 1
      BY <1>5, <2>1 DEF Short, TypeOK
    <3>2. /\ Target1(b) \in 1 .. N /\ SameSeg(Target1(b), b) /\ SameSeg(b, Target1(b))
      BY <1>3, <2>1, PlainShape
    <3>3. /\ b < Target1(b) => Far(b, Target1(b), 129)
          /\ Target1(b) < b => Far(Target1(b), b, 126)
      BY <1>3, <2>1 DEF PartialFar
    <3>4. CASE b < Target1(b)
      <4> DEFINE hi == Target1(b)
      <4>1. Far(b, hi, 129)
        BY <3>3, <3>4
      <4>2. hi \in 1 .. N /\ b < hi /\ SameSeg(b, hi) /\ hi' = hi
        BY <1>1, <3>2, <3>4
      <4>3. Far(b, hi, 129)'
        BY <1>1, <1>3, <2>1, <3>1, <4>1, <4>2, FarStep DEF Far
      <4> QED
        BY <3>2, <3>4, <4>3
    <3>5. CASE Target1(b) < b
      <4> DEFINE lo == Target1(b)
      <4>1. Far(lo, b, 126)
        BY <3>3, <3>5
      <4>2. lo \in 1 .. N /\ lo < b /\ SameSeg(lo, b) /\ lo' = lo
        BY <1>1, <3>2, <3>5
      <4>3. Far(lo, b, 126)'
        BY <1>1, <1>3, <2>1, <3>1, <4>1, <4>2, FarStep DEF Far, SameSeg
      <4> QED
        BY <3>2, <3>5, <4>3
    <3>6. CASE Target1(b) = b
      BY <1>1, <3>6
    <3> QED
      BY <3>2, <3>4, <3>5, <3>6
  <2> QED
    BY <1>1, <1>2, <2>1 DEF PartialFar
<1>10. PartialByte'
  <2>1. CASE pass > 1
    BY <1>3, <2>1, ByteStep
  <2>2. CASE pass = 1
    BY <1>1, <1>2, <1>5, <2>2 DEF PartialByte, Short
  <2> QED
    BY <2>1, <2>2 DEF TypeOK
<1> QED
  BY <1>1, <1>2, <1>4, <1>5, <1>6, <1>7, <1>8, <1>9, <1>10 DEF PlainInv, Partial

\* EndLayout: with every statement placed, both parts of a spanning distance have
\* become one, and order in the segment gives the other side of the reach.
LEMMA EndStep ==
  ASSUME TypeOK, Plain(prog), PlainInv, EndLayout
  PROVE  PlainInv'
<1>1. /\ prog' = prog /\ N' = N /\ SegSet' = SegSet /\ \A i : Stmt(i)' = Stmt(i)
      /\ \A i, j : SameSeg(i, j)' = SameSeg(i, j)
      /\ \A t : StartOf(t)' = StartOf(t)
  BY DEF EndLayout, N, Stmt, SameSeg, SegSet, StartOf
<1>2. /\ phase = "layout" /\ phase' = "relax" /\ pass' = pass /\ base' = base
      /\ final_mode' = final_mode /\ address' = address /\ at > N
  BY DEF EndLayout
<1>3. PartialNew /\ PartialOld /\ PartialFar /\ PartialByte /\ ModeOK
  BY <1>2 DEF PlainInv, Partial
<1>4. N \in Nat /\ at \in Int /\ \A i \in 1 .. N : i < at
  BY <1>2, ProgramShape DEF TypeOK
<1>5. Floor
  BY <1>3, <1>4 DEF Floor, PartialNew
<1>6. Spaced
  BY <1>3, <1>4 DEF Spaced, PartialNew
<1>7. ASSUME NEW i \in 1 .. N, final_mode[i] = "EM_REL"
      PROVE  InReach(Displacement(i))
  <2>1. /\ Target1(i) \in 1 .. N /\ SameSeg(Target1(i), i) /\ SameSeg(i, Target1(i))
        /\ Displacement(i) = address[Target1(i)] - address[i] - 2
    BY <1>3, <1>7, PlainShape
  <2>2. address[Target1(i)] \in Nat /\ address[i] \in Nat
    BY <2>1 DEF TypeOK
  <2>3. Size(i) \in Nat /\ Size(Target1(i)) \in Nat
    BY <2>1, SizeNat DEF TypeOK
  <2>4. CASE i < Target1(i)
    <3>1. address[Target1(i)] - address[i] <= 129
      BY <1>2, <1>3, <1>4, <1>7, <2>1, <2>4 DEF PartialFar, Far
    <3>2. address[i] + Size(i) <= address[Target1(i)]
      BY <1>6, <2>1, <2>4 DEF Spaced
    <3> QED
      BY <2>1, <2>2, <2>3, <3>1, <3>2 DEF InReach
  <2>5. CASE Target1(i) < i
    <3>1. address[i] - address[Target1(i)] <= 126
      BY <1>2, <1>3, <1>4, <1>7, <2>1, <2>5 DEF PartialFar, Far
    <3>2. address[Target1(i)] + Size(Target1(i)) <= address[i]
      BY <1>6, <2>1, <2>5 DEF Spaced
    <3> QED
      BY <2>1, <2>2, <2>3, <3>1, <3>2 DEF InReach
  <2>6. CASE Target1(i) = i
    BY <2>1, <2>2, <2>6 DEF InReach
  <2> QED
    BY <2>1, <2>4, <2>5, <2>6
<1>8. LegalAll
  BY <1>3, <1>7 DEF LegalAll, Legal, PartialByte
<1>9. Full'
  <2>1. \A i : Size(i)' = Size(i) /\ Legal(i)' = Legal(i)
    BY <1>1, <1>2 DEF Size, Legal, Displacement, Value, AddressOf
  <2> QED
    BY <1>1, <1>2, <1>5, <1>6, <1>8, <2>1 DEF Full, Floor, Spaced, LegalAll
<1>10. /\ ModeOK' /\ (prog.o65 => \A t \in SegSet : base[t] = 0)'
       /\ pass = 1 => \A i \in 1 .. N : ~Short(i)'
  BY <1>1, <1>2, <1>3 DEF PlainInv, ModeOK, Short
<1> QED
  BY <1>1, <1>2, <1>9, <1>10 DEF PlainInv

\* Relax: the layout stays as it is, and what becomes short was just found to fit.
LEMMA RelaxStep ==
  ASSUME TypeOK, Plain(prog), PlainInv, Relax
  PROVE  PlainInv'
<1>1. /\ prog' = prog /\ N' = N /\ SegSet' = SegSet /\ \A i : Stmt(i)' = Stmt(i)
      /\ \A i, j : SameSeg(i, j)' = SameSeg(i, j)
      /\ \A t : StartOf(t)' = StartOf(t)
  BY DEF Relax, N, Stmt, SameSeg, SegSet, StartOf
<1>2. /\ phase = "relax" /\ base' = base /\ address' = address
      /\ \/ phase' = "gather" /\ pass' = pass + 1
         \/ phase' = "emit"
  BY DEF Relax
<1>3. ModeOK /\ Floor /\ Spaced /\ LegalAll
  BY <1>2 DEF PlainInv, Full
<1>4. ASSUME NEW i \in 1 .. N
      PROVE  \/ final_mode'[i] = final_mode[i]
             \/ /\ final_mode[i] = "EM_REL_LONG" /\ final_mode'[i] = "EM_REL"
                /\ Stmt(i).expr.ext = "no" /\ InReach(Displacement(i))
             \/ /\ final_mode[i] = "EM_ABS" /\ final_mode'[i] = "EM_ZP"
                /\ Stmt(i).expr.ext = "no" => IsByte(Value(Stmt(i).expr))
  BY <1>4 DEF Relax, CanShorten, Shorter
<1>5. ModeOK'
  <2>1. ASSUME NEW i \in 1 .. N
        PROVE  /\ final_mode'[i] \in {"EM_REL_LONG", "EM_REL"} => Stmt(i).kind = "branch"
               /\ final_mode'[i] \in {"EM_ABS", "EM_ZP"} => Stmt(i).kind = "operand"
               /\ final_mode'[i] = "EM_REL" => Stmt(i).expr.ext = "no"
    BY <1>3, <1>4 DEF ModeOK
  <2> QED
    BY <1>1, <2>1 DEF ModeOK
<1>6. Spaced'
  <2>1. ASSUME NEW i \in 1 .. N, NEW j \in 1 .. N, i < j, SameSeg(i, j)
        PROVE  address[i] + Size(i)' <= address[j]
    <3>1. Size(i)' <= Size(i) /\ Size(i) \in Nat
      BY ShorterIsShorter, SizeNat DEF TypeOK
    <3>2. Size(i)' \in Nat
      <4>1. final_mode' \in [1 .. N -> Modes] /\ prog' \in Programs
        BY <1>1, TypeStep DEF TypeOK, Next
      <4>2. final_mode'[i] \in Modes
        BY <4>1
      <4>3. SizeOf[final_mode'[i]] \in Nat
        BY <4>2 DEF SizeOf, Modes
      <4>4. Stmt(i).bytes \in Nat
        BY ProgramShape DEF Stmts, TypeOK
      <4> QED
        BY <1>1, <4>3, <4>4 DEF Size
    <3>3. address[i] \in Nat /\ address[j] \in Nat
      BY DEF TypeOK
    <3>4. address[i] + Size(i) <= address[j]
      BY <1>3, <2>1 DEF Spaced
    <3> QED
      BY <3>1, <3>2, <3>3, <3>4
  <2> QED
    BY <1>1, <1>2, <2>1 DEF Spaced
<1>7. LegalAll'
  <2>1. ASSUME NEW i \in 1 .. N
        PROVE  /\ final_mode'[i] = "EM_REL" => InReach(Displacement(i))
               /\ (final_mode'[i] = "EM_ZP" /\ Stmt(i).expr.ext = "no") =>
                     IsByte(Value(Stmt(i).expr))
    BY <1>3, <1>4 DEF LegalAll, Legal
  <2>2. \A i : /\ Displacement(i)' = Displacement(i)
               /\ Value(Stmt(i).expr)' = Value(Stmt(i).expr)
    BY <1>1, <1>2 DEF Displacement, Value, AddressOf
  <2>3. \A i \in 1 .. N : Legal(i)'
    BY <1>1, <2>1, <2>2 DEF Legal
  <2> QED
    BY <1>1, <2>3 DEF LegalAll
<1>8. Full'
  BY <1>1, <1>2, <1>3, <1>6, <1>7 DEF Full, Floor
<1>9. (prog.o65 => \A t \in SegSet : base[t] = 0)'
  BY <1>1, <1>2 DEF PlainInv
<1>10. ~(pass' = 1 /\ phase' \in {"gather", "layout", "relax"}) /\ phase' # "layout"
  BY <1>2 DEF TypeOK
<1> QED
  BY <1>5, <1>8, <1>9, <1>10 DEF PlainInv

\* Emission and stuttering touch nothing the invariant speaks of.
LEMMA EmitStep ==
  ASSUME TypeOK, Plain(prog), PlainInv, Emit \/ Finish \/ UNCHANGED vars
  PROVE  PlainInv'
<1>1. /\ prog' = prog /\ N' = N /\ SegSet' = SegSet /\ \A i : Stmt(i)' = Stmt(i)
      /\ base' = base /\ address' = address /\ final_mode' = final_mode /\ pc' = pc
      /\ pass' = pass
  BY DEF Emit, Finish, vars, N, Stmt, SegSet
<1>2. \/ phase \in {"emit", "done"} /\ phase' \in {"emit", "done"}
      \/ phase' = phase /\ at' = at
  BY DEF Emit, Finish, vars
<1>3. /\ Full' = Full /\ ModeOK' = ModeOK /\ \A i : Short(i)' = Short(i)
      /\ at' = at => Partial' = Partial
  BY <1>1, SMTT(60) DEF Full, ModeOK, Short, Floor, Spaced, LegalAll, Legal, Displacement, Value,
              AddressOf, Size, StartOf, SameSeg, Partial, PartialNew, PartialOld,
              PartialFar, PartialByte, Far, Here, Target1
<1> QED
  BY <1>1, <1>2, <1>3 DEF PlainInv

\* Nothing is short at first.
LEMMA PlainInit ==
  ASSUME Init, Plain(prog)
  PROVE  PlainInv
<1>1. ASSUME NEW i \in 1 .. N
      PROVE  /\ ~Short(i)
             /\ final_mode[i] = "EM_REL_LONG" => Stmt(i).kind = "branch"
             /\ final_mode[i] = "EM_ABS" => Stmt(i).kind = "operand"
             /\ final_mode[i] # "EM_REL"
  BY <1>1 DEF Init, InitialMode, Short
<1>2. ModeOK
  BY <1>1 DEF ModeOK, Short
<1>3. \A t \in SegSet : base[t] = 0
  BY DEF Init
<1> QED
  BY <1>1, <1>2, <1>3 DEF PlainInv, Init

\* The invariant that carries the proofs below: in every state of a plain program
\* the placed part of the layout is in order, and no distance has grown.
THEOREM Invariant == Spec => []IInv
<1>1. Init => IInv
  BY TypeInit, PlainInit DEF IInv
<1>2. IInv /\ [Next]_vars => IInv'
  <2> SUFFICES ASSUME IInv, [Next]_vars
               PROVE  IInv'
    OBVIOUS
  <2>1. TypeOK /\ TypeOK'
    BY TypeStep DEF IInv
  <2>2. SUFFICES ASSUME Plain(prog)
                 PROVE  PlainInv'
    BY <2>1, ProgramFixed DEF IInv
  <2>3. PlainInv
    BY <2>2 DEF IInv
  <2>4. CASE Gather
    BY <2>1, <2>2, <2>3, <2>4, GatherStep
  <2>5. CASE LayoutSized
    BY <2>1, <2>2, <2>3, <2>5, SizedStep
  <2>6. ~LayoutOrg /\ ~LayoutRes
    <3>1. AtStmt({"org"}) \/ AtStmt({"res"}) => at \in 1 .. N
      BY <2>1, ProgramShape DEF AtStmt, TypeOK
    <3>2. ModeOK
      BY <2>3 DEF PlainInv
    <3> QED
      BY <2>1, <2>2, <3>1, <3>2, PlainShape DEF LayoutOrg, LayoutRes, Accepted, AtStmt
  <2>7. CASE EndLayout
    BY <2>1, <2>2, <2>3, <2>7, EndStep
  <2>8. CASE Relax
    BY <2>1, <2>2, <2>3, <2>8, RelaxStep
  <2>9. CASE Emit \/ Finish \/ UNCHANGED vars
    BY <2>1, <2>2, <2>3, <2>9, EmitStep
  <2> QED
    BY <2>4, <2>5, <2>6, <2>7, <2>8, <2>9 DEF Next
<1> QED
  BY <1>1, <1>2, PTL DEF Spec

\* In a plain program, whatever its size, a branch or operand that was shortened
\* fits its short form in the layout that is emitted: asm_relax never has to take
\* a decision back.
THEOREM ShortFormsStayLegal == Spec => []ShortFormsFit
<1>1. IInv => ShortFormsFit
  BY DEF IInv, PlainInv, Full, LegalAll, ShortFormsFit, LaidOut
<1> QED
  BY <1>1, Invariant, PTL

\* In a plain program no pass moves a statement up.
THEOREM AddressesNeverRise == Spec => AddressesOnlyFall
<1>1. IInv /\ [Next]_vars =>
        [Plain(prog) /\ pass > 1 => \A i \in 1 .. N : address'[i] <= address[i]]_vars
  <2> SUFFICES ASSUME IInv, Next, Plain(prog), pass > 1, NEW i \in 1 .. N
               PROVE  address'[i] <= address[i]
    BY DEF vars
  <2>1. TypeOK /\ PlainInv /\ address[i] \in Nat
    BY DEF IInv, TypeOK
  <2>2. CASE LayoutSized
    <3>1. PartialOld
      BY <2>1, <2>2 DEF PlainInv, Partial, LayoutSized, AtStmt
    <3>2. address'[at] <= address[at] /\ (i # at => address'[i] = address[i])
      BY <2>1, <2>2, <3>1, OldStep, SizedFacts
    <3> QED
      BY <2>1, <3>2
  <2>3. ~LayoutOrg /\ ~LayoutRes
    <3>1. AtStmt({"org"}) \/ AtStmt({"res"}) => at \in 1 .. N
      BY <2>1, ProgramShape DEF AtStmt, TypeOK
    <3>2. ModeOK
      BY <2>1 DEF PlainInv
    <3> QED
      BY <2>1, <3>1, <3>2, PlainShape DEF LayoutOrg, LayoutRes, Accepted, AtStmt
  <2>4. CASE Gather \/ EndLayout \/ Relax \/ Emit \/ Finish
    BY <2>1, <2>4 DEF Gather, ZeroPc, EndLayout, Relax, Emit, Finish
  <2> QED
    BY <2>2, <2>3, <2>4 DEF Next
<1> QED
  BY <1>1, Invariant, PTL DEF Spec, AddressesOnlyFall

-----------------------------------------------------------------------------
(***************************************************************************)
(* The finished layout, for any program: neighbours touch as far as the    *)
(* statements are placed, whatever .org and .res do in between, and a pass *)
(* that changed nothing leaves the sizes that it was made with.            *)
(***************************************************************************)
Sized(i) == Stmt(i).kind \notin {"org", "res"}
PlacedTouch ==
  \A i, j \in 1 .. N :
     j < at /\ Neighbours(i, j) /\ Sized(i) => address[j] = address[i] + Size(i)
PlacedEnd ==
  \A i \in 1 .. N :
     i < at /\ Sized(i) /\ (\A k \in i + 1 .. at - 1 : Stmt(k).seg # Stmt(i).seg) =>
        Here(Stmt(i).seg) = address[i] + Size(i)
TouchInv ==
  /\ phase = "layout" => PlacedTouch /\ PlacedEnd
  /\ phase = "relax" => Touching
  /\ StableLayout

\* What the layout of one statement changes, whatever its kind.
LEMMA PlaceFacts ==
  ASSUME TypeOK, LayoutSized \/ LayoutOrg \/ LayoutRes
  PROVE  /\ N \in Nat /\ at \in 1 .. N /\ at' = at + 1 /\ phase = "layout" /\ phase' = "layout"
         /\ final_mode' = final_mode /\ base' = base /\ prog' = prog
         /\ address'[at] = Here(Stmt(at).seg)
         /\ \A i \in 1 .. N : i # at => address'[i] = address[i]
         /\ \A t \in SegSet : t # Stmt(at).seg => pc'[t] = pc[t]
         /\ Sized(at) => pc'[Stmt(at).seg] = pc[Stmt(at).seg] + Size(at)
<1>1. /\ N \in Nat /\ at \in 1 .. N /\ at' = at + 1 /\ phase = "layout" /\ phase' = "layout"
      /\ final_mode' = final_mode /\ base' = base /\ prog' = prog
  BY ProgramShape DEF TypeOK, LayoutSized, LayoutOrg, LayoutRes, AtStmt
<1>2. address' = [address EXCEPT ![at] = Here(Stmt(at).seg)]
  BY DEF LayoutSized, LayoutOrg, LayoutRes, Place, Here
<1>3. Stmt(at).seg \in SegSet /\ pc \in [SegSet -> Nat] /\ address \in [1 .. N -> Nat]
  BY <1>1, ProgramShape DEF TypeOK
<1>4. pc' = pc \/ \E v : pc' = [pc EXCEPT ![Stmt(at).seg] = v]
  BY DEF LayoutSized, LayoutOrg, LayoutRes
<1>5. \A t \in SegSet : t # Stmt(at).seg => pc'[t] = pc[t]
  BY <1>3, <1>4
<1>6. Sized(at) => pc'[Stmt(at).seg] = pc[Stmt(at).seg] + Size(at)
  <2>1. Sized(at) => pc' = [pc EXCEPT ![Stmt(at).seg] = @ + Size(at)]
    BY DEF LayoutSized, LayoutOrg, LayoutRes, AtStmt, Sized
  <2> QED
    BY <1>3, <2>1
<1>7. address'[at] = Here(Stmt(at).seg) /\ \A i \in 1 .. N : i # at => address'[i] = address[i]
  BY <1>1, <1>2, <1>3
<1> QED
  BY <1>1, <1>5, <1>6, <1>7

LEMMA TouchPlace ==
  ASSUME TypeOK, TouchInv, LayoutSized \/ LayoutOrg \/ LayoutRes
  PROVE  TouchInv'
<1>1. /\ N \in Nat /\ at \in 1 .. N /\ at' = at + 1 /\ phase = "layout" /\ phase' = "layout"
      /\ final_mode' = final_mode /\ base' = base /\ prog' = prog
      /\ address'[at] = Here(Stmt(at).seg)
      /\ \A i \in 1 .. N : i # at => address'[i] = address[i]
      /\ \A t \in SegSet : t # Stmt(at).seg => pc'[t] = pc[t]
      /\ Sized(at) => pc'[Stmt(at).seg] = pc[Stmt(at).seg] + Size(at)
  BY PlaceFacts
<1>2. /\ N' = N /\ \A i : Stmt(i)' = Stmt(i) /\ Size(i)' = Size(i) /\ Sized(i)' = Sized(i)
      /\ \A i, j : Neighbours(i, j)' = Neighbours(i, j)
  BY <1>1 DEF N, Stmt, Size, Sized, Neighbours
<1>3. PlacedTouch /\ PlacedEnd
  BY <1>1 DEF TouchInv
<1>4. /\ \A i \in 1 .. N : Stmt(i).seg \in SegSet /\ Size(i) \in Nat /\ address[i] \in Nat
      /\ \A t \in SegSet : base[t] \in Nat /\ pc[t] \in Nat
  BY ProgramShape, SizeNat DEF TypeOK
<1>5. ASSUME NEW i \in 1 .. N, NEW j \in 1 .. N, j < at', Neighbours(i, j), Sized(i)
      PROVE  address'[j] = address'[i] + Size(i)
  <2>1. i < j /\ Stmt(i).seg = Stmt(j).seg /\ \A k \in i + 1 .. j - 1 : Stmt(k).seg # Stmt(i).seg
    BY <1>5 DEF Neighbours
  <2>2. i # at /\ i < at /\ address'[i] = address[i]
    BY <1>1, <1>5, <2>1
  <2>3. CASE j = at
    <3>1. Here(Stmt(i).seg) = address[i] + Size(i)
      BY <1>3, <1>5, <2>1, <2>2, <2>3 DEF PlacedEnd
    <3> QED
      BY <1>1, <2>1, <2>2, <2>3, <3>1
  <2>4. CASE j # at
    <3>1. j < at /\ address'[j] = address[j]
      BY <1>1, <1>5, <2>4
    <3> QED
      BY <1>3, <1>5, <2>2, <3>1 DEF PlacedTouch
  <2> QED
    BY <2>3, <2>4
<1>6. ASSUME NEW i \in 1 .. N, i < at', Sized(i),
             \A k \in i + 1 .. at' - 1 : Stmt(k).seg # Stmt(i).seg
      PROVE  base[Stmt(i).seg] + pc'[Stmt(i).seg] = address'[i] + Size(i)
  <2>1. CASE i = at
    <3>1. pc'[Stmt(i).seg] = pc[Stmt(i).seg] + Size(i) /\ address'[i] = Here(Stmt(i).seg)
      BY <1>1, <1>6, <2>1
    <3>2. base[Stmt(i).seg] \in Nat /\ pc[Stmt(i).seg] \in Nat /\ Size(i) \in Nat
      BY <1>4
    <3> QED
      BY <3>1, <3>2 DEF Here
  <2>2. CASE i # at
    <3>1. i < at /\ address'[i] = address[i]
      BY <1>1, <1>6, <2>2
    <3>2. at \in i + 1 .. at' - 1 /\ \A k \in i + 1 .. at - 1 : k \in i + 1 .. at' - 1
      BY <1>1, <3>1
    <3>3. Stmt(at).seg # Stmt(i).seg /\ Here(Stmt(i).seg) = address[i] + Size(i)
      BY <1>3, <1>6, <3>1, <3>2 DEF PlacedEnd
    <3>4. pc'[Stmt(i).seg] = pc[Stmt(i).seg]
      BY <1>1, <1>4, <3>3
    <3> QED
      BY <3>1, <3>3, <3>4 DEF Here
  <2> QED
    BY <2>1, <2>2
<1>7. PlacedTouch'
  BY <1>2, <1>5 DEF PlacedTouch
<1>8. PlacedEnd'
  BY <1>1, <1>2, <1>6 DEF PlacedEnd, Here
<1> QED
  BY <1>1, <1>7, <1>8 DEF TouchInv, StableLayout, Relaxed

LEMMA TouchStep == TypeOK /\ TouchInv /\ [Next]_vars => TouchInv'
<1> SUFFICES ASSUME TypeOK, TouchInv, [Next]_vars
             PROVE  TouchInv'
  OBVIOUS
<1>0. N' = N /\ N \in Nat /\ \A i : Stmt(i)' = Stmt(i)
  BY ProgramFixed, ProgramShape DEF TypeOK
<1>1. CASE Gather
  <2>1. phase' = "layout" /\ at' = 1
    BY <1>1 DEF Gather
  <2>2. \A i \in 1 .. N' : ~(i < at')
    BY <1>0, <2>1
  <2> QED
    BY <2>1, <2>2 DEF TouchInv, PlacedTouch, PlacedEnd, StableLayout, Relaxed
<1>2. CASE LayoutSized \/ LayoutOrg \/ LayoutRes
  BY <1>2, TouchPlace
<1>3. CASE EndLayout
  <2>1. /\ phase = "layout" /\ phase' = "relax" /\ at > N /\ address' = address
        /\ final_mode' = final_mode /\ at \in Nat
    BY <1>3 DEF EndLayout, TypeOK
  <2>2. Touching
    <3>1. \A j \in 1 .. N : j < at
      BY <1>0, <2>1
    <3> QED
      BY <2>1, <3>1 DEF TouchInv, PlacedTouch, Touching, Sized
  <2>3. Touching'
    BY <1>0, <2>1, <2>2 DEF Touching, Neighbours, Size
  <2> QED
    BY <2>1, <2>3 DEF TouchInv, StableLayout, Relaxed
<1>4. CASE Relax
  <2>1. /\ phase' \in {"gather", "emit"} /\ address' = address /\ Touching
        /\ ~changed' => \A i \in 1 .. N : ~CanShorten(i)
        /\ final_mode' = [i \in 1 .. N |-> IF CanShorten(i) THEN Shorter(final_mode[i])
                                           ELSE final_mode[i]]
    BY <1>4 DEF Relax, TouchInv
  <2>2. ~changed' => \A i \in 1 .. N : final_mode'[i] = final_mode[i]
    BY <2>1
  <2>3. ~changed' => \A i \in 1 .. N : Size(i)' = Size(i)
    BY <1>0, <2>2 DEF Size
  <2>4. ~changed' => Touching'
    BY <1>0, <2>1, <2>3 DEF Touching, Neighbours
  <2> QED
    BY <2>1, <2>4 DEF TouchInv, StableLayout
<1>5. CASE Emit \/ Finish
  <2>1. /\ Relaxed /\ phase' \notin {"layout", "relax"} /\ address' = address
        /\ final_mode' = final_mode /\ changed' = changed
    BY <1>5 DEF Emit, Finish, Relaxed
  <2>2. Touching => Touching'
    BY <1>0, <2>1 DEF Touching, Neighbours, Size
  <2> QED
    BY <2>1, <2>2 DEF TouchInv, StableLayout
<1>6. CASE UNCHANGED vars
  <2>1. /\ phase' = phase /\ at' = at /\ address' = address /\ base' = base /\ pc' = pc
        /\ final_mode' = final_mode /\ changed' = changed
    BY <1>6 DEF vars
  <2>2. PlacedTouch => PlacedTouch'
    BY <1>0, <2>1 DEF PlacedTouch, Neighbours, Size, Sized
  <2>3. PlacedEnd => PlacedEnd'
    BY <1>0, <2>1 DEF PlacedEnd, Size, Sized, Here
  <2>4. Touching => Touching'
    BY <1>0, <2>1 DEF Touching, Neighbours, Size
  <2> QED
    BY <2>1, <2>2, <2>3, <2>4 DEF TouchInv, StableLayout, Relaxed
<1> QED
  BY <1>1, <1>2, <1>3, <1>4, <1>5, <1>6 DEF Next

\* When asm_relax ends because nothing changed, the addresses that are emitted
\* agree with the sizes that are emitted, for every program it can be given: also
\* one whose .org and .res move the statements behind them.
THEOREM LayoutIsStable == Spec => []StableLayout
<1>1. Init => TypeOK /\ TouchInv
  BY TypeInit DEF Init, TouchInv, StableLayout, Relaxed
<1>2. TypeOK /\ TouchInv /\ [Next]_vars => TypeOK' /\ TouchInv'
  BY TypeStep, TouchStep
<1>3. TouchInv => StableLayout
  BY DEF TouchInv
<1> QED
  BY <1>1, <1>2, <1>3, PTL DEF Spec

-----------------------------------------------------------------------------
(***************************************************************************)
(* The forms asm_relax settles on are the least consistent ones.  Every    *)
(* layout of a plain program is the reference layout of the statements     *)
(* that are short in it.  In a layout with more short statements distances *)
(* inside a segment, and addresses, are smaller, so that whatever fits its *)
(* short form in one fits it in the other: relaxation only ever shortens   *)
(* what every consistent choice shortens.                                  *)
(***************************************************************************)
Candidates == {i \in 1 .. N : Stmt(i).kind \in {"branch", "operand"}}

IsFilled(f, S, m) ==
  f = [n \in 0 .. m |->
         IF n = 0 THEN [s \in SegSet |-> 0]
         ELSE [s \in SegSet |-> f[n - 1][s] + (IF Stmt(n).seg = s THEN SizeWith(S, n) ELSE 0)]]

LEMMA FilledExists ==
  ASSUME NEW S, NEW m \in Nat
  PROVE  \E f : IsFilled(f, S, m)
<1> DEFINE Bad == {n \in Nat : ~ \E f : IsFilled(f, S, n)}
<1>1. SUFFICES ASSUME Bad # {} PROVE FALSE
  OBVIOUS
<1>2. PICK n \in Bad : \A k \in Bad : n <= k
  <2> HIDE DEF Bad
  <2>1. Bad \subseteq Nat
    BY DEF Bad
  <2> QED
    BY <1>1, <2>1, FirstIn
<1>3. n # 0
  <2>1. IsFilled([k \in 0 .. 0 |-> [s \in SegSet |-> 0]], S, 0)
    BY DEF IsFilled
  <2> QED
    BY <2>1
<1>4. PICK f : IsFilled(f, S, n - 1)
  <2>1. n - 1 \in Nat /\ ~(n <= n - 1)
    BY <1>3
  <2> QED
    BY <1>2, <2>1
<1> DEFINE row(g, k) ==
             IF k = 0 THEN [s \in SegSet |-> 0]
             ELSE [s \in SegSet |-> g[k - 1][s] + (IF Stmt(k).seg = s THEN SizeWith(S, k) ELSE 0)]
           more == [k \in 0 .. n |-> IF k < n THEN f[k] ELSE row(f, n)]
<1>5. \A k \in 0 .. n - 1 : f[k] = row(f, k)
  BY <1>4 DEF IsFilled
<1>6. \A k \in 0 .. n : more[k] = row(more, k)
  <2> TAKE k \in 0 .. n
  <2>1. k # 0 => more[k - 1] = f[k - 1]
    <3> HIDE DEF row
    <3> QED
      OBVIOUS
  <2>2. row(more, k) = row(f, k)
    <3> HIDE DEF more
    <3> QED
      BY <2>1
  <2>3. more[k] = row(f, k)
    <3> HIDE DEF row
    <3> QED
      BY <1>5
  <2> QED
    BY <2>2, <2>3
<1>7. IsFilled(more, S, n)
  <2>1. more = [k \in 0 .. n |-> more[k]]
    OBVIOUS
  <2>2. [k \in 0 .. n |-> row(more, k)] = [k \in 0 .. n |-> more[k]]
    <3> HIDE DEF more, row
    <3> QED
      BY <1>6
  <2> HIDE DEF more
  <2> QED
    BY <2>1, <2>2 DEF IsFilled
<1> QED
  BY <1>7

\* How the reference layout goes on from one statement to the next.
LEMMA FilledLaw ==
  ASSUME prog \in Programs, NEW S, NEW s \in SegSet
  PROVE  /\ FilledWith(S)[0][s] = 0
         /\ \A n \in 1 .. N : FilledWith(S)[n][s] =
              FilledWith(S)[n - 1][s] + (IF Stmt(n).seg = s THEN SizeWith(S, n) ELSE 0)
<1>1. N \in Nat
  BY ProgramShape
<1> DEFINE f == CHOOSE g : IsFilled(g, S, N)
<1>2. IsFilled(f, S, N)
  <2>1. \E g : IsFilled(g, S, N)
    BY <1>1, FilledExists
  <2> QED
    BY <2>1
<1>3. FilledWith(S) = f
  BY DEF FilledWith, IsFilled
<1> HIDE DEF f
<1>4. f[0][s] = 0
  BY <1>1, <1>2 DEF IsFilled
<1>5. ASSUME NEW n \in 1 .. N
      PROVE  f[n][s] = f[n - 1][s] + (IF Stmt(n).seg = s THEN SizeWith(S, n) ELSE 0)
  <2>1. n \in 0 .. N /\ n # 0
    BY <1>1
  <2>2. f[n] = [t \in SegSet |-> f[n - 1][t] + (IF Stmt(n).seg = t THEN SizeWith(S, n) ELSE 0)]
    BY <1>2, <2>1 DEF IsFilled
  <2> QED
    BY <2>2
<1> QED
  BY <1>3, <1>4, <1>5

\* A short form takes less room than the long one.
LEMMA SizeLess ==
  ASSUME prog \in Programs, NEW S, NEW T, S \subseteq T, T \subseteq Candidates, NEW i \in 1 .. N
  PROVE  SizeWith(S, i) \in Nat /\ SizeWith(T, i) \in Nat /\ SizeWith(T, i) <= SizeWith(S, i)
<1>1. Stmt(i).bytes \in Nat
  BY ProgramShape DEF Stmts
<1>2. i \in T => Stmt(i).kind \in {"branch", "operand"}
  BY DEF Candidates
<1>3. i \in S => i \in T
  OBVIOUS
<1>4. /\ SizeOf[FormWith(S, i)] \in Nat /\ SizeOf[FormWith(T, i)] \in Nat
      /\ SizeOf[FormWith(T, i)] <= SizeOf[FormWith(S, i)]
  <2>1. CASE Stmt(i).kind = "branch"
    BY <1>3, <2>1 DEF FormWith, InitialMode, Shorter, SizeOf
  <2>2. CASE Stmt(i).kind = "operand"
    BY <1>3, <2>2 DEF FormWith, InitialMode, Shorter, SizeOf
  <2>3. CASE Stmt(i).kind \notin {"branch", "operand"}
    BY <1>2, <1>3, <2>3 DEF FormWith, InitialMode, SizeOf
  <2> QED
    BY <2>1, <2>2, <2>3
<1> QED
  BY <1>1, <1>4 DEF SizeWith

\* With more short statements, what lies between two places of a segment shrinks.
LEMMA FilledLess ==
  ASSUME prog \in Programs, NEW S, NEW T, S \subseteq T, T \subseteq Candidates,
         NEW s \in SegSet, NEW m \in 0 .. N, NEW n \in m .. N,
         FilledWith(S)[m][s] \in Nat, FilledWith(T)[m][s] \in Nat
  PROVE  /\ FilledWith(S)[n][s] \in Nat /\ FilledWith(T)[n][s] \in Nat
         /\ FilledWith(T)[m][s] <= FilledWith(T)[n][s]
         /\ FilledWith(T)[n][s] - FilledWith(T)[m][s] <= FilledWith(S)[n][s] - FilledWith(S)[m][s]
<1> DEFINE f(k) == FilledWith(S)[k][s]
           g(k) == FilledWith(T)[k][s]
           Good(k) == f(k) \in Nat /\ g(k) \in Nat /\ g(m) <= g(k) /\ g(k) - g(m) <= f(k) - f(m)
           Bad == {k \in m .. N : ~Good(k)}
<1>0. N \in Nat
  BY ProgramShape
<1>1. \A k \in 1 .. N : /\ f(k) = f(k - 1) + (IF Stmt(k).seg = s THEN SizeWith(S, k) ELSE 0)
                        /\ g(k) = g(k - 1) + (IF Stmt(k).seg = s THEN SizeWith(T, k) ELSE 0)
  BY FilledLaw
<1>2. f(m) \in Nat /\ g(m) \in Nat
  OBVIOUS
<1> HIDE DEF f, g
<1>3. SUFFICES ASSUME Bad # {} PROVE FALSE
  BY <1>3 DEF f, g
<1>4. PICK k \in Bad : \A j \in Bad : k <= j
  <2>1. Bad \subseteq Nat
    BY <1>0
  <2> HIDE DEF Bad
  <2> QED
    BY <1>3, <2>1, FirstIn
<1>5. k # m
  <2>1. Good(m)
    BY <1>2
  <2> HIDE DEF Good
  <2> QED
    BY <1>4, <2>1
<1>6. k \in 1 .. N /\ k - 1 \in m .. N /\ ~(k <= k - 1) /\ ~Good(k)
  <2> HIDE DEF Good
  <2> QED
    BY <1>0, <1>4, <1>5
<1>7. Good(k - 1)
  <2> HIDE DEF Good
  <2> QED
    BY <1>4, <1>6
<1>8. SizeWith(S, k) \in Nat /\ SizeWith(T, k) \in Nat /\ SizeWith(T, k) <= SizeWith(S, k)
  BY <1>6, SizeLess
<1>9. CASE Stmt(k).seg = s
  <2>1. f(k) = f(k - 1) + SizeWith(S, k) /\ g(k) = g(k - 1) + SizeWith(T, k)
    BY <1>1, <1>6, <1>9
  <2> QED
    BY <1>2, <1>6, <1>7, <1>8, <2>1
<1>10. CASE Stmt(k).seg # s
  <2>1. f(k) = f(k - 1) + 0 /\ g(k) = g(k - 1) + 0
    BY <1>1, <1>6, <1>10
  <2> QED
    BY <1>2, <1>6, <1>7, <2>1
<1> QED
  BY <1>9, <1>10

\* The same for the addresses of two statements, and for one address.
LEMMA AddressLess ==
  ASSUME TypeOK, NEW S, NEW T, S \subseteq T, T \subseteq Candidates,
         NEW i \in 1 .. N, NEW j \in i .. N, SameSeg(i, j)
  PROVE  /\ AddressWith(S, i) \in Nat /\ AddressWith(T, i) \in Nat
         /\ AddressWith(S, j) \in Nat /\ AddressWith(T, j) \in Nat
         /\ AddressWith(T, i) <= AddressWith(S, i)
         /\ AddressWith(T, i) <= AddressWith(T, j)
         /\ AddressWith(T, j) - AddressWith(T, i) <= AddressWith(S, j) - AddressWith(S, i)
<1> DEFINE s == Stmt(i).seg
<1>0. /\ N \in Nat /\ s \in SegSet /\ prog \in Programs /\ Stmt(j).seg = s
      /\ base[s] \in Nat /\ j \in 1 .. N
  BY ProgramShape DEF TypeOK, SameSeg
<1>1. FilledWith(S)[0][s] = 0 /\ FilledWith(T)[0][s] = 0
  BY <1>0, FilledLaw
<1>2. i - 1 \in 0 .. N /\ j - 1 \in i - 1 .. N /\ 0 \in 0 .. N
  BY <1>0
<1>3. /\ FilledWith(S)[i - 1][s] \in Nat /\ FilledWith(T)[i - 1][s] \in Nat
      /\ FilledWith(T)[i - 1][s] <= FilledWith(S)[i - 1][s]
  <2>1. /\ FilledWith(S)[i - 1][s] \in Nat /\ FilledWith(T)[i - 1][s] \in Nat
        /\ FilledWith(T)[i - 1][s] - 0 <= FilledWith(S)[i - 1][s] - 0
    BY <1>0, <1>1, <1>2, FilledLess
  <2> QED
    BY <2>1
<1>4. /\ FilledWith(S)[j - 1][s] \in Nat /\ FilledWith(T)[j - 1][s] \in Nat
      /\ FilledWith(T)[i - 1][s] <= FilledWith(T)[j - 1][s]
      /\ FilledWith(T)[j - 1][s] - FilledWith(T)[i - 1][s]
           <= FilledWith(S)[j - 1][s] - FilledWith(S)[i - 1][s]
  BY <1>0, <1>2, <1>3, FilledLess
<1>5. /\ AddressWith(S, i) = base[s] + FilledWith(S)[i - 1][s]
      /\ AddressWith(T, i) = base[s] + FilledWith(T)[i - 1][s]
      /\ AddressWith(S, j) = base[s] + FilledWith(S)[j - 1][s]
      /\ AddressWith(T, j) = base[s] + FilledWith(T)[j - 1][s]
  BY <1>0 DEF AddressWith
<1> QED
  BY <1>0, <1>3, <1>4, <1>5

\* What fits its short form in one layout fits it in any that shortens more.
LEMMA FitsMore ==
  ASSUME TypeOK, Plain(prog), NEW S, NEW T, S \subseteq T, T \subseteq Candidates,
         NEW i \in 1 .. N, FitsWith(S, i)
  PROVE  FitsWith(T, i)
<1> DEFINE e == Stmt(i).expr
           L(U) == IF e.plus = 0 THEN 0 ELSE AddressWith(U, e.plus)
           AsBranch(U) == /\ Stmt(i).kind = "branch" /\ e.ext = "no"
                          /\ InReach((e.off + L(U)) - (AddressWith(U, i) + 2))
           AsByte(U) == /\ Stmt(i).kind = "operand" /\ Stmt(i).zp
                        /\ e.ext = "zp" \/ (e.ext = "no" /\ IsByte(e.off + L(U)))
<1>0. /\ N \in Nat /\ e.plus \in 0 .. N /\ DOMAIN prog.stmts = 1 .. N /\ e.off \in Int
  <2>1. N \in Nat /\ Stmt(i) \in Stmts /\ e.plus \in 0 .. N
    BY ProgramShape DEF TypeOK
  <2>2. DOMAIN prog.stmts = 1 .. N
    BY ProgramsAssumption DEF TypeOK, WellFormed, N
  <2> QED
    BY <2>1, <2>2 DEF Stmts, Exprs
<1>1. ASSUME NEW U PROVE FitsWith(U, i) <=> AsBranch(U) \/ AsByte(U)
  BY DEF FitsWith
<1>2. e.plus # 0 => L(S) = AddressWith(S, e.plus) /\ L(T) = AddressWith(T, e.plus)
  OBVIOUS
<1>3. e.plus = 0 => L(S) = 0 /\ L(T) = 0
  OBVIOUS
<1>4. Stmt(i).kind = "branch" /\ e.ext = "no" => e.plus # 0 /\ e.off = 0 /\ SameSeg(e.plus, i)
  BY <1>0 DEF Plain, Stmt, SameSeg
<1>5. Stmt(i).kind = "operand" => e.off >= 0
  BY <1>0 DEF Plain, Stmt
<1> HIDE DEF L, e
<1>6. CASE AsBranch(S)
  <2> DEFINE t == e.plus
  <2>1. t \in 1 .. N /\ e.off = 0 /\ SameSeg(t, i) /\ SameSeg(i, t)
    BY <1>0, <1>4, <1>6 DEF SameSeg
  <2>2. /\ AddressWith(S, i) \in Nat /\ AddressWith(T, i) \in Nat
        /\ AddressWith(S, t) \in Nat /\ AddressWith(T, t) \in Nat
        /\ \/ /\ AddressWith(T, i) <= AddressWith(T, t)
              /\ AddressWith(T, t) - AddressWith(T, i) <= AddressWith(S, t) - AddressWith(S, i)
           \/ /\ AddressWith(T, t) <= AddressWith(T, i)
              /\ AddressWith(T, i) - AddressWith(T, t) <= AddressWith(S, i) - AddressWith(S, t)
    <3>1. t \in i .. N \/ i \in t .. N
      BY <1>0, <2>1
    <3>2. CASE t \in i .. N
      BY <2>1, <3>2, AddressLess
    <3>3. CASE i \in t .. N
      BY <2>1, <3>3, AddressLess
    <3> QED
      BY <3>1, <3>2, <3>3
  <2>3. L(S) = AddressWith(S, t) /\ L(T) = AddressWith(T, t)
    BY <1>2, <1>4, <1>6
  <2>4. InReach((e.off + L(S)) - (AddressWith(S, i) + 2))
    BY <1>6
  <2>5. InReach((e.off + L(T)) - (AddressWith(T, i) + 2))
    BY <2>1, <2>2, <2>3, <2>4 DEF InReach
  <2>6. AsBranch(T)
    BY <1>6, <2>5
  <2> QED
    BY <1>1, <2>6
<1>7. CASE AsByte(S)
  <2>1. L(S) \in Nat /\ L(T) \in Nat /\ L(T) <= L(S)
    <3>1. CASE e.plus = 0
      BY <1>3, <3>1
    <3>2. CASE e.plus # 0
      <4>1. e.plus \in 1 .. N /\ e.plus \in e.plus .. N /\ SameSeg(e.plus, e.plus)
        BY <1>0, <3>2 DEF SameSeg
      <4>2. /\ AddressWith(S, e.plus) \in Nat /\ AddressWith(T, e.plus) \in Nat
            /\ AddressWith(T, e.plus) <= AddressWith(S, e.plus)
        BY <4>1, AddressLess
      <4> QED
        BY <1>2, <3>2, <4>2
    <3> QED
      BY <3>1, <3>2
  <2>2. e.off >= 0 /\ e.off \in Int
    BY <1>0, <1>5, <1>7
  <2>3. IsByte(e.off + L(S)) => IsByte(e.off + L(T))
    BY <2>1, <2>2 DEF IsByte
  <2>4. AsByte(T)
    BY <1>7, <2>3
  <2> QED
    BY <1>1, <2>4
<1> QED
  BY <1>1, <1>6, <1>7

\* The form of a statement tells whether it is short, and only branches and operands are.
FormsOK ==
  \A i \in 1 .. N : /\ final_mode[i] = FormWith(ShortSet, i)
                    /\ Short(i) => Stmt(i).kind \in {"branch", "operand"}
Laid == \A i \in 1 .. N : address[i] = AddressWith(ShortSet, i)
LaidSoFar ==
  /\ \A i \in 1 .. N : i < at => address[i] = AddressWith(ShortSet, i)
  /\ \A s \in SegSet : pc[s] = FilledWith(ShortSet)[at - 1][s]
BaseOK == \A s \in SegSet : base[s] = StartOf(s)
LeastSoFar == \A S \in SUBSET Candidates : Closed(S) => ShortSet \subseteq S

LeastPlain ==
  /\ ~(phase = "gather" /\ pass = 1) => BaseOK
  /\ phase = "gather" /\ pass = 1 => ShortSet = {}
  /\ phase = "layout" => LaidSoFar
  /\ phase = "relax" => Laid
  /\ Relaxed /\ ~changed => Laid /\ \A i \in 1 .. N : ~CanShorten(i)
  /\ LeastSoFar
LeastInv == FormsOK /\ (Plain(prog) => LeastPlain)

\* asm_relax shortens what fits its short form in the reference layout, and no more.
LEMMA CanShortenFits ==
  ASSUME TypeOK, Plain(prog), FormsOK, Laid, NEW i \in 1 .. N
  PROVE  /\ CanShorten(i) => FitsWith(ShortSet, i) /\ i \notin ShortSet
         /\ FitsWith(ShortSet, i) /\ i \notin ShortSet => CanShorten(i)
         /\ CanShorten(i) => i \in Candidates
<1> DEFINE e == Stmt(i).expr
           v == e.off + (IF e.plus = 0 THEN 0 ELSE AddressWith(ShortSet, e.plus))
<1>0. /\ N \in Nat /\ e \in Exprs /\ e.plus \in 0 .. N /\ DOMAIN prog.stmts = 1 .. N
      /\ e.off \in Int /\ Stmt(i).kind \in {"bytes", "branch", "operand"}
  <2>1. /\ N \in Nat /\ Stmt(i) \in Stmts /\ e.plus \in 0 .. N
    BY ProgramShape DEF TypeOK
  <2>2. DOMAIN prog.stmts = 1 .. N
    BY ProgramsAssumption DEF TypeOK, WellFormed, N
  <2>3. Stmt(i).kind \in {"bytes", "branch", "operand"}
    BY <2>2 DEF Plain, Stmt
  <2> QED
    BY <2>1, <2>2, <2>3 DEF Stmts, Exprs
<1>1. final_mode[i] = IF i \in ShortSet THEN Shorter(InitialMode(Stmt(i).kind))
                      ELSE InitialMode(Stmt(i).kind)
  BY DEF FormsOK, FormWith
<1>2. i \in ShortSet <=> Short(i)
  BY DEF ShortSet
<1>3. /\ final_mode[i] = "EM_REL_LONG" <=> Stmt(i).kind = "branch" /\ i \notin ShortSet
      /\ final_mode[i] = "EM_ABS" <=> Stmt(i).kind = "operand" /\ i \notin ShortSet
  BY <1>0, <1>1, <1>2 DEF InitialMode, Shorter, Short
<1>4. ASSUME Stmt(i).kind = "operand" \/ (Stmt(i).kind = "branch" /\ e.ext = "no")
      PROVE  Value(e) = v
  <2>1. e.minus = 0
    BY <1>0, <1>4 DEF Plain, Stmt
  <2>2. CASE e.plus = 0
    BY <1>0, <2>1, <2>2 DEF Value, AddressOf
  <2>3. CASE e.plus # 0
    <3>1. e.plus \in 1 .. N
      BY <1>0, <2>3
    <3>2. address[e.plus] = AddressWith(ShortSet, e.plus) /\ address[e.plus] \in Nat
      BY <3>1 DEF Laid, TypeOK
    <3> QED
      BY <1>0, <2>1, <2>3, <3>2 DEF Value, AddressOf
  <2> QED
    BY <2>2, <2>3
<1>5. address[i] = AddressWith(ShortSet, i)
  BY DEF Laid
<1> HIDE DEF v
<1>6. CanShorten(i) <=> i \notin ShortSet /\ FitsWith(ShortSet, i)
  <2>1. CanShorten(i) <=>
          \/ /\ Stmt(i).kind = "branch" /\ i \notin ShortSet
             /\ e.ext = "no" /\ InReach(v - (AddressWith(ShortSet, i) + 2))
          \/ /\ Stmt(i).kind = "operand" /\ i \notin ShortSet /\ Stmt(i).zp
             /\ (e.ext = "no" /\ IsByte(v)) \/ e.ext = "zp"
    BY <1>3, <1>4, <1>5 DEF CanShorten, Displacement
  <2>2. FitsWith(ShortSet, i) <=>
          \/ Stmt(i).kind = "branch" /\ e.ext = "no" /\ InReach(v - (AddressWith(ShortSet, i) + 2))
          \/ Stmt(i).kind = "operand" /\ Stmt(i).zp /\ (e.ext = "zp" \/ (e.ext = "no" /\ IsByte(v)))
    BY DEF FitsWith, v
  <2> QED
    BY <2>1, <2>2
<1>7. CanShorten(i) => i \in Candidates
  BY <1>3 DEF CanShorten, Candidates
<1> QED
  BY <1>6, <1>7

\* The reference does not change from one state to the next.
LEMMA ReferenceFixed ==
  ASSUME [Next]_vars, NEW S
  PROVE  /\ FilledWith(S)' = FilledWith(S) /\ Candidates' = Candidates
         /\ \A i : SizeWith(S, i)' = SizeWith(S, i) /\ FormWith(S, i)' = FormWith(S, i)
<1>1. N' = N /\ SegSet' = SegSet /\ \A i : Stmt(i)' = Stmt(i)
  BY ProgramFixed
<1>2. \A i : SizeWith(S, i)' = SizeWith(S, i) /\ FormWith(S, i)' = FormWith(S, i)
  BY <1>1 DEF SizeWith, FormWith
<1>3. Candidates' = Candidates
  BY <1>1 DEF Candidates
<1>4. FilledWith(S)' = FilledWith(S)
  BY <1>1, <1>2, SMTT(60) DEF FilledWith
<1> QED
  BY <1>2, <1>3, <1>4

LEMMA ClosedFixed ==
  ASSUME TypeOK, [Next]_vars, \A s \in SegSet : base'[s] = base[s], NEW S
  PROVE  /\ Closed(S)' <=> Closed(S)
         /\ \A i \in 1 .. N : AddressWith(S, i)' = AddressWith(S, i)
<1>1. /\ N' = N /\ N \in Nat /\ \A i : Stmt(i)' = Stmt(i)
      /\ \A i \in 1 .. N : Stmt(i).seg \in SegSet /\ Stmt(i).expr.plus \in 0 .. N
  BY ProgramFixed, ProgramShape DEF TypeOK
<1>2. FilledWith(S)' = FilledWith(S)
  BY ReferenceFixed
<1>3. \A i \in 1 .. N : AddressWith(S, i)' = AddressWith(S, i)
  BY <1>1, <1>2 DEF AddressWith
<1>4. ASSUME NEW i \in 1 .. N
      PROVE  FitsWith(S, i)' <=> FitsWith(S, i)
  <2>1. Stmt(i).expr.plus # 0 =>
          AddressWith(S, Stmt(i).expr.plus)' = AddressWith(S, Stmt(i).expr.plus)
    <3>1. Stmt(i).expr.plus # 0 => Stmt(i).expr.plus \in 1 .. N
      BY <1>1
    <3>2. Stmt(i).expr.plus # 0 => Stmt(Stmt(i).expr.plus).seg \in SegSet
      BY <1>1, <3>1
    <3> QED
      BY <1>1, <1>2, <3>2 DEF AddressWith
  <2>2. Stmt(i)' = Stmt(i) /\ AddressWith(S, i)' = AddressWith(S, i)
    BY <1>1, <1>3
  <2> QED
    BY <2>1, <2>2 DEF FitsWith
<1>5. Closed(S)' <=> Closed(S)
  BY <1>1, <1>4 DEF Closed
<1> QED
  BY <1>3, <1>5

\* The form and the size a statement has are those of the reference.
LEMMA SizeIsWith ==
  ASSUME FormsOK, NEW i \in 1 .. N
  PROVE  Size(i) = SizeWith(ShortSet, i)
BY DEF FormsOK, Size, SizeWith

LEMMA FormsStep == TypeOK /\ FormsOK /\ [Next]_vars => FormsOK'
<1> SUFFICES ASSUME TypeOK, FormsOK, [Next]_vars
             PROVE  FormsOK'
  OBVIOUS
<1>1. N' = N /\ \A i : Stmt(i)' = Stmt(i)
  BY ProgramFixed
<1>2. CASE final_mode' = final_mode
  <2>1. ShortSet' = ShortSet /\ \A i : Short(i)' = Short(i)
    BY <1>1, <1>2 DEF ShortSet, Short
  <2>2. \A i : FormWith(ShortSet, i)' = FormWith(ShortSet, i)
    BY <1>1, <2>1 DEF FormWith
  <2> QED
    BY <1>1, <1>2, <2>1, <2>2 DEF FormsOK
<1>3. CASE Relax
  <2>1. ASSUME NEW i \in 1 .. N
        PROVE  /\ final_mode'[i] = FormWith(ShortSet', i)
               /\ Short(i)' => Stmt(i).kind \in {"branch", "operand"}
    <3>1. /\ final_mode[i] = IF Short(i) THEN Shorter(InitialMode(Stmt(i).kind))
                             ELSE InitialMode(Stmt(i).kind)
          /\ Short(i) => Stmt(i).kind \in {"branch", "operand"}
      BY DEF FormsOK, FormWith, ShortSet
    <3>2. final_mode'[i] = IF CanShorten(i) THEN Shorter(final_mode[i]) ELSE final_mode[i]
      BY <1>3 DEF Relax
    <3>3. CanShorten(i) => final_mode[i] \in {"EM_REL_LONG", "EM_ABS"}
      BY DEF CanShorten
    <3>4. Short(i)' <=> final_mode'[i] \in {"EM_REL", "EM_ZP"}
      BY DEF Short
    <3>5. Short(i) <=> final_mode[i] \in {"EM_REL", "EM_ZP"}
      BY DEF Short
    <3>6. i \in ShortSet' <=> Short(i)'
      BY <1>1 DEF ShortSet
    <3>7. /\ final_mode'[i] = IF Short(i)' THEN Shorter(InitialMode(Stmt(i).kind))
                              ELSE InitialMode(Stmt(i).kind)
          /\ Short(i)' => Stmt(i).kind \in {"branch", "operand"}
      <4>1. CASE CanShorten(i)
        <5>1. ~Short(i) /\ final_mode[i] = InitialMode(Stmt(i).kind)
          BY <3>1, <3>3, <3>5, <4>1
        <5>2. Stmt(i).kind \in {"branch", "operand"}
          BY <3>3, <4>1, <5>1 DEF InitialMode
        <5>3. Short(i)' /\ final_mode'[i] = Shorter(final_mode[i])
          BY <3>2, <3>4, <4>1 DEF Shorter
        <5> QED
          BY <5>1, <5>2, <5>3
      <4>2. CASE ~CanShorten(i)
        <5>1. final_mode'[i] = final_mode[i] /\ (Short(i)' <=> Short(i))
          BY <3>2, <3>4, <3>5, <4>2
        <5> QED
          BY <3>1, <5>1
      <4> QED
        BY <4>1, <4>2
    <3> QED
      BY <3>6, <3>7 DEF FormWith
  <2>2. \A i : FormWith(ShortSet, i)' = FormWith(ShortSet', i)
    BY <1>1 DEF FormWith
  <2> QED
    BY <1>1, <2>1, <2>2 DEF FormsOK
<1> QED
  BY <1>2, <1>3 DEF Next, vars, Gather, LayoutSized, LayoutOrg, LayoutRes, EndLayout, Emit, Finish

\* While the forms and the bases stay, so does the reference layout and what is least.
LEMMA LeastKept ==
  ASSUME TypeOK, [Next]_vars, final_mode' = final_mode, \A s \in SegSet : base'[s] = base[s]
  PROVE  /\ ShortSet' = ShortSet
         /\ LeastSoFar => LeastSoFar'
         /\ \A i \in 1 .. N : AddressWith(ShortSet, i)' = AddressWith(ShortSet, i)
         /\ FilledWith(ShortSet)' = FilledWith(ShortSet)
<1>1. N' = N /\ SegSet' = SegSet /\ \A i : Stmt(i)' = Stmt(i)
  BY ProgramFixed
<1>2. ShortSet' = ShortSet
  BY <1>1 DEF ShortSet, Short
<1>3. \A S : Closed(S)' <=> Closed(S)
  BY ClosedFixed
<1>4. Candidates' = Candidates
  BY <1>1 DEF Candidates
<1>5. LeastSoFar => LeastSoFar'
  BY <1>2, <1>3, <1>4 DEF LeastSoFar
<1>6. FilledWith(ShortSet)' = FilledWith(ShortSet)
  BY <1>1, <1>2, SMTT(60) DEF FilledWith, SizeWith, FormWith
<1>7. \A i \in 1 .. N : Stmt(i).seg \in SegSet
  BY ProgramShape DEF TypeOK
<1>8. \A i \in 1 .. N : AddressWith(ShortSet, i)' = AddressWith(ShortSet, i)
  BY <1>1, <1>6, <1>7 DEF AddressWith
<1> QED
  BY <1>2, <1>5, <1>6, <1>8

LEMMA LeastGather ==
  ASSUME IInv, Plain(prog), FormsOK, LeastPlain, Gather
  PROVE  LeastPlain'
<1>1. /\ phase = "gather" /\ phase' = "layout" /\ at' = 1 /\ pass' = pass
      /\ final_mode' = final_mode /\ [Next]_vars /\ TypeOK /\ PlainInv
  BY DEF Gather, IInv, Next
<1>2. /\ N' = N /\ N \in Nat /\ SegSet' = SegSet
      /\ \A i : Stmt(i)' = Stmt(i) /\ \A s : StartOf(s)' = StartOf(s)
  BY <1>1, ProgramFixed, ProgramShape DEF TypeOK
<1>3. \A s \in SegSet : base'[s] = StartOf(s)
  <2>1. CASE prog.o65
    BY <1>1, <2>1 DEF Gather, PlainInv, StartOf
  <2>2. CASE ~prog.o65
    <3>1. \A s \in SegSet : prog.segs[s].after = 0 /\ prog.segs[s].base \in Nat
      BY <1>1, ProgramShape DEF Plain, SegSet, TypeOK, SegDefs
    <3>2. \A s \in SegSet : base'[s] = DefinedBase(s)
      BY <2>2 DEF Gather
    <3> QED
      BY <2>2, <3>1, <3>2 DEF DefinedBase, StartOf
  <2> QED
    BY <2>1, <2>2
<1>4. ShortSet' = ShortSet
  BY <1>1, <1>2 DEF ShortSet, Short
<1>5. LeastSoFar'
  <2>1. CASE pass = 1
    <3>1. ShortSet' = {}
      BY <1>1, <1>4, <2>1 DEF LeastPlain
    <3> QED
      BY <3>1 DEF LeastSoFar
  <2>2. CASE pass # 1
    <3>1. \A s \in SegSet : base'[s] = base[s]
      BY <1>3, <2>2 DEF LeastPlain, BaseOK
    <3> QED
      BY <1>1, <3>1, LeastKept DEF LeastPlain
  <2> QED
    BY <2>1, <2>2
<1>6. LaidSoFar'
  <2>1. \A i \in 1 .. N : ~(i < at')
    BY <1>1
  <2>2. ASSUME NEW s \in SegSet
        PROVE  pc'[s] = FilledWith(ShortSet)'[at' - 1][s]
    <3>1. pc'[s] = 0
      BY DEF Gather, ZeroPc
    <3>2. FilledWith(ShortSet)' = FilledWith(ShortSet)
      BY <1>2, <1>4 DEF FilledWith, SizeWith, FormWith
    <3>3. FilledWith(ShortSet)[0][s] = 0
      BY <1>1, FilledLaw DEF TypeOK
    <3> QED
      BY <1>1, <3>1, <3>2, <3>3
  <2> QED
    BY <1>2, <2>1, <2>2 DEF LaidSoFar
<1>7. BaseOK'
  BY <1>2, <1>3 DEF BaseOK
<1> QED
  BY <1>1, <1>5, <1>6, <1>7 DEF LeastPlain, Relaxed

LEMMA LeastSized ==
  ASSUME IInv, Plain(prog), FormsOK, LeastPlain, LayoutSized
  PROVE  LeastPlain'
<1>1. /\ phase = "layout" /\ phase' = "layout" /\ pass' = pass /\ base' = base
      /\ final_mode' = final_mode /\ [Next]_vars /\ TypeOK
  BY DEF LayoutSized, AtStmt, IInv, Next
<1>2. /\ N' = N /\ SegSet' = SegSet /\ \A i : Stmt(i)' = Stmt(i) /\ \A s : StartOf(s)' = StartOf(s)
  BY <1>1, ProgramFixed
<1>3. /\ N \in Nat /\ at \in 1 .. N /\ at' = at + 1
      /\ address'[at] = Here(Stmt(at).seg) /\ Stmt(at).seg \in SegSet
      /\ \A i \in 1 .. N : i # at => address'[i] = address[i]
      /\ \A t \in SegSet : t # Stmt(at).seg => pc'[t] = pc[t]
      /\ pc'[Stmt(at).seg] = pc[Stmt(at).seg] + Size(at)
  <2>1. Sized(at)
    BY DEF LayoutSized, AtStmt, Sized
  <2>2. at \in 1 .. N
    BY <1>1, PlaceFacts
  <2>3. Stmt(at).seg \in SegSet
    BY <1>1, <2>2, ProgramShape DEF TypeOK
  <2> QED
    BY <1>1, <2>1, <2>3, PlaceFacts
<1>4. /\ ShortSet' = ShortSet /\ LeastSoFar'
      /\ \A i \in 1 .. N : AddressWith(ShortSet, i)' = AddressWith(ShortSet, i)
      /\ FilledWith(ShortSet)' = FilledWith(ShortSet)
  BY <1>1, LeastKept DEF LeastPlain
<1>5. LaidSoFar /\ BaseOK
  BY <1>1 DEF LeastPlain
<1>6. ASSUME NEW i \in 1 .. N, i < at'
      PROVE  address'[i] = AddressWith(ShortSet, i)
  <2>1. CASE i = at
    BY <1>3, <1>5, <2>1 DEF LaidSoFar, AddressWith, Here
  <2>2. CASE i # at
    <3>1. i < at /\ address'[i] = address[i]
      BY <1>3, <1>6, <2>2
    <3> QED
      BY <1>5, <3>1 DEF LaidSoFar
  <2> QED
    BY <2>1, <2>2
<1>7. ASSUME NEW s \in SegSet
      PROVE  pc'[s] = FilledWith(ShortSet)[at' - 1][s]
  <2>0. at' - 1 = at
    BY <1>3
  <2>1. FilledWith(ShortSet)[at][s] = FilledWith(ShortSet)[at - 1][s]
               + (IF Stmt(at).seg = s THEN SizeWith(ShortSet, at) ELSE 0)
    <3>1. prog \in Programs /\ at \in 1 .. N
      BY <1>1, <1>3 DEF TypeOK
    <3> QED
      BY <3>1, FilledLaw
  <2>2. pc[s] = FilledWith(ShortSet)[at - 1][s] /\ pc[s] \in Nat
    BY <1>1, <1>5 DEF LaidSoFar, TypeOK
  <2>3. Size(at) = SizeWith(ShortSet, at)
    BY <1>3, SizeIsWith
  <2>4. CASE Stmt(at).seg = s
    BY <1>3, <2>0, <2>1, <2>2, <2>3, <2>4
  <2>5. CASE Stmt(at).seg # s
    BY <1>3, <2>0, <2>1, <2>2, <2>5
  <2> QED
    BY <2>4, <2>5
<1>8. LaidSoFar'
  BY <1>2, <1>4, <1>6, <1>7 DEF LaidSoFar
<1>9. BaseOK'
  BY <1>1, <1>2, <1>5 DEF BaseOK
<1> QED
  BY <1>1, <1>4, <1>8, <1>9 DEF LeastPlain, Relaxed

LEMMA LeastRelax ==
  ASSUME IInv, Plain(prog), FormsOK, FormsOK', LeastPlain, Relax
  PROVE  LeastPlain'
<1>1. /\ phase = "relax" /\ base' = base /\ address' = address /\ [Next]_vars /\ TypeOK
      /\ \/ phase' = "gather" /\ pass' = pass + 1
         \/ phase' = "emit"
      /\ changed' = (changed \/ \E i \in 1 .. N : CanShorten(i))
      /\ final_mode' = [i \in 1 .. N |-> IF CanShorten(i) THEN Shorter(final_mode[i])
                                         ELSE final_mode[i]]
  BY DEF Relax, IInv, Next
<1>0. /\ N' = N /\ SegSet' = SegSet /\ \A i : Stmt(i)' = Stmt(i)
      /\ \A s : StartOf(s)' = StartOf(s)
  BY <1>1, ProgramFixed
<1>2. /\ N' = N /\ SegSet' = SegSet /\ \A i : Stmt(i)' = Stmt(i)
      /\ \A s : StartOf(s)' = StartOf(s) /\ Candidates' = Candidates
  BY <1>0 DEF Candidates
<1>3. Laid /\ BaseOK /\ LeastSoFar
  BY <1>1 DEF LeastPlain
<1>4. ShortSet \subseteq Candidates
  BY DEF FormsOK, ShortSet, Candidates
<1>5. \A i \in 1 .. N : i \in ShortSet' => i \in ShortSet \/ CanShorten(i)
  BY <1>1, <1>2 DEF ShortSet, Short
<1>6. LeastSoFar'
  <2>1. ASSUME NEW S \in SUBSET Candidates, Closed(S)
        PROVE  ShortSet' \subseteq S
    <3>1. ShortSet \subseteq S
      BY <1>3, <2>1 DEF LeastSoFar
    <3>2. ASSUME NEW i \in 1 .. N, CanShorten(i)
          PROVE  i \in S
      <4>1. FitsWith(ShortSet, i)
        BY <1>1, <1>3, <3>2, CanShortenFits
      <4>2. FitsWith(S, i)
        BY <1>1, <3>1, <4>1, FitsMore
      <4> QED
        BY <2>1, <4>2 DEF Closed
    <3>3. ShortSet' \subseteq 1 .. N
      BY <1>2 DEF ShortSet
    <3> QED
      BY <1>5, <3>1, <3>2, <3>3
  <2>2. \A S : Closed(S)' <=> Closed(S)
    BY <1>1, ClosedFixed
  <2> QED
    BY <1>2, <2>1, <2>2 DEF LeastSoFar
<1>7. ~changed' => Laid' /\ \A i \in 1 .. N' : ~CanShorten(i)'
  <2> SUFFICES ASSUME ~changed'
               PROVE  Laid' /\ \A i \in 1 .. N' : ~CanShorten(i)'
    OBVIOUS
  <2>1. \A i \in 1 .. N : ~CanShorten(i)
    BY <1>1
  <2>2. final_mode' = final_mode
    BY <1>1, <2>1 DEF TypeOK
  <2>3. ShortSet' = ShortSet
    BY <1>2, <2>2 DEF ShortSet, Short
  <2>4. \A i \in 1 .. N : AddressWith(ShortSet, i)' = AddressWith(ShortSet, i)
    BY <1>1, <2>2, LeastKept
  <2>5. \A i : CanShorten(i)' = CanShorten(i)
    BY <1>1, <1>2, <2>2 DEF CanShorten, Displacement, Value, AddressOf
  <2> QED
    BY <1>1, <1>2, <1>3, <2>1, <2>4, <2>5 DEF Laid
<1>8. BaseOK'
  BY <1>1, <1>2, <1>3 DEF BaseOK
<1>9. ~(phase' = "gather" /\ pass' = 1) /\ phase' \notin {"layout", "relax"}
  BY <1>1 DEF TypeOK
<1> QED
  BY <1>6, <1>7, <1>8, <1>9 DEF LeastPlain

\* Nothing moves in the other steps.
LEMMA LeastStill ==
  ASSUME IInv, Plain(prog), FormsOK, LeastPlain,
         EndLayout \/ Emit \/ Finish \/ UNCHANGED vars
  PROVE  LeastPlain'
<1>1. /\ base' = base /\ address' = address /\ final_mode' = final_mode /\ pc' = pc
      /\ pass' = pass /\ [Next]_vars /\ TypeOK
  BY DEF EndLayout, Emit, Finish, vars, IInv, Next
<1>2. /\ N' = N /\ N \in Nat /\ SegSet' = SegSet /\ \A i : Stmt(i)' = Stmt(i)
      /\ \A s : StartOf(s)' = StartOf(s)
  BY <1>1, ProgramFixed, ProgramShape DEF TypeOK
<1>3. /\ ShortSet' = ShortSet /\ LeastSoFar'
      /\ \A i \in 1 .. N : AddressWith(ShortSet, i)' = AddressWith(ShortSet, i)
      /\ FilledWith(ShortSet)' = FilledWith(ShortSet)
  BY <1>1, LeastKept DEF LeastPlain
<1>4. (Laid => Laid') /\ (BaseOK => BaseOK') /\ \A i : CanShorten(i)' = CanShorten(i)
  BY <1>1, <1>2, <1>3 DEF Laid, BaseOK, CanShorten, Displacement, Value, AddressOf
<1>5. CASE EndLayout
  <2>1. phase = "layout" /\ phase' = "relax" /\ \A i \in 1 .. N : i < at
    BY <1>1, <1>2, <1>5 DEF EndLayout, TypeOK
  <2>2. Laid
    BY <2>1 DEF LeastPlain, LaidSoFar, Laid
  <2> QED
    BY <1>3, <1>4, <2>1, <2>2 DEF LeastPlain, Relaxed
<1>6. CASE Emit \/ Finish
  <2>1. Relaxed /\ phase' \in {"emit", "done"} /\ changed' = changed /\ phase # "gather"
    BY <1>6 DEF Emit, Finish, Relaxed
  <2> QED
    BY <1>2, <1>3, <1>4, <2>1 DEF LeastPlain
<1>7. CASE UNCHANGED vars
  <2>1. phase' = phase /\ at' = at /\ changed' = changed
    BY <1>7 DEF vars
  <2>2. LaidSoFar => LaidSoFar'
    BY <1>1, <1>2, <1>3, <2>1 DEF LaidSoFar
  <2> QED
    BY <1>1, <1>2, <1>3, <1>4, <2>1, <2>2 DEF LeastPlain, Relaxed
<1> QED
  BY <1>5, <1>6, <1>7

LEMMA LeastInit == Init => LeastInv
<1> SUFFICES ASSUME Init PROVE LeastInv
  OBVIOUS
<1>1. \A i \in 1 .. N : final_mode[i] = InitialMode(Stmt(i).kind) /\ ~Short(i)
  BY DEF Init, InitialMode, Short
<1>2. ShortSet = {}
  BY <1>1 DEF ShortSet
<1>3. FormsOK
  BY <1>1, <1>2 DEF FormsOK, FormWith
<1>4. phase = "gather" /\ pass = 1
  BY DEF Init
<1> QED
  BY <1>2, <1>3, <1>4 DEF LeastInv, LeastPlain, LeastSoFar, Relaxed

\* The forms a plain program ends with, when the last pass changed nothing, are
\* consistent with their own layout, and the least choice of forms that is: the
\* order in which asm_relax finds them, pass by pass, does not show.
THEOREM ShorteningIsLeast == Spec => []LeastShortening
<1>1. Init => LeastInv
  BY LeastInit
<1>2. IInv /\ LeastInv /\ [Next]_vars => LeastInv'
  <2> SUFFICES ASSUME IInv, LeastInv, [Next]_vars
               PROVE  LeastInv'
    OBVIOUS
  <2>1. FormsOK'
    BY FormsStep DEF IInv, LeastInv
  <2>2. SUFFICES ASSUME Plain(prog)
                 PROVE  LeastPlain'
    BY <2>1, ProgramFixed DEF LeastInv
  <2>3. FormsOK /\ LeastPlain /\ TypeOK /\ PlainInv
    BY <2>2 DEF LeastInv, IInv
  <2>4. ~LayoutOrg /\ ~LayoutRes
    <3>1. AtStmt({"org"}) \/ AtStmt({"res"}) => at \in 1 .. N
      BY <2>3, ProgramShape DEF AtStmt, TypeOK
    <3>2. ModeOK
      BY <2>3 DEF PlainInv
    <3> QED
      BY <2>2, <2>3, <3>1, <3>2, PlainShape DEF LayoutOrg, LayoutRes, AtStmt
  <2>5. CASE Gather
    BY <2>2, <2>3, <2>5, LeastGather
  <2>6. CASE LayoutSized
    BY <2>2, <2>3, <2>6, LeastSized
  <2>7. CASE Relax
    BY <2>1, <2>2, <2>3, <2>7, LeastRelax
  <2>8. CASE EndLayout \/ Emit \/ Finish \/ UNCHANGED vars
    BY <2>2, <2>3, <2>8, LeastStill
  <2> QED
    BY <2>4, <2>5, <2>6, <2>7, <2>8 DEF Next
<1>3. IInv /\ LeastInv => LeastShortening
  <2> SUFFICES ASSUME TypeOK, LeastInv, Plain(prog), phase = "done", ~changed
               PROVE  /\ Closed(ShortSet)
                      /\ \A S \in SUBSET Candidates : Closed(S) => ShortSet \subseteq S
    BY DEF IInv, LeastShortening, Candidates
  <2>1. FormsOK /\ Laid /\ LeastSoFar /\ \A i \in 1 .. N : ~CanShorten(i)
    BY DEF LeastInv, LeastPlain, Relaxed
  <2>2. Closed(ShortSet)
    BY <2>1, CanShortenFits DEF Closed
  <2> QED
    BY <2>1, <2>2 DEF LeastSoFar
<1> QED
  BY <1>1, <1>2, <1>3, Invariant, PTL DEF Spec
=============================================================================
