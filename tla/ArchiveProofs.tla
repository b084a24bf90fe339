---------------------------- MODULE ArchiveProofs ----------------------------
(***************************************************************************)
(* Whatever fails and whoever is killed: the archive goes from one whole   *)
(* archive to the next (MemberStore), and a command that ends cleans up.   *)
(***************************************************************************)
EXTENDS Archive, WellFoundedInduction, TLAPS

\* A set of numbers has a least one: the induction of the proofs below.
LEMMA FirstIn ==
  ASSUME NEW S, S \subseteq Nat, S # {}
  PROVE  \E i \in S : \A j \in S : i <= j
<1> DEFINE R == {p \in Nat \X Nat : p[1] < p[2]}
<1>1. IsWellFoundedOn(R, Nat)
  BY NatLessThanWellFounded DEF OpToRel
<1>2. \A i, j \in Nat : <<j, i>> \in R <=> j < i
  OBVIOUS
<1> HIDE DEF R
<1>3. \E i \in S : \A j \in S : ~(<<j, i>> \in R)
  BY <1>1, WFMin
<1>4. \A i, j \in S : ~(<<j, i>> \in R) => i <= j
  BY <1>2
<1> QED BY <1>3, <1>4

-----------------------------------------------------------------------------
\* The recursion that leaves members out is one: a table of what is left of the
\* first 0, 1, ... members exists, however many there are.
Leaves(left, members, names, n) ==
  left = [i \in 0 .. n |->
            IF i = 0 THEN <<>>
            ELSE IF members[i].name \in names THEN left[i - 1]
            ELSE Append(left[i - 1], members[i])]

\* By induction on the length: the least length without a table has one.
LEMMA LeftExists ==
  ASSUME NEW members, NEW names, NEW len \in Nat
  PROVE  \E left : Leaves(left, members, names, len)
<1> DEFINE Bad == {n \in Nat : ~ \E left : Leaves(left, members, names, n)}
<1>1. SUFFICES ASSUME Bad # {} PROVE FALSE
  OBVIOUS
<1>2. PICK n \in Bad : \A m \in Bad : n <= m
  <2> HIDE DEF Bad
  <2>1. Bad \subseteq Nat
    BY DEF Bad
  <2> QED BY <1>1, <2>1, FirstIn
<1>3. n # 0
  <2>1. Leaves([i \in 0 .. 0 |-> <<>>], members, names, 0)
    BY DEF Leaves
  <2> QED BY <2>1
<1>4. PICK left : Leaves(left, members, names, n - 1)
  <2>1. n - 1 \in Nat /\ ~(n <= n - 1)
    BY <1>3
  <2> QED BY <1>2, <2>1
<1> DEFINE more == [i \in 0 .. n |-> IF i < n THEN left[i]
                      ELSE IF members[n].name \in names THEN left[n - 1]
                      ELSE Append(left[n - 1], members[n])]
<1>5. \A i \in 0 .. n - 1 : left[i] = IF i = 0 THEN <<>>
            ELSE IF members[i].name \in names THEN left[i - 1]
            ELSE Append(left[i - 1], members[i])
  BY <1>4 DEF Leaves
<1>6. \A i \in 0 .. n : more[i] = IF i = 0 THEN <<>>
            ELSE IF members[i].name \in names THEN more[i - 1]
            ELSE Append(more[i - 1], members[i])
  <2> TAKE i \in 0 .. n
  <2>1. CASE i < n
    <3>1. i \in 0 .. n - 1 /\ more[i] = left[i] /\ (i # 0 => more[i - 1] = left[i - 1])
      BY <2>1
    <3> HIDE DEF more
    <3> QED BY <3>1, <1>5
  <2>2. CASE i = n
    <3>1. more[i] = (IF members[i].name \in names THEN left[i - 1]
                     ELSE Append(left[i - 1], members[i]))
      BY <2>2
    <3>2. more[i - 1] = left[i - 1]
      BY <2>2, <1>3
    <3> HIDE DEF more
    <3> QED BY <3>1, <3>2, <2>2, <1>3
  <2> QED BY <2>1, <2>2
<1>7. DOMAIN more = 0 .. n /\ more = [i \in 0 .. n |-> more[i]]
  OBVIOUS
<1>8. Leaves(more, members, names, n)
  <2> HIDE DEF more
  <2> DEFINE rhs == [i \in 0 .. n |->
            IF i = 0 THEN <<>>
            ELSE IF members[i].name \in names THEN more[i - 1]
            ELSE Append(more[i - 1], members[i])]
  <2>1. rhs = [i \in 0 .. n |-> more[i]]
    BY <1>6
  <2> QED BY <2>1, <1>7 DEF Leaves
<1> QED BY <1>8

\* What the abstract specification leaves of the first members, one by one.
LEMMA LeftStep ==
  ASSUME NEW members, NEW names, Len(members) \in Nat
  PROVE  /\ Store!Without(members, names)[0] = <<>>
         /\ \A i \in 1 .. Len(members) :
              Store!Without(members, names)[i] =
                IF members[i].name \in names THEN Store!Without(members, names)[i - 1]
                ELSE Append(Store!Without(members, names)[i - 1], members[i])
<1> DEFINE w == Store!Without(members, names)
<1>1. Leaves(w, members, names, Len(members))
  <2>1. \E left : Leaves(left, members, names, Len(members))
    BY LeftExists
  <2> QED BY <2>1 DEF Store!Without, Leaves
<1> HIDE DEF w
<1>2. \A i \in 0 .. Len(members) : w[i] = IF i = 0 THEN <<>>
            ELSE IF members[i].name \in names THEN w[i - 1]
            ELSE Append(w[i - 1], members[i])
  BY <1>1 DEF Leaves
<1>3. w[0] = <<>>
  BY <1>2
<1>4. \A i \in 1 .. Len(members) : w[i] =
                IF members[i].name \in names THEN w[i - 1]
                ELSE Append(w[i - 1], members[i])
  BY <1>2
<1> QED BY <1>3, <1>4 DEF w

\* And it is a sequence of members.
LEMMA LeftType ==
  ASSUME NEW members \in Seq(Members), NEW names
  PROVE  \A n \in 0 .. Len(members) : Store!Without(members, names)[n] \in Seq(Members)
<1> DEFINE w == Store!Without(members, names)
           Bad == {n \in 0 .. Len(members) : w[n] \notin Seq(Members)}
<1>1. Len(members) \in Nat
  OBVIOUS
<1>2. /\ w[0] = <<>>
      /\ \A n \in 1 .. Len(members) : w[n] = IF members[n].name \in names THEN w[n - 1]
                                             ELSE Append(w[n - 1], members[n])
  BY <1>1, LeftStep
<1>3. SUFFICES ASSUME Bad # {} PROVE FALSE
  OBVIOUS
<1>4. PICK n \in Bad : \A m \in Bad : n <= m
  <2>1. Bad \subseteq Nat
    BY <1>1
  <2> HIDE DEF Bad
  <2> QED BY <1>3, <2>1, FirstIn
<1> HIDE DEF w
<1>5. n \in 0 .. Len(members) /\ w[n] \notin Seq(Members)
  OBVIOUS
<1>6. <<>> \in Seq(Members)
  OBVIOUS
<1>7. n \in 1 .. Len(members) /\ n - 1 \in 0 .. Len(members) /\ ~(n <= n - 1)
  <2>1. w[0] \in Seq(Members)
    BY <1>2, <1>6
  <2>2. n # 0
    BY <1>5, <2>1
  <2> QED BY <1>1, <1>5, <2>2
<1>8. w[n - 1] \in Seq(Members) /\ members[n] \in Members
  BY <1>4, <1>7
<1>9. Append(w[n - 1], members[n]) \in Seq(Members)
  BY <1>8
<1>10. w[n] = w[n - 1] \/ w[n] = Append(w[n - 1], members[n])
  BY <1>2, <1>7
<1> QED BY <1>5, <1>8, <1>9, <1>10

-----------------------------------------------------------------------------
\* What the processes are about.  The types, with what the reader knows of the
\* member it fills.
ReaderAt == reader.pc = "fill" => reader.at <= Len(reader.old)
TypeInv == TypeOK /\ ReaderAt

\* What is under the archive's name, as its members, and as it was opened.
MembersNow == IF archive = None THEN <<>> ELSE archive.members
TornNow == IF archive = None THEN "no" ELSE archive.torn

\* A writer in its loops has the archive that is still there: nobody else writes.
Opened ==
  writer.pc \in {"copy", "add"} =>
    /\ writer.op \in WriteOps /\ writer.args \in ArgLists
    /\ archive # Junk /\ writer.old = MembersNow /\ writer.torn = TornNow
    /\ tmp \in Seq(Members)

\* What r and q take over of the first n old members.
Taken(op, args, old, n) ==
  IF op = "r" THEN Store!Without(old, NameSet(args))[n] ELSE SubSeq(old, 1, n)
TakenOver(n) == Taken(writer.op, writer.args, writer.old, n)
Copied ==
  writer.pc = "copy" =>
    /\ writer.at <= Len(writer.old) + 1
    /\ tmp = TakenOver(writer.at - 1)

\* Then come the first n files, by their names.
Added(args, n) == {batch \in [1 .. n -> [name : Names, data : Contents]] :
                     \A k \in 1 .. n : batch[k].name = BaseName(args[k])}
Appended ==
  writer.pc = "add" =>
    /\ writer.torn = "no"
    /\ writer.at <= Len(writer.args) + 1
    /\ \E batch \in Added(writer.args, writer.at - 1) :
         tmp = TakenOver(Len(writer.old)) \o batch

IInv == TypeInv /\ Opened /\ Copied /\ Appended

PCs == {"idle", "copy", "add", "read", "fill"}
\* A process stays one when a part of it gets another value of its kind.
LEMMA SetAt ==
  ASSUME NEW p \in Processes, NEW at \in Nat \ {0}
  PROVE  [p EXCEPT !.at = at] \in Processes
BY ZenonT(60) DEF Processes
\* Setting fields of a process to values of theirs leaves a process.
LEMMA SetPc ==
  ASSUME NEW p \in Processes, NEW pc \in PCs
  PROVE  [p EXCEPT !.pc = pc] \in Processes
BY ZenonT(60) DEF Processes, PCs

\* The same for these fields.
LEMMA SetStatus ==
  ASSUME NEW p \in Processes, NEW status \in {0, 1, 137}
  PROVE  [p EXCEPT !.status = status] \in Processes
BY ZenonT(60) DEF Processes

\* The same for these fields.
LEMMA SetPcAt ==
  ASSUME NEW p \in Processes, NEW pc \in PCs, NEW at \in Nat \ {0}
  PROVE  [p EXCEPT !.pc = pc, !.at = at] \in Processes
<1>1. [p EXCEPT !.pc = pc] \in Processes
  BY SetPc
<1> QED BY <1>1, SetAt

\* The same for these fields.
LEMMA SetPcStatus ==
  ASSUME NEW p \in Processes, NEW pc \in PCs, NEW status \in {0, 1, 137}
  PROVE  [p EXCEPT !.pc = pc, !.status = status] \in Processes
<1>1. [p EXCEPT !.pc = pc] \in Processes
  BY SetPc
<1> QED BY <1>1, SetStatus

\* A process at rest.
LEMMA IdleType ==
  /\ Idle \in Processes /\ Idle.pc = "idle"
  /\ \A status \in {0, 1, 137} : /\ [Idle EXCEPT !.status = status] \in Processes
                                 /\ [Idle EXCEPT !.status = status].pc = "idle"
<1>1. Idle \in Processes /\ Idle.pc = "idle"
  BY DEF Idle, Processes, WriteOps, ReadOps
<1>2. \A status \in {0, 1, 137} : [Idle EXCEPT !.status = status].pc = "idle"
  BY DEF Idle
<1> QED BY <1>1, <1>2, SetStatus

\* A process that begins.
LEMMA BegunType ==
  ASSUME NEW pc \in PCs, NEW op \in WriteOps \cup ReadOps,
         NEW args \in ArgLists \cup {<<>>}, NEW old \in Seq(Members),
         NEW torn \in {"no", "header"} \cup Names
  PROVE  [Idle EXCEPT !.pc = pc, !.op = op, !.args = args, !.old = old, !.torn = torn]
           \in Processes
<1>1. /\ Idle \in Processes /\ op \in WriteOps \cup ReadOps \cup {"none"}
  BY IdleType
<1> QED BY <1>1, ZenonT(60) DEF Processes, PCs

\* The first state is well typed: it holds what the user has made.
LEMMA TypeInit == Init => TypeInv
<1> SUFFICES ASSUME Init PROVE TypeInv
  OBVIOUS
<1>1. archive \in {None, Junk} \cup Archives
  BY FirstAssumption DEF Init
<1>2. files \in [Paths -> Contents \cup {None}]
  BY FirstAssumption DEF Init, Contents
<1>3. Idle \in Processes /\ Idle.pc = "idle"
  BY IdleType
<1>4. given \in 0 .. MaxCommands
  BY MaxAssumption DEF Init
<1>5. printed \in Seq(Members) /\ tmp \in {None} \cup Seq(Members)
  BY DEF Init
<1> QED BY <1>1, <1>2, <1>3, <1>4, <1>5 DEF Init, TypeInv, TypeOK, ReaderAt

\* What a command names are files, whose last parts are names of members.
LEMMA PathFacts ==
  ASSUME NEW args \in ArgLists, NEW k \in 1 .. Len(args)
  PROVE  args[k] \in Paths /\ BaseName(args[k]) \in Names /\ Len(args) \in Nat
<1>1. args \in Seq(Paths)
  BY ArgsAssumption
<1>2. args[k] \in Paths /\ Len(args) \in Nat
  BY <1>1
<1> QED BY <1>2, PathsAssumption DEF BaseName

\* What is read from an archive is a list of members.
LEMMA OpenedType ==
  ASSUME archive \in {None, Junk} \cup Archives, archive # Junk
  PROVE  /\ MembersNow \in Seq(Members)
         /\ TornNow \in {"no", "header"} \cup Names
BY DEF MembersNow, TornNow, Archives

\* The file that is added next, as a member.
LEMMA NewMember ==
  ASSUME TypeInv, Opened, writer.pc = "add", writer.at <= Len(writer.args),
         NEW path, path = writer.args[writer.at]
  PROVE  /\ path \in Paths /\ BaseName(path) \in Names
         /\ files[path] # None =>
              [name |-> BaseName(path), data |-> files[path]] \in Members
<1>1. writer.at \in 1 .. Len(writer.args) /\ writer.args \in ArgLists
  <2>1. writer.args \in ArgLists /\ writer.at \in Nat \ {0}
    BY DEF Opened, TypeInv, TypeOK, Processes
  <2>2. Len(writer.args) \in Nat
    BY <2>1, ArgsAssumption
  <2> QED BY <2>1, <2>2
<1>2. path \in Paths /\ BaseName(path) \in Names
  BY <1>1, PathFacts
<1>3. files \in [Paths -> Contents \cup {None}]
  BY DEF TypeInv, TypeOK
<1> QED BY <1>2, <1>3 DEF Members

WriterNext == \/ StartWriter \/ CopyMember \/ CopyEnd \/ AddFile \/ Rename \/ SystemFails
              \/ Killed

\* A step of the writer keeps the types.
LEMMA WriterType ==
  ASSUME TypeInv, Opened,
         WriterNext
  PROVE  TypeInv'
<1> USE DEF TypeInv, TypeOK
<1>0. ReaderAt' /\ reader' = reader /\ printed' = printed /\ files' = files
  BY DEF WriterNext, ReaderAt, StartWriter, CopyMember, CopyEnd,
        AddFile, Rename, SystemFails, Killed,
         Fail, Finish
<1>1. ASSUME Fail PROVE tmp' = None /\ writer' \in Processes /\ writer'.pc = "idle"
                        /\ archive' = archive /\ given' = given
  BY <1>1, IdleType DEF Fail, Finish
<1>2. CASE StartWriter
  <2>1. given' \in 0 .. MaxCommands /\ archive' = archive
    <3>1. given < MaxCommands /\ given' = given + 1 /\ given \in 0 .. MaxCommands
          /\ archive' = archive
      BY <1>2 DEF StartWriter
    <3> QED BY ONLY <3>1, MaxAssumption
  <2>2. PICK op \in WriteOps, args \in ArgLists :
       \/ Finish(1) /\ UNCHANGED tmp
       \/ /\ archive # Junk
          /\ tmp' = NewTmp
          /\ writer' = [Idle EXCEPT !.pc = "copy", !.op = op, !.args = args,
                          !.old = MembersNow, !.torn = TornNow]
    BY <1>2 DEF StartWriter, MembersNow, TornNow
  <2>3. CASE Finish(1) /\ UNCHANGED tmp
    BY <2>1, <2>3, <1>0, IdleType DEF Finish
  <2>4. CASE archive # Junk /\ tmp' = NewTmp
             /\ writer' = [Idle EXCEPT !.pc = "copy", !.op = op, !.args = args,
                          !.old = MembersNow, !.torn = TornNow]
    <3>1. writer' \in Processes /\ writer'.pc = "copy"
      <4>1. MembersNow \in Seq(Members) /\ TornNow \in {"no", "header"} \cup Names
        BY <2>4, OpenedType
      <4>2. writer' \in Processes
        <5>1. "copy" \in PCs /\ op \in WriteOps \cup ReadOps /\ args \in ArgLists \cup {<<>>}
          BY DEF PCs
        <5>2. [Idle EXCEPT !.pc = "copy", !.op = op, !.args = args,
                          !.old = MembersNow, !.torn = TornNow] \in Processes
          BY ONLY <4>1, <5>1, BegunType
        <5> QED BY <5>2, <2>4
      <4>3. writer'.pc = "copy"
        BY <2>4 DEF Idle
      <4> QED BY <4>2, <4>3
    <3>2. tmp' \in Seq(Members)
      BY <2>4 DEF NewTmp
    <3> QED BY <2>1, <3>1, <3>2, <1>0
  <2> QED BY <2>2, <2>3, <2>4
<1>3. CASE CopyMember
  <2>1. writer.old \in Seq(Members) /\ writer.at \in 1 .. Len(writer.old)
    BY <1>3 DEF CopyMember, Processes
  <2>2. tmp \in Seq(Members)
    BY <1>3 DEF CopyMember, Opened
  <2>3. tmp' \in Seq(Members)
    BY <1>3, <2>1, <2>2 DEF CopyMember
  <2>4. writer' \in Processes /\ writer'.pc = "copy"
    <3>1. writer.pc = "copy" /\ writer' = [writer EXCEPT !.at = writer.at + 1]
          /\ writer.at + 1 \in Nat \ {0} /\ writer \in Processes
      BY <1>3, <2>1 DEF CopyMember
    <3>2. writer'.pc = writer.pc
      BY <3>1 DEF Processes
    <3>3. [writer EXCEPT !.at = writer.at + 1] \in Processes
      BY <3>1, SetAt
    <3> QED BY <3>1, <3>2, <3>3
  <2> QED BY <1>0, <1>3, <2>3, <2>4 DEF CopyMember
<1>4. CASE CopyEnd
  <2>1. CASE Fail
    BY <2>1, <1>1, <1>0
  <2>2. CASE writer' = [writer EXCEPT !.pc = "add", !.at = 1] /\ UNCHANGED <<archive, tmp, given>>
    <3>1. writer' \in Processes
      <4>1. writer \in Processes /\ "add" \in PCs /\ 1 \in Nat \ {0}
        BY DEF PCs
      <4>2. [writer EXCEPT !.pc = "add", !.at = 1] \in Processes
        BY <4>1, SetPcAt
      <4> QED BY <2>2, <4>2
    <3>2. writer'.pc = "add"
      BY <2>2 DEF Processes
    <3> QED BY <2>2, <3>1, <3>2, <1>0
  <2> QED BY <1>4, <2>1, <2>2 DEF CopyEnd
<1>5. CASE AddFile
  <2>1. writer.pc = "add" /\ writer.at <= Len(writer.args) /\ writer.at \in Nat \ {0}
        /\ tmp \in Seq(Members)
    BY <1>5 DEF AddFile, Processes, Opened
  <2> DEFINE path == writer.args[writer.at]
  <2>3. CASE Fail
    BY <2>3, <1>1, <1>0
  <2>4. CASE /\ files[path] # None
             /\ tmp' = Append(tmp, [name |-> BaseName(path), data |-> files[path]])
             /\ writer' = [writer EXCEPT !.at = @ + 1] /\ UNCHANGED <<archive, given>>
    <3>1. [name |-> BaseName(path), data |-> files[path]] \in Members
      BY <2>1, <2>4, NewMember
    <3>2. tmp' \in Seq(Members)
      BY <2>1, <2>4, <3>1
    <3>3. writer' \in Processes
      <4>1. writer \in Processes /\ writer.at + 1 \in Nat \ {0}
        BY <2>1
      <4>2. [writer EXCEPT !.at = writer.at + 1] \in Processes
        BY <4>1, SetAt
      <4> QED BY <2>4, <4>2
    <3>4. writer'.pc = writer.pc
      BY <2>4 DEF Processes
    <3> QED BY <1>0, <2>4, <3>2, <3>3, <3>4
  <2> QED BY <1>5, <2>3, <2>4 DEF AddFile
<1>6. CASE Rename
  <2>1. tmp \in Seq(Members)
    BY <1>6 DEF Rename, Opened
  <2>2. archive' \in Archives
    BY <1>6, <2>1 DEF Rename, Archives
  <2>3. writer' \in Processes /\ writer'.pc = "idle"
    BY <1>6, IdleType DEF Rename, Finish
  <2> QED BY <1>0, <1>6, <2>2, <2>3 DEF Rename
<1>7. CASE SystemFails
  BY <1>7, <1>1, <1>0 DEF SystemFails
<1>8. CASE Killed
  <2>1. writer' \in Processes /\ writer'.pc = "idle"
    BY <1>8, IdleType DEF Killed, Finish
  <2> QED BY <1>0, <1>8, <2>1 DEF Killed
<1> QED BY <1>2, <1>3, <1>4, <1>5, <1>6, <1>7, <1>8 DEF WriterNext

ReaderNext == \/ StartReader \/ ListMember \/ SkipMember \/ RefuseMember \/ OpenMember
              \/ FillMember \/ ReaderFails \/ ReadEnd

\* Readers leave the archive, .tmp and the writer alone.
LEMMA ReaderApart ==
  ASSUME ReaderNext
  PROVE  archive' = archive /\ tmp' = tmp /\ writer' = writer
BY DEF ReaderNext, StartReader, ListMember, SkipMember, RefuseMember, OpenMember,
       FillMember, ReaderFails, ReadEnd

\* The member a reader is at, and where it is extracted to.
LEMMA EntryType ==
  ASSUME TypeInv, reader.at <= Len(reader.old)
  PROVE  /\ Entry \in Members
         /\ Entry.name \notin Suspicious => <<Here, Entry.name>> \in Paths
<1>1. reader.old \in Seq(Members) /\ reader.at \in Nat \ {0}
  BY DEF TypeInv, TypeOK, Processes
<1>2. Entry \in Members
  BY <1>1 DEF Entry
<1>3. Entry.name \in Names \cup Suspicious
  BY <1>2 DEF Members
<1> QED BY <1>2, <1>3, PathsAssumption

\* A step of the reader keeps the types.
LEMMA ReaderType ==
  ASSUME TypeInv, ReaderNext
  PROVE  TypeInv'
<1> DEFINE ReaderSide == /\ files' \in [Paths -> Contents \cup {None}]
                    /\ reader' \in Processes /\ reader'.pc \in {"idle", "read", "fill"}
                    /\ printed' \in Seq(Members) /\ given' \in 0 .. MaxCommands
                    /\ ReaderAt'
<1>1. SUFFICES ReaderSide
  BY ReaderApart DEF TypeInv, TypeOK
<1>2. /\ files \in [Paths -> Contents \cup {None}] /\ reader \in Processes
      /\ printed \in Seq(Members) /\ given \in 0 .. MaxCommands
      /\ reader.pc \in {"idle", "read", "fill"}
      /\ archive \in {None, Junk} \cup Archives
      /\ reader.at \in Nat \ {0} /\ reader.old \in Seq(Members)
      /\ reader.torn \in {"no", "header"} \cup Names
  BY DEF TypeInv, TypeOK, Processes
<1>3. ASSUME NEW status \in {0, 1}, EndReader(status)
      PROVE  reader' \in Processes /\ reader'.pc = "idle" /\ ReaderAt'
  <2>1. reader' = [reader EXCEPT !.pc = "idle", !.status = status]
    BY <1>3 DEF EndReader
  <2>2. [reader EXCEPT !.pc = "idle", !.status = status] \in Processes
    <3>1. "idle" \in PCs /\ status \in {0, 1, 137}
      BY DEF PCs
    <3> QED BY <3>1, <1>2, SetPcStatus, ZenonT(60)
  <2>3. reader'.pc = "idle"
    BY <2>1, <1>2 DEF Processes
  <2> QED BY <2>1, <2>2, <2>3 DEF ReaderAt
<1>4. [reader EXCEPT !.at = @ + 1] \in Processes
      /\ [reader EXCEPT !.at = @ + 1].pc = reader.pc
  <2>1. [reader EXCEPT !.at = reader.at + 1] \in Processes
    <3>1. reader.at + 1 \in Nat \ {0}
      BY <1>2
    <3> QED BY <3>1, <1>2, SetAt
  <2>2. [reader EXCEPT !.at = reader.at + 1].pc = reader.pc
    BY <1>2 DEF Processes
  <2> QED BY <2>1, <2>2
<1>5. CASE StartReader
  <2>1. given' \in 0 .. MaxCommands /\ files' = files /\ printed' = <<>>
    <3>1. given < MaxCommands /\ given' = given + 1 /\ given \in 0 .. MaxCommands
          /\ files' = files /\ printed' = <<>>
      BY <1>2, <1>5 DEF StartReader
    <3> QED BY ONLY <3>1, MaxAssumption
  <2>2. PICK op \in ReadOps, args \in ArgLists \cup {<<>>} :
       reader' = IF archive \in {None, Junk} THEN [Idle EXCEPT !.status = 1]
                 ELSE [Idle EXCEPT !.pc = "read", !.op = op, !.args = args,
                         !.old = archive.members, !.torn = archive.torn]
    BY <1>5 DEF StartReader
  <2>3. reader' \in Processes /\ reader'.pc \in {"idle", "read"}
    <3>1. CASE archive \in {None, Junk}
      BY <2>2, <3>1, IdleType
    <3>2. CASE archive \notin {None, Junk}
      <4>1. archive.members \in Seq(Members) /\ archive.torn \in {"no", "header"} \cup Names
        BY <1>2, <3>2 DEF Archives
      <4>2. "read" \in PCs /\ op \in WriteOps \cup ReadOps
        BY DEF PCs
      <4>3. [Idle EXCEPT !.pc = "read", !.op = op, !.args = args,
                         !.old = archive.members, !.torn = archive.torn] \in Processes
        BY ONLY <4>1, <4>2, BegunType, args \in ArgLists \cup {<<>>}
      <4>4. reader' = [Idle EXCEPT !.pc = "read", !.op = op, !.args = args,
                         !.old = archive.members, !.torn = archive.torn]
        BY <2>2, <3>2
      <4>5. reader'.pc = "read"
        BY <4>4 DEF Idle
      <4> QED BY <4>3, <4>4, <4>5
    <3> QED BY <3>1, <3>2
  <2>4. printed' \in Seq(Members)
    BY <2>1
  <2>5. ReaderAt'
    BY <2>3 DEF ReaderAt
  <2> QED BY <1>2, <2>1, <2>3, <2>4, <2>5
<1>6. CASE ListMember
  <2>1. Entry \in Members /\ reader.pc = "read"
    BY <1>6, EntryType DEF ListMember, AtMember
  <2>2. printed' \in Seq(Members)
    BY <1>2, <1>6, <2>1 DEF ListMember
  <2> QED BY <1>2, <1>4, <1>6, <2>1, <2>2 DEF ListMember, ReaderAt
<1>7. CASE SkipMember
  BY <1>2, <1>4, <1>7 DEF SkipMember, AtMember, ReaderAt
<1>8. CASE RefuseMember
  BY <1>2, <1>3, <1>8 DEF RefuseMember
<1>9. CASE OpenMember
  <2>1. reader.pc = "read" /\ reader.at <= Len(reader.old)
        /\ reader' = [reader EXCEPT !.pc = "fill"]
    BY <1>9 DEF OpenMember, AtMember
  <2>2. [reader EXCEPT !.pc = "fill"] \in Processes
    <3>1. "fill" \in PCs
      BY DEF PCs
    <3> QED BY <3>1, <1>2, SetPc
  <2>3. reader'.pc = "fill" /\ reader'.at = reader.at /\ reader'.old = reader.old
    BY <2>1, <1>2 DEF Processes
  <2>4. files' \in [Paths -> Contents \cup {None}]
    BY <1>2, <1>9 DEF OpenMember, Contents
  <2> QED BY <1>2, <1>9, <2>1, <2>2, <2>3, <2>4 DEF OpenMember, ReaderAt
<1>10. CASE FillMember
  <2>1. reader.pc = "fill" /\ reader.at <= Len(reader.old)
    BY <1>10 DEF FillMember, TypeInv, ReaderAt
  <2>2. Entry \in Members /\ Entry.data \in Contents
    BY <2>1, EntryType DEF Members
  <2>3. files' \in [Paths -> Contents \cup {None}]
    BY <1>2, <1>10, <2>2 DEF FillMember, Flushed, Contents
  <2>4. printed' \in Seq(Members) /\ given' = given
    BY <1>2, <1>10, <2>2 DEF FillMember
  <2>5. reader' = [reader EXCEPT !.pc = "read", !.at = reader.at + 1]
    BY <1>10 DEF FillMember
  <2>6. [reader EXCEPT !.pc = "read", !.at = reader.at + 1] \in Processes
    <3>1. "read" \in PCs /\ reader.at + 1 \in Nat \ {0}
      BY <1>2 DEF PCs
    <3> QED BY <3>1, <1>2, SetPcAt
  <2>7. reader'.pc = "read"
    BY <2>5, <1>2 DEF Processes
  <2> QED BY <1>2, <2>3, <2>4, <2>5, <2>6, <2>7 DEF ReaderAt
<1>11. CASE ReaderFails
  BY <1>2, <1>3, <1>11 DEF ReaderFails
<1>12. CASE ReadEnd
  <2>1. files' \in [Paths -> Contents \cup {None}]
    BY <1>2, <1>12 DEF ReadEnd, Contents
  <2>2. printed' \in Seq(Members)
    <3>1. reader.torn \in Names => [name |-> reader.torn, data |-> Partial] \in Members
      BY DEF Members, Contents
    <3> QED BY <3>1, <1>2, <1>12 DEF ReadEnd
  <2>3. EndReader(0) \/ EndReader(1)
    BY <1>12 DEF ReadEnd
  <2>4. reader' \in Processes /\ reader'.pc = "idle" /\ ReaderAt'
    BY <2>3, <1>3
  <2> QED BY <1>2, <1>12, <2>1, <2>2, <2>4 DEF ReadEnd
<1> QED BY <1>5, <1>6, <1>7, <1>8, <1>9, <1>10, <1>11, <1>12 DEF ReaderNext

-----------------------------------------------------------------------------
\* What a writer knows of the archive it replaces, and of .tmp.
LEMMA OpenedStep ==
  ASSUME IInv, [Next]_vars
  PROVE  Opened'
<1> USE DEF IInv
<1>0. ASSUME archive' = archive, writer'.pc \in {"copy", "add"},
             writer.pc \in {"copy", "add"},
             writer'.op = writer.op, writer'.args = writer.args,
             writer'.old = writer.old, writer'.torn = writer.torn,
             tmp' \in Seq(Members)
      PROVE  Opened'
  BY <1>0 DEF Opened, MembersNow, TornNow
<1>1. ASSUME writer'.pc = "idle" PROVE Opened'
  BY <1>1 DEF Opened
<1>2. /\ writer \in Processes /\ TypeInv' /\ TypeOK
  <2>1. CASE WriterNext
    BY <2>1, WriterType DEF TypeInv, TypeOK
  <2>2. CASE ReaderNext
    BY <2>2, ReaderType DEF TypeInv, TypeOK
  <2>3. CASE UNCHANGED vars
    BY <2>3 DEF vars, TypeInv, TypeOK, ReaderAt
  <2> QED BY <2>1, <2>2, <2>3 DEF Next, WriterNext, ReaderNext, TypeInv, TypeOK
<1>3. ASSUME Fail PROVE Opened'
  BY <1>3, <1>1, IdleType DEF Fail, Finish
<1>4. CASE StartWriter
  <2>1. PICK op \in WriteOps, args \in ArgLists :
       \/ Finish(1) /\ UNCHANGED tmp
       \/ /\ archive # Junk
          /\ tmp' = NewTmp
          /\ writer' = [Idle EXCEPT !.pc = "copy", !.op = op, !.args = args,
                          !.old = MembersNow, !.torn = TornNow]
    BY <1>4 DEF StartWriter, MembersNow, TornNow
  <2>2. CASE Finish(1)
    BY <2>2, <1>1, IdleType DEF Finish
  <2>3. CASE /\ archive # Junk /\ tmp' = NewTmp
             /\ writer' = [Idle EXCEPT !.pc = "copy", !.op = op, !.args = args,
                          !.old = MembersNow, !.torn = TornNow]
    <3>1. /\ writer'.op = op /\ writer'.args = args
          /\ writer'.old = MembersNow /\ writer'.torn = TornNow
      BY <2>3 DEF Idle
    <3>2. archive' = archive /\ MembersNow' = MembersNow /\ TornNow' = TornNow
      BY <1>4 DEF StartWriter, MembersNow, TornNow
    <3>3. tmp' \in Seq(Members)
      BY <2>3 DEF NewTmp
    <3> QED BY <2>3, <3>1, <3>2, <3>3 DEF Opened
  <2> QED BY <2>1, <2>2, <2>3
<1>5. CASE CopyMember
  <2>1. /\ writer' = [writer EXCEPT !.at = writer.at + 1] /\ archive' = archive
        /\ writer.pc = "copy" /\ writer.at \in 1 .. Len(writer.old)
        /\ writer.old \in Seq(Members) /\ tmp \in Seq(Members)
    BY <1>2, <1>5 DEF CopyMember, Processes, Opened
  <2>2. tmp' \in Seq(Members)
    BY <1>5, <2>1 DEF CopyMember
  <2>3. /\ writer'.pc = writer.pc /\ writer'.op = writer.op /\ writer'.args = writer.args
        /\ writer'.old = writer.old /\ writer'.torn = writer.torn
    BY <1>2, <2>1 DEF Processes
  <2> QED BY <1>0, <2>1, <2>2, <2>3
<1>6. CASE CopyEnd
  <2>1. CASE writer' = [writer EXCEPT !.pc = "add", !.at = 1] /\ archive' = archive /\ tmp' = tmp
    <3>1. /\ writer'.pc = "add" /\ writer'.op = writer.op /\ writer'.args = writer.args
          /\ writer'.old = writer.old /\ writer'.torn = writer.torn
      BY <1>2, <2>1 DEF Processes
    <3>2. writer.pc = "copy" /\ tmp \in Seq(Members)
      BY <1>6 DEF CopyEnd, Opened
    <3> QED BY <1>0, <2>1, <3>1, <3>2
  <2> QED BY <1>3, <1>6, <2>1 DEF CopyEnd
<1>7. CASE AddFile
  <2> DEFINE path == writer.args[writer.at]
             new == [name |-> BaseName(path), data |-> files[path]]
  <2>0. writer.pc = "add" /\ (Fail \/ (/\ files[path] # None /\ tmp' = Append(tmp, new)
                                      /\ writer' = [writer EXCEPT !.at = writer.at + 1]
                                      /\ archive' = archive))
    BY <1>7 DEF AddFile
  <2>1. CASE /\ writer' = [writer EXCEPT !.at = writer.at + 1] /\ archive' = archive
             /\ files[path] # None /\ tmp' = Append(tmp, new)
    <3>1. /\ writer'.pc = writer.pc /\ writer'.op = writer.op /\ writer'.args = writer.args
          /\ writer'.old = writer.old /\ writer'.torn = writer.torn
      BY <1>2, <2>1 DEF Processes
    <3>2. tmp \in Seq(Members)
      BY <2>0 DEF Opened
    <3>3. writer.at <= Len(writer.args)
      BY <1>7 DEF AddFile
    <3>4. new \in Members
      BY <2>0, <2>1, <3>3, NewMember
    <3>5. tmp' \in Seq(Members)
      <4> HIDE DEF new
      <4> QED BY <2>1, <3>2, <3>4
    <3> QED BY <1>0, <2>0, <2>1, <3>1, <3>5
  <2> QED BY <1>3, <2>0, <2>1
<1>8. CASE Rename
  BY <1>8, <1>1, IdleType DEF Rename, Finish
<1>9. CASE SystemFails
  BY <1>9, <1>3 DEF SystemFails
<1>10. CASE Killed
  BY <1>10, <1>1, IdleType DEF Killed, Finish
<1>11. CASE ReaderNext
  BY <1>11, ReaderApart DEF Opened, MembersNow, TornNow
<1>12. CASE UNCHANGED vars
  BY <1>12 DEF vars, Opened, MembersNow, TornNow
<1> QED
  BY <1>4, <1>5, <1>6, <1>7, <1>8, <1>9, <1>10, <1>11, <1>12 DEF Next, ReaderNext

\* What r leaves of the first members, one more at a time.
LEMMA TakenStep ==
  ASSUME NEW op, NEW args, NEW old \in Seq(Members)
  PROVE  /\ Taken(op, args, old, 0) = <<>>
         /\ \A n \in 1 .. Len(old) :
              Taken(op, args, old, n) =
                IF op = "r" /\ old[n].name \in NameSet(args) THEN Taken(op, args, old, n - 1)
                ELSE Append(Taken(op, args, old, n - 1), old[n])
         /\ \A n \in 0 .. Len(old) : Taken(op, args, old, n) \in Seq(Members)
<1> DEFINE w == Store!Without(old, NameSet(args))
           t(n) == Taken(op, args, old, n)
<1>1. Len(old) \in Nat
  OBVIOUS
<1>2. /\ w[0] = <<>>
      /\ \A n \in 1 .. Len(old) : w[n] = IF old[n].name \in NameSet(args) THEN w[n - 1]
                                         ELSE Append(w[n - 1], old[n])
  BY <1>1, LeftStep
<1>3. CASE op # "r"
  <2>1. \A n \in 0 .. Len(old) : t(n) = SubSeq(old, 1, n)
    BY <1>3 DEF Taken
  <2>2. SubSeq(old, 1, 0) = <<>>
    OBVIOUS
  <2>3. \A n \in 1 .. Len(old) : SubSeq(old, 1, n) = Append(SubSeq(old, 1, n - 1), old[n])
    OBVIOUS
  <2>4. \A n \in 0 .. Len(old) : SubSeq(old, 1, n) \in Seq(Members)
    OBVIOUS
  <2> HIDE DEF t
  <2>5. t(0) = <<>> /\ \A n \in 0 .. Len(old) : t(n) \in Seq(Members)
    BY <1>1, <2>1, <2>2, <2>4
  <2>6. ASSUME NEW n \in 1 .. Len(old) PROVE t(n) = Append(t(n - 1), old[n])
    <3>1. n \in 0 .. Len(old) /\ n - 1 \in 0 .. Len(old)
      BY <1>1
    <3> QED BY <3>1, <2>1, <2>3
  <2> QED BY <1>3, <2>5, <2>6 DEF t
<1>4. CASE op = "r"
  <2>1. \A n : t(n) = w[n]
    BY <1>4 DEF Taken
  <2> HIDE DEF w
  <2>2. \A n \in 0 .. Len(old) : w[n] \in Seq(Members)
    BY LeftType DEF w
  <2> HIDE DEF t
  <2> QED BY <1>2, <1>4, <2>1, <2>2 DEF t
<1> QED BY <1>3, <1>4

\* .tmp grows as what r or q takes over does.
LEMMA CopiedStep ==
  ASSUME IInv, [Next]_vars
  PROVE  Copied'
<1> USE DEF IInv
<1>1. writer \in Processes /\ writer.at \in Nat \ {0} /\ writer.old \in Seq(Members)
  BY DEF TypeInv, TypeOK, Processes
<1>2. ASSUME writer'.pc # "copy" PROVE Copied'
  BY <1>2 DEF Copied
<1>3. ASSUME Fail PROVE Copied'
  BY <1>2, <1>3, IdleType DEF Fail, Finish
<1>4. CASE StartWriter
  <2>1. PICK op \in WriteOps, args \in ArgLists :
       \/ Finish(1)
       \/ /\ archive # Junk
          /\ tmp' = NewTmp
          /\ writer' = [Idle EXCEPT !.pc = "copy", !.op = op, !.args = args,
                          !.old = MembersNow, !.torn = TornNow]
    BY <1>4 DEF StartWriter, MembersNow, TornNow
  <2>2. CASE Finish(1)
    BY <2>2, <1>2, IdleType DEF Finish
  <2>3. CASE /\ archive # Junk /\ tmp' = NewTmp
             /\ writer' = [Idle EXCEPT !.pc = "copy", !.op = op, !.args = args,
                          !.old = MembersNow, !.torn = TornNow]
    <3>1. writer'.at = 1 /\ writer'.old = MembersNow /\ tmp' = <<>>
      BY <2>3 DEF Idle, NewTmp
    <3>2. MembersNow \in Seq(Members)
      BY <2>3, OpenedType DEF TypeInv, TypeOK
    <3>3. Len(writer'.old) \in Nat /\ writer'.old \in Seq(Members)
      BY <3>1, <3>2
    <3>4. TakenOver(0)' = <<>>
      BY <3>3, TakenStep DEF TakenOver
    <3>5. writer'.at <= Len(writer'.old) + 1 /\ TakenOver(writer.at - 1)' = <<>>
      BY <3>1, <3>3, <3>4 DEF TakenOver
    <3> QED BY <3>1, <3>5 DEF Copied
  <2> QED BY <2>1, <2>2, <2>3
<1>5. CASE CopyMember
  <2>1. /\ writer' = [writer EXCEPT !.at = writer.at + 1]
        /\ writer.pc = "copy" /\ writer.at \in 1 .. Len(writer.old)
        /\ tmp = TakenOver(writer.at - 1)
        /\ tmp' = IF writer.op = "r" /\ writer.old[writer.at].name \in NameSet(writer.args)
                  THEN tmp ELSE Append(tmp, writer.old[writer.at])
    BY <1>1, <1>5 DEF CopyMember, Copied
  <2>2. /\ writer'.op = writer.op /\ writer'.args = writer.args
        /\ writer'.old = writer.old /\ writer'.at = writer.at + 1
    BY <1>1, <2>1 DEF Processes
  <2>3. tmp' = TakenOver(writer.at)
    <3> DEFINE t(n) == Taken(writer.op, writer.args, writer.old, n)
    <3>1. \A n \in 1 .. Len(writer.old) :
            t(n) = IF writer.op = "r" /\ writer.old[n].name \in NameSet(writer.args)
                   THEN t(n - 1) ELSE Append(t(n - 1), writer.old[n])
      BY <1>1, TakenStep
    <3>2. tmp = t(writer.at - 1) /\ TakenOver(writer.at) = t(writer.at)
      BY <2>1 DEF TakenOver
    <3> HIDE DEF t
    <3> QED BY <2>1, <3>1, <3>2
  <2>4. tmp' = Taken(writer'.op, writer'.args, writer'.old, writer'.at - 1)
    <3>1. writer'.at - 1 = writer.at
      BY <2>1, <2>2
    <3> QED BY <2>2, <2>3, <3>1 DEF TakenOver
  <2>5. writer'.at <= Len(writer'.old) + 1
    BY <1>1, <2>1, <2>2
  <2> QED BY <2>4, <2>5 DEF Copied, TakenOver
<1>6. CASE CopyEnd
  <2>1. CASE writer' = [writer EXCEPT !.pc = "add", !.at = 1]
    <3>1. writer'.pc = "add"
      BY <1>1, <2>1 DEF Processes
    <3> QED BY <3>1, <1>2
  <2> QED BY <1>3, <1>6, <2>1 DEF CopyEnd
<1>7. CASE AddFile
  <2>1. CASE writer' = [writer EXCEPT !.at = writer.at + 1]
    <3>1. writer'.pc = "add"
      BY <1>1, <1>7, <2>1 DEF AddFile, Processes
    <3> QED BY <3>1, <1>2
  <2> QED BY <1>3, <1>7, <2>1 DEF AddFile
<1>8. CASE Rename
  BY <1>8, <1>2, IdleType DEF Rename, Finish
<1>9. CASE SystemFails
  BY <1>9, <1>3 DEF SystemFails
<1>10. CASE Killed
  BY <1>10, <1>2, IdleType DEF Killed, Finish
<1>11. CASE ReaderNext \/ UNCHANGED vars
  <2>1. writer' = writer /\ tmp' = tmp
    BY <1>11, ReaderApart DEF vars
  <2> QED BY <2>1 DEF Copied, TakenOver
<1> QED
  BY <1>4, <1>5, <1>6, <1>7, <1>8, <1>9, <1>10, <1>11 DEF Next, ReaderNext

\* The files added so far are members.
LEMMA AddedSeq ==
  ASSUME NEW args, NEW n \in Nat, NEW batch \in Added(args, n)
  PROVE  batch \in Seq(Members) /\ Len(batch) = n
<1>1. batch \in [1 .. n -> Members]
  BY DEF Added, Members
<1> QED BY <1>1

\* Appending to what was concatenated last.
LEMMA AppendConcat ==
  ASSUME NEW S, NEW s \in Seq(S), NEW t \in Seq(S), NEW e \in S
  PROVE  Append(s \o t, e) = s \o Append(t, e)
OBVIOUS

\* A function on 1 .. n is a sequence, and appending makes it one longer.
LEMMA LongerFunction ==
  ASSUME NEW S, NEW n \in Nat, NEW f \in [1 .. n -> S], NEW e \in S
  PROVE  /\ f \in Seq(S) /\ Len(f) = n
         /\ Append(f, e) \in [1 .. n + 1 -> S]
         /\ \A k \in 1 .. n + 1 : Append(f, e)[k] = IF k <= n THEN f[k] ELSE e
<1>1. f \in Seq(S) /\ Len(f) = n
  OBVIOUS
<1>2. Append(f, e) \in Seq(S) /\ Len(Append(f, e)) = n + 1
  BY <1>1
<1>3. \A k \in 1 .. n + 1 : Append(f, e)[k] = IF k <= n THEN f[k] ELSE e
  BY <1>1
<1>4. Append(f, e) \in [1 .. n + 1 -> S]
  <2> DEFINE more == Append(f, e)
  <2>1. more \in Seq(S) /\ Len(more) = n + 1
    BY <1>2
  <2> HIDE DEF more
  <2>2. more \in [1 .. n + 1 -> S]
    BY <2>1
  <2> QED BY <2>2 DEF more
<1> QED BY <1>1, <1>3, <1>4

\* One more file: the batch is one longer, by the names still.
LEMMA AddedOne ==
  ASSUME NEW args, NEW n \in Nat, NEW batch \in Added(args, n),
         NEW m \in [name : Names, data : Contents], m.name = BaseName(args[n + 1])
  PROVE  Append(batch, m) \in Added(args, n + 1)
<1>1. batch \in [1 .. n -> [name : Names, data : Contents]]
      /\ \A k \in 1 .. n : batch[k].name = BaseName(args[k])
  BY DEF Added
<1> DEFINE more == Append(batch, m)
<1>3. more \in [1 .. n + 1 -> [name : Names, data : Contents]]
  BY <1>1, LongerFunction
<1>4. \A k \in 1 .. n + 1 : more[k] = IF k <= n THEN batch[k] ELSE m
  BY <1>1, LongerFunction
<1> HIDE DEF more
<1>5. ASSUME NEW k \in 1 .. n + 1 PROVE more[k].name = BaseName(args[k])
  <2>1. CASE k <= n
    <3>1. k \in 1 .. n /\ more[k] = batch[k]
      BY <1>4, <2>1
    <3> QED BY <1>1, <3>1
  <2>2. CASE ~(k <= n)
    <3>1. k = n + 1 /\ more[k] = m
      BY <1>4, <2>2
    <3> QED BY <3>1
  <2> QED BY <2>1, <2>2
<1>6. more \in Added(args, n + 1)
  BY <1>3, <1>5 DEF Added
<1> QED BY <1>6 DEF more

\* Behind it the files come in their order, whatever a reader does to files meanwhile.
LEMMA AppendedStep ==
  ASSUME IInv, [Next]_vars
  PROVE  Appended'
<1> USE DEF IInv
<1>1. writer \in Processes /\ writer.at \in Nat \ {0} /\ writer.old \in Seq(Members)
  BY DEF TypeInv, TypeOK, Processes
<1>2. ASSUME writer'.pc # "add" PROVE Appended'
  BY <1>2 DEF Appended
<1>3. ASSUME Fail PROVE Appended'
  BY <1>2, <1>3, IdleType DEF Fail, Finish
<1>4. CASE StartWriter
  <2>1. PICK op \in WriteOps, args \in ArgLists :
       \/ Finish(1)
       \/ writer' = [Idle EXCEPT !.pc = "copy", !.op = op, !.args = args,
                          !.old = MembersNow, !.torn = TornNow]
    BY <1>4 DEF StartWriter, MembersNow, TornNow
  <2>2. writer'.pc # "add"
    BY <2>1, IdleType DEF Finish, Idle
  <2> QED BY <1>2, <2>2
<1>5. CASE CopyMember
  <2>1. writer'.pc = "copy"
    BY <1>1, <1>5 DEF CopyMember, Processes
  <2> QED BY <1>2, <2>1
<1>6. CASE CopyEnd
  <2>1. CASE /\ writer.torn = "no" /\ writer' = [writer EXCEPT !.pc = "add", !.at = 1]
             /\ tmp' = tmp
    <3>1. /\ writer'.at = 1 /\ writer'.args = writer.args /\ writer'.torn = "no"
          /\ writer'.op = writer.op /\ writer'.old = writer.old
      BY <1>1, <2>1 DEF Processes
    <3>2. /\ writer.pc = "copy" /\ writer.at > Len(writer.old)
          /\ writer.at <= Len(writer.old) + 1 /\ tmp = TakenOver(writer.at - 1)
          /\ Len(writer.old) \in Nat /\ tmp \in Seq(Members) /\ writer.args \in ArgLists
      BY <1>1, <1>6 DEF CopyEnd, Copied, Opened
    <3>3. /\ tmp = TakenOver(Len(writer.old))
          /\ TakenOver(Len(writer.old))' = TakenOver(Len(writer.old))
      <4>1. writer.at - 1 = Len(writer.old)
        BY <1>1, <3>2
      <4> QED BY <3>1, <3>2, <4>1 DEF TakenOver
    <3>4. <<>> \in Added(writer.args, 0)
      BY DEF Added
    <3>5. tmp' = TakenOver(Len(writer.old))' \o <<>>
      BY <2>1, <3>2, <3>3
    <3>6. writer'.at <= Len(writer'.args) + 1 /\ writer'.at - 1 = 0
      <4>1. Len(writer.args) \in Nat
        BY <3>2, ArgsAssumption
      <4> QED BY <3>1, <4>1
    <3>7. tmp' = Taken(writer'.op, writer'.args, writer'.old, Len(writer'.old)) \o <<>>
      BY <3>1, <3>5 DEF TakenOver
    <3> QED BY <3>1, <3>4, <3>6, <3>7 DEF Appended, TakenOver
  <2> QED BY <1>3, <1>6, <2>1 DEF CopyEnd
<1>7. CASE AddFile
  <2> DEFINE path == writer.args[writer.at]
             new == [name |-> BaseName(path), data |-> files[path]]
  <2>0. writer.pc = "add" /\ writer.at <= Len(writer.args)
        /\ (Fail \/ (/\ files[path] # None /\ tmp' = Append(tmp, new)
                     /\ writer' = [writer EXCEPT !.at = writer.at + 1]))
    BY <1>7 DEF AddFile
  <2>1. CASE /\ files[path] # None /\ tmp' = Append(tmp, new)
             /\ writer' = [writer EXCEPT !.at = writer.at + 1]
    <3>1. /\ writer'.at = writer.at + 1 /\ writer'.args = writer.args
          /\ writer'.torn = writer.torn /\ writer'.op = writer.op /\ writer'.old = writer.old
      BY <1>1, <2>1 DEF Processes
    <3>2. writer.torn = "no"
      BY <2>0 DEF Appended
    <3>3. PICK batch \in Added(writer.args, writer.at - 1) :
            tmp = TakenOver(Len(writer.old)) \o batch
      BY <2>0 DEF Appended
    <3>4. new \in Members /\ BaseName(path) \in Names
      BY <2>0, <2>1, NewMember
    <3>5. new \in [name : Names, data : Contents] /\ new.name = BaseName(writer.args[writer.at])
      BY <3>4 DEF Members
    <3>6. Append(batch, new) \in Added(writer.args, writer.at)
      <4> HIDE DEF new
      <4>1. writer.at - 1 \in Nat /\ (writer.at - 1) + 1 = writer.at
        BY <1>1
      <4>2. Append(batch, new) \in Added(writer.args, (writer.at - 1) + 1)
        BY <4>1, <3>3, <3>5, AddedOne
      <4> QED BY <4>1, <4>2
    <3>7. tmp' = TakenOver(Len(writer.old)) \o Append(batch, new)
      <4>1. batch \in Seq(Members)
        BY <1>1, <3>3, AddedSeq
      <4>2. TakenOver(Len(writer.old)) \in Seq(Members)
        <5>1. Len(writer.old) \in 0 .. Len(writer.old)
          BY <1>1
        <5> QED BY <1>1, <5>1, TakenStep DEF TakenOver
      <4> HIDE DEF new
      <4> QED BY <2>1, <3>3, <3>4, <4>1, <4>2, AppendConcat, SMTT(60)
    <3> HIDE DEF new
    <3>8. tmp' = Taken(writer'.op, writer'.args, writer'.old, Len(writer'.old))
                   \o Append(batch, new)
      BY <3>1, <3>7 DEF TakenOver
    <3>9. Append(batch, new) \in Added(writer'.args, writer'.at - 1)
      <4>1. writer'.at - 1 = writer.at
        BY <1>1, <3>1
      <4> QED BY <3>1, <3>6, <4>1
    <3>10. writer'.at <= Len(writer'.args) + 1
      <4>1. Len(writer.args) \in Nat
        BY <2>0, ArgsAssumption DEF Opened
      <4> QED BY <1>1, <2>0, <3>1, <4>1
    <3> QED BY <3>1, <3>2, <3>8, <3>9, <3>10 DEF Appended, TakenOver
  <2> QED BY <1>3, <2>0, <2>1
<1>8. CASE Rename
  BY <1>8, <1>2, IdleType DEF Rename, Finish
<1>9. CASE SystemFails
  BY <1>9, <1>3 DEF SystemFails
<1>10. CASE Killed
  BY <1>10, <1>2, IdleType DEF Killed, Finish
<1>11. CASE ReaderNext \/ UNCHANGED vars
  <2>1. writer' = writer /\ tmp' = tmp
    BY <1>11, ReaderApart DEF vars
  <2> QED BY <2>1 DEF Appended, TakenOver
<1> QED
  BY <1>4, <1>5, <1>6, <1>7, <1>8, <1>9, <1>10, <1>11 DEF Next, ReaderNext

\* Every step keeps the types.
LEMMA TypeStep ==
  ASSUME TypeInv, Opened, [Next]_vars
  PROVE  TypeInv'
<1>1. CASE WriterNext
  BY <1>1, WriterType
<1>2. CASE ReaderNext
  BY <1>2, ReaderType
<1>3. CASE UNCHANGED vars
  BY <1>3 DEF vars, TypeInv, TypeOK, ReaderAt
<1> QED BY <1>1, <1>2, <1>3 DEF Next, WriterNext, ReaderNext

\* The invariant is inductive.
THEOREM Invariant == Spec => []IInv
<1>1. Init => IInv
  <2> SUFFICES ASSUME Init PROVE IInv
    OBVIOUS
  <2>1. TypeInv
    BY TypeInit
  <2>2. writer.pc = "idle"
    BY IdleType DEF Init
  <2> QED BY <2>1, <2>2 DEF IInv, Opened, Copied, Appended
<1>2. IInv /\ [Next]_vars => IInv'
  <2> SUFFICES ASSUME IInv, [Next]_vars PROVE IInv'
    OBVIOUS
  <2>1. TypeInv'
    BY TypeStep DEF IInv
  <2> QED BY <2>1, OpenedStep, CopiedStep, AppendedStep DEF IInv
<1> QED BY <1>1, <1>2, PTL DEF Spec

\* The variables of the archiver, and the files, only ever hold what they can.
THEOREM TypeCorrect == Spec => []TypeOK
<1>1. IInv => TypeOK
  BY DEF IInv, TypeInv
<1> QED BY <1>1, Invariant, PTL

\* A command that has begun and ends, unless it is killed, leaves no .tmp behind.
THEOREM CleansUp == Spec => NoTmpLeft
<1>1. ASSUME IInv, [Next]_vars, Running(writer), ~Running(writer'), writer'.status # 137
      PROVE  tmp' = None
  <2> USE DEF IInv, Running
  <2>1. writer \in Processes
    BY <1>1 DEF TypeInv, TypeOK
  <2>2. CASE StartWriter
    BY <1>1, <2>2 DEF StartWriter
  <2>3. CASE CopyMember
    <3>1. writer'.pc = writer.pc
      BY <2>1, <2>3 DEF CopyMember, Processes
    <3> QED BY <1>1, <3>1
  <2>4. CASE CopyEnd
    <3>1. CASE writer' = [writer EXCEPT !.pc = "add", !.at = 1]
      <4>1. writer'.pc = "add"
        BY <2>1, <3>1 DEF Processes
      <4> QED BY <1>1, <4>1
    <3> QED BY <2>4, <3>1 DEF CopyEnd, Fail
  <2>5. CASE AddFile
    <3>1. CASE writer' = [writer EXCEPT !.at = writer.at + 1]
      <4>1. writer'.pc = writer.pc
        BY <2>1, <3>1 DEF Processes
      <4> QED BY <1>1, <4>1
    <3> QED BY <2>5, <3>1 DEF AddFile, Fail
  <2>6. CASE Rename \/ SystemFails
    BY <2>6 DEF Rename, SystemFails, Fail
  <2>7. CASE Killed
    <3>1. writer'.status = 137
      BY <2>7 DEF Killed, Finish, Idle
    <3> QED BY <1>1, <3>1
  <2>8. CASE ReaderNext \/ UNCHANGED vars
    <3>1. writer' = writer
      BY <2>8, ReaderApart DEF vars
    <3> QED BY <1>1, <3>1
  <2> QED BY <1>1, <2>2, <2>3, <2>4, <2>5, <2>6, <2>7, <2>8 DEF Next, ReaderNext
<1>2. IInv /\ [Next]_vars =>
        [Running(writer) /\ ~Running(writer') /\ writer'.status # 137 => tmp' = None]_vars
  BY <1>1
<1> QED BY <1>2, Invariant, PTL DEF Spec, NoTmpLeft

-----------------------------------------------------------------------------
\* What the refinement makes of the archive.
Stored == IF archive = None THEN None ELSE archive.members
Damaged == archive # None /\ archive.torn # "no"
Brought == UNION {[DOMAIN args -> [name : Names, data : Contents]] : args \in ArgLists}

\* All the files of a command have been added: that is what it was to bring.
LEMMA BatchWhole ==
  ASSUME NEW args \in ArgLists, NEW batch \in Added(args, Len(args))
  PROVE  batch \in Brought /\ Store!NamesOf(batch) = NameSet(args)
<1>1. args \in Seq(Paths)
  BY ArgsAssumption
<1>2. DOMAIN args = 1 .. Len(args)
  BY <1>1
<1>3. /\ batch \in [1 .. Len(args) -> [name : Names, data : Contents]]
      /\ \A k \in 1 .. Len(args) : batch[k].name = BaseName(args[k])
  BY DEF Added
<1>4. batch \in Brought
  BY <1>2, <1>3 DEF Brought
<1>5. DOMAIN batch = 1 .. Len(args)
  BY <1>3
<1>6. Store!NamesOf(batch) = NameSet(args)
  BY <1>2, <1>3, <1>5 DEF Store!NamesOf, NameSet
<1> QED BY <1>4, <1>6

\* Rename is the one step that the abstract specification sees.
LEMMA RenameStores ==
  ASSUME IInv, Rename
  PROVE  Store!Next
<1> USE DEF IInv
<1>1. /\ writer.pc = "add" /\ writer.at > Len(writer.args)
      /\ archive' = [members |-> tmp, torn |-> "no"]
  BY DEF Rename
<1>2. /\ writer.op \in WriteOps /\ writer.args \in ArgLists /\ archive # Junk
      /\ writer.old = MembersNow /\ writer.torn = TornNow /\ tmp \in Seq(Members)
  BY <1>1 DEF Opened
<1>3. writer.torn = "no" /\ writer.at <= Len(writer.args) + 1
  BY <1>1 DEF Appended
<1>4. writer.at - 1 = Len(writer.args)
  <2>1. writer.at \in Nat /\ Len(writer.args) \in Nat
    BY <1>2, ArgsAssumption DEF TypeInv, TypeOK, Processes
  <2> QED BY <1>1, <1>3, <2>1
<1>5. PICK batch \in Added(writer.args, Len(writer.args)) :
        tmp = TakenOver(Len(writer.old)) \o batch
  BY <1>1, <1>4 DEF Appended
<1>6. batch \in Brought /\ Store!NamesOf(batch) = NameSet(writer.args)
  BY <1>2, <1>5, BatchWhole
<1>7. archive' # None /\ Stored' = tmp /\ ~Damaged'
  <2>1. archive' \in Archives
    BY <1>1, <1>2 DEF Archives
  <2>2. archive' # None
    BY <2>1, NoneAssumption
  <2> QED BY <1>1, <2>2 DEF Stored, Damaged
<1>8. ~Damaged
  BY <1>2, <1>3 DEF Damaged, TornNow
<1>9. writer.old = Store!Old
  <2>1. archive # None => archive.members \in Seq(Members)
    BY <1>2 DEF TypeInv, TypeOK, Archives
  <2> QED BY <1>2, <2>1, NoneAssumption DEF MembersNow, Store!Old
<1>10. MembersNow \in Seq(Members)
  BY <1>2, OpenedType DEF TypeInv, TypeOK
<1>11. CASE writer.op = "r"
  <2>1. tmp = Store!Without(Store!Old, Store!NamesOf(batch))[Len(Store!Old)] \o batch
    BY <1>5, <1>6, <1>9, <1>11 DEF TakenOver, Taken
  <2>2. Store!Replace(batch)
    BY <1>7, <2>1 DEF Store!Replace, Stored
  <2> QED BY <1>6, <1>7, <1>8, <2>2 DEF Store!Next, Damaged, Brought
<1>12. CASE writer.op = "q"
  <2>1. SubSeq(writer.old, 1, Len(writer.old)) = writer.old
    BY <1>2, <1>10
  <2>2. tmp = Store!Old \o batch
    BY <1>5, <1>9, <1>12, <2>1 DEF TakenOver, Taken
  <2>3. Store!Add(batch)
    BY <1>7, <2>2 DEF Store!Add, Stored
  <2> QED BY <1>6, <1>7, <1>8, <2>3 DEF Store!Next, Damaged, Brought
<1> QED BY <1>2, <1>11, <1>12 DEF WriteOps

\* The archiver implements MemberStore: under its name there is at any time one
\* whole archive (or the damaged one that was there), and it only changes to the
\* archive that the command was to make of it.
THEOREM StoreRefines == Spec => StoresMembers
<1>1. Init => Store!Init
  <2> SUFFICES ASSUME Init PROVE Store!Init
    OBVIOUS
  <2>1. archive \in {None, Junk} \cup Archives
    BY FirstAssumption DEF Init
  <2>2. archive # None => archive.members \in Seq(Members)
    <3>1. CASE archive = Junk
      <4>1. <<>> \in Seq(Members)
        OBVIOUS
      <4>2. archive.members = <<>>
        BY <3>1 DEF Junk
      <4> QED BY <4>1, <4>2
    <3>2. CASE archive \in Archives
      BY <3>2 DEF Archives
    <3> QED BY <2>1, <3>1, <3>2
  <2> QED BY <2>2 DEF Store!Init
<1>2. IInv /\ [Next]_vars => [Store!Next]_<<Stored, Damaged>>
  <2> SUFFICES ASSUME IInv, [Next]_vars
               PROVE  Store!Next \/ UNCHANGED <<Stored, Damaged>>
    OBVIOUS
  <2>1. CASE Rename
    BY <2>1, RenameStores
  <2>2. CASE ~Rename
    <3>1. archive' = archive
      <4>1. CASE ReaderNext
        BY <4>1, ReaderApart
      <4>2. CASE ~ReaderNext
        BY <2>2, <4>2 DEF Next, ReaderNext, vars, StartWriter, CopyMember, CopyEnd, AddFile,
                          SystemFails, Killed, Fail
      <4> QED BY <4>1, <4>2
    <3> QED BY <3>1 DEF Stored, Damaged
  <2> QED BY <2>1, <2>2
<1>3. IInv /\ [Next]_vars => [Store!Next]_<<IF archive = None THEN None ELSE archive.members,
                                            archive # None /\ archive.torn # "no">>
  BY <1>2 DEF Stored, Damaged
<1> QED BY <1>1, <1>3, Invariant, PTL DEF Spec, StoresMembers, Store!Spec

-----------------------------------------------------------------------------
(***************************************************************************)
(* What a reader has printed, and extracted, when it is at a member: what  *)
(* was asked for of those before it.  The last extracted member of a name  *)
(* counts; while one is being filled it already is the last.               *)
(***************************************************************************)
Shown(n) == Store!Without(reader.old, NotAsked)[n]
Reached == IF reader.pc = "fill" THEN reader.at ELSE reader.at - 1
LastOf(k, n) == \A j \in k + 1 .. n : reader.old[j].name # reader.old[k].name
Extracted(k) == files[<<Here, reader.old[k].name>>] \in Flushed(reader.old[k])
Reading ==
  reader.pc # "idle" =>
    /\ reader.at <= Len(reader.old) + 1
    /\ printed = Shown(reader.at - 1)
    /\ reader.op = "x" =>
         \A k \in 1 .. reader.at - 1 :
            Asked(reader.old[k].name) /\ LastOf(k, Reached) => Extracted(k)
    /\ reader.pc = "fill" => Asked(Entry.name) /\ Entry.name \notin Suspicious
ReadInv == Reading /\ ReadsWholeArchive

\* The next member joins what is shown when it was asked for.
LEMMA ShownStep ==
  ASSUME TypeInv, reader.at <= Len(reader.old)
  PROVE  Shown(reader.at) = IF Asked(Entry.name) THEN Append(Shown(reader.at - 1), Entry)
                            ELSE Shown(reader.at - 1)
<1>1. /\ reader.old \in Seq(Members) /\ reader.at \in Nat \ {0} /\ Len(reader.old) \in Nat
  BY DEF TypeInv, TypeOK, Processes
<1>2. reader.at \in 1 .. Len(reader.old)
  BY <1>1
<1>3. Shown(reader.at) = IF Entry.name \in NotAsked THEN Shown(reader.at - 1)
                         ELSE Append(Shown(reader.at - 1), Entry)
  BY <1>1, <1>2, LeftStep DEF Shown, Entry
<1>4. Entry.name \in Names \cup Suspicious
  BY EntryType DEF Members
<1>5. Entry.name \in NotAsked <=> ~Asked(Entry.name)
  BY <1>4 DEF NotAsked
<1> QED BY <1>3, <1>5

LEMMA ReadInit == Init => ReadInv
<1> SUFFICES ASSUME Init PROVE ReadInv
  OBVIOUS
<1>1. reader.pc = "idle" /\ reader.torn = "no" /\ reader.op = "none"
  BY DEF Init, Idle
<1> QED BY <1>1 DEF ReadInv, Reading, ReadsWholeArchive

\* A reader that goes on, over a member it lists, skips or has filled.
LEMMA ReadOn ==
  ASSUME TypeInv, Reading, reader.pc # "idle", reader.at <= Len(reader.old),
         reader'.pc = "read", reader'.at = reader.at + 1, reader'.old = reader.old,
         reader'.args = reader.args, reader'.op = reader.op,
         printed' = IF Asked(Entry.name) THEN Append(printed, Entry) ELSE printed,
         reader.op = "x" =>
           /\ \A k \in 1 .. reader.at - 1 : LastOf(k, reader.at) /\ Extracted(k) =>
                files'[<<Here, reader.old[k].name>>] \in Flushed(reader.old[k])
           /\ Asked(Entry.name) => files'[<<Here, Entry.name>>] \in Flushed(Entry)
  PROVE  ReadInv'
<1>1. /\ reader \in Processes /\ reader.at \in Nat \ {0} /\ Len(reader.old) \in Nat
  BY DEF TypeInv, TypeOK, Processes
<1>2. /\ reader'.pc = "read" /\ reader'.at = reader.at + 1 /\ reader'.old = reader.old
      /\ reader'.args = reader.args /\ reader'.op = reader.op
  OBVIOUS
<1>3. /\ NotAsked' = NotAsked /\ \A n : Shown(n)' = Shown(n) /\ Asked(n)' = Asked(n)
      /\ \A k, n : LastOf(k, n)' = LastOf(k, n)
  BY <1>2 DEF NotAsked, Asked, Shown, LastOf
<1>4. printed' = Shown(reader.at)
  BY ShownStep DEF Reading
<1>5. reader'.at - 1 = reader.at /\ Reached' = reader.at
  BY <1>1, <1>2 DEF Reached
<1>6. ASSUME reader.op = "x", NEW k \in 1 .. reader.at,
             Asked(reader.old[k].name), LastOf(k, reader.at)
      PROVE  files'[<<Here, reader.old[k].name>>] \in Flushed(reader.old[k])
  <2>1. CASE k = reader.at
    BY <1>6, <2>1 DEF Entry
  <2>2. CASE k # reader.at
    <3>1. k \in 1 .. reader.at - 1
      BY <1>1, <2>2
    <3>2. LastOf(k, Reached)
      BY <1>1, <1>6 DEF LastOf, Reached
    <3>3. Extracted(k)
      BY <1>6, <3>1, <3>2 DEF Reading
    <3> QED BY <1>6, <3>1, <3>3
  <2> QED BY <2>1, <2>2
<1>7. reader'.op = "x" =>
        \A k \in 1 .. reader'.at - 1 :
           Asked(reader.old[k].name)' /\ LastOf(k, Reached)' => Extracted(k)'
  <2> SUFFICES ASSUME reader.op = "x", NEW k \in 1 .. reader.at,
                      Asked(reader.old[k].name)', LastOf(k, Reached)'
               PROVE  Extracted(k)'
    BY <1>2, <1>5
  <2>1. Asked(reader.old[k].name)
    BY <1>2 DEF Asked
  <2>2. LastOf(k, reader.at)
    BY <1>2, <1>5 DEF LastOf
  <2> QED BY <1>2, <1>6, <2>1, <2>2 DEF Extracted, Flushed
<1>8. reader'.at <= Len(reader'.old) + 1
  BY <1>1, <1>2
<1>9. printed' = Shown(reader.at - 1)'
  BY <1>2, <1>3, <1>4, <1>5 DEF Shown
<1> QED BY <1>2, <1>7, <1>8, <1>9 DEF ReadInv, Reading, ReadsWholeArchive, Running

\* An operation that fails, and one that has not begun, says nothing.
LEMMA ReadStopped ==
  ASSUME reader'.pc = "idle", reader'.status # 0
  PROVE  ReadInv'
BY DEF ReadInv, Reading, ReadsWholeArchive, Running

LEMMA ReadStep ==
  ASSUME TypeInv, ReadInv, [Next]_vars
  PROVE  ReadInv'
<1>1. /\ reader \in Processes /\ reader.at \in Nat \ {0} /\ Len(reader.old) \in Nat
      /\ files \in [Paths -> Contents \cup {None}] /\ Reading
      /\ reader.pc \in {"idle", "read", "fill"} /\ archive \in {None, Junk} \cup Archives
  BY DEF TypeInv, TypeOK, Processes, ReadInv
<1>2. CASE reader' = reader /\ files' = files /\ printed' = printed
  <2>1. Reading => Reading'
    BY <1>2 DEF Reading, Shown, NotAsked, Asked, Reached, LastOf, Extracted, Flushed, Entry
  <2>2. ReadsWholeArchive => ReadsWholeArchive'
    BY <1>2 DEF ReadsWholeArchive, NotAsked, Asked, Running, Flushed
  <2> QED BY <2>1, <2>2 DEF ReadInv
<1>3. CASE StartReader
  <2>1. PICK op \in ReadOps, args \in ArgLists \cup {<<>>} :
       reader' = IF archive \in {None, Junk} THEN [Idle EXCEPT !.status = 1]
                 ELSE [Idle EXCEPT !.pc = "read", !.op = op, !.args = args,
                         !.old = archive.members, !.torn = archive.torn]
    BY <1>3 DEF StartReader
  <2>2. CASE archive \in {None, Junk}
    <3>1. reader'.pc = "idle" /\ reader'.status # 0
      BY <2>1, <2>2 DEF Idle
    <3> QED BY <3>1, ReadStopped
  <2>3. CASE archive \notin {None, Junk}
    <3>1. reader'.pc = "read" /\ reader'.at = 1 /\ reader'.old = archive.members
      BY <2>1, <2>3 DEF Idle
    <3>2. Len(reader'.old) \in Nat
      BY <1>1, <2>3, <3>1 DEF Archives
    <3>3. printed' = <<>>
      BY <1>3 DEF StartReader
    <3>4. Shown(0)' = <<>>
      BY <3>2, LeftStep DEF Shown
    <3>5. \A k \in 1 .. reader'.at - 1 : FALSE
      BY <3>1
    <3>6. reader'.at - 1 = 0 /\ reader'.at <= Len(reader'.old) + 1
      BY <3>1, <3>2
    <3>7. printed' = Shown(reader.at - 1)'
      BY <3>3, <3>4, <3>6 DEF Shown
    <3> QED BY <3>1, <3>5, <3>6, <3>7 DEF ReadInv, Reading, ReadsWholeArchive, Running
  <2> QED BY <2>2, <2>3
<1>4. CASE ListMember
  <2>1. /\ reader.pc = "read" /\ reader.op = "t" /\ reader.at <= Len(reader.old)
        /\ reader' = [reader EXCEPT !.at = reader.at + 1]
        /\ printed' = IF Asked(Entry.name) THEN Append(printed, Entry) ELSE printed
    BY <1>4 DEF ListMember, AtMember
  <2>2. /\ reader'.pc = "read" /\ reader'.at = reader.at + 1 /\ reader'.old = reader.old
        /\ reader'.args = reader.args /\ reader'.op = reader.op
    BY <1>1, <2>1 DEF Processes
  <2> QED BY <1>1, <2>1, <2>2, ReadOn
<1>5. CASE SkipMember
  <2>1. /\ reader.pc = "read" /\ ~Asked(Entry.name) /\ reader.at <= Len(reader.old)
        /\ reader' = [reader EXCEPT !.at = reader.at + 1]
        /\ printed' = printed /\ files' = files
    BY <1>5 DEF SkipMember, AtMember
  <2>2. /\ reader'.pc = "read" /\ reader'.at = reader.at + 1 /\ reader'.old = reader.old
        /\ reader'.args = reader.args /\ reader'.op = reader.op
    BY <1>1, <2>1 DEF Processes
  <2>3. \A k \in 1 .. reader.at - 1 : Extracted(k) =>
                files'[<<Here, reader.old[k].name>>] \in Flushed(reader.old[k])
    BY <2>1 DEF Extracted
  <2> QED BY <1>1, <2>1, <2>2, <2>3, ReadOn
<1>6. CASE RefuseMember \/ ReaderFails
  <2>1. reader' = [reader EXCEPT !.pc = "idle", !.status = 1]
    BY <1>6 DEF RefuseMember, ReaderFails, EndReader
  <2>2. reader'.pc = "idle" /\ reader'.status = 1
    BY <1>1, <2>1 DEF Processes
  <2> QED BY <2>2, ReadStopped
<1>7. CASE OpenMember
  <2>1. /\ reader.pc = "read" /\ Asked(Entry.name) /\ Entry.name \notin Suspicious
        /\ reader' = [reader EXCEPT !.pc = "fill"] /\ printed' = printed
        /\ files' = [files EXCEPT ![<<Here, Entry.name>>] = Partial]
    BY <1>7 DEF OpenMember, AtMember
  <2>2. /\ reader'.pc = "fill" /\ reader'.at = reader.at /\ reader'.old = reader.old
        /\ reader'.args = reader.args /\ reader'.op = reader.op
    BY <1>1, <2>1 DEF Processes
  <2>3. reader'.op = "x" =>
          \A k \in 1 .. reader'.at - 1 :
             Asked(reader.old[k].name)' /\ LastOf(k, Reached)' => Extracted(k)'
    <3> SUFFICES ASSUME reader.op = "x", NEW k \in 1 .. reader.at - 1,
                        Asked(reader.old[k].name)', LastOf(k, Reached)'
                 PROVE  Extracted(k)'
      BY <2>2
    <3>1. Asked(reader.old[k].name)
      BY <2>2 DEF Asked
    <3>2. LastOf(k, reader.at)
      BY <2>2 DEF LastOf, Reached
    <3>3. LastOf(k, Reached) /\ reader.old[k].name # Entry.name
      <4>1. reader.at \in k + 1 .. reader.at
        BY <1>1
      <4>2. reader.old[k].name # Entry.name
        BY <3>2, <4>1 DEF LastOf, Entry
      <4>3. LastOf(k, Reached)
        BY <1>1, <2>1, <3>2 DEF LastOf, Reached
      <4> QED BY <4>2, <4>3
    <3>4. Extracted(k)
      BY <1>1, <2>1, <3>1, <3>3 DEF Reading
    <3>5. files'[<<Here, reader.old[k].name>>] = files[<<Here, reader.old[k].name>>]
      BY <1>1, <2>1, <3>3
    <3> QED BY <2>2, <3>4, <3>5 DEF Extracted, Flushed
  <2>4. printed' = Shown(reader.at - 1)'
    BY <1>1, <2>1, <2>2 DEF Reading, Shown, NotAsked, Asked
  <2>5. Asked(Entry.name)' /\ (Entry.name \notin Suspicious)'
    BY <2>1, <2>2 DEF Asked, Entry
  <2>6. reader'.at <= Len(reader'.old) + 1
    BY <1>1, <2>1, <2>2 DEF Reading
  <2> QED BY <2>2, <2>3, <2>4, <2>5, <2>6 DEF ReadInv, Reading, ReadsWholeArchive, Running
<1>8. CASE FillMember
  <2>1. PICK x \in Flushed(Entry) :
          /\ reader.pc = "fill" /\ files' = [files EXCEPT ![<<Here, Entry.name>>] = x]
          /\ printed' = Append(printed, Entry)
          /\ reader' = [reader EXCEPT !.pc = "read", !.at = reader.at + 1]
    BY <1>8 DEF FillMember
  <2>2. /\ reader'.pc = "read" /\ reader'.at = reader.at + 1 /\ reader'.old = reader.old
        /\ reader'.args = reader.args /\ reader'.op = reader.op
    BY <1>1, <2>1 DEF Processes
  <2>3. /\ reader.at <= Len(reader.old) /\ Asked(Entry.name) /\ Entry.name \notin Suspicious
    BY <1>1, <2>1 DEF TypeInv, ReaderAt, Reading
  <2>4. <<Here, Entry.name>> \in Paths
    BY <2>3, EntryType
  <2>5. ASSUME NEW k \in 1 .. reader.at - 1, LastOf(k, reader.at), Extracted(k)
        PROVE  files'[<<Here, reader.old[k].name>>] \in Flushed(reader.old[k])
    <3>1. reader.at \in k + 1 .. reader.at
      BY <1>1
    <3>2. reader.old[k].name # Entry.name
      BY <2>5, <3>1 DEF LastOf, Entry
    <3> QED BY <1>1, <2>1, <2>5, <3>2 DEF Extracted
  <2>6. files'[<<Here, Entry.name>>] \in Flushed(Entry)
    BY <1>1, <2>1, <2>4
  <2> QED BY <1>1, <2>1, <2>2, <2>3, <2>5, <2>6, ReadOn
<1>9. CASE ReadEnd
  <2>1. /\ reader.pc = "read" /\ reader.at > Len(reader.old)
        /\ reader' = [reader EXCEPT !.pc = "idle", !.status = IF reader.torn = "no" THEN 0 ELSE 1]
    BY <1>9 DEF ReadEnd, EndReader
  <2>2. /\ reader'.pc = "idle" /\ reader'.status = (IF reader.torn = "no" THEN 0 ELSE 1)
        /\ reader'.at = reader.at /\ reader'.old = reader.old /\ reader'.torn = reader.torn
        /\ reader'.args = reader.args /\ reader'.op = reader.op
    BY <1>1, <2>1 DEF Processes
  <2>3. CASE reader.torn # "no"
    BY <2>2, <2>3, ReadStopped
  <2>4. CASE reader.torn = "no"
    <3>1. files' = files /\ printed' = printed
      BY <1>9, <2>4, PathsAssumption DEF ReadEnd
    <3>2. reader.at - 1 = Len(reader.old) /\ Reached = Len(reader.old)
      BY <1>1, <2>1 DEF Reading, Reached
    <3>3. printed' = Store!Without(reader.old, NotAsked)'[Len(reader.old)]
      BY <1>1, <2>1, <2>2, <3>1, <3>2 DEF Reading, Shown, NotAsked, Asked
    <3>4. ASSUME reader.op = "x", NEW k \in DOMAIN reader.old, Asked(reader.old[k].name),
                 \A j \in k + 1 .. Len(reader.old) : reader.old[j].name # reader.old[k].name
          PROVE  files'[<<Here, reader.old[k].name>>] \in Flushed(reader.old[k])
      <4>1. k \in 1 .. reader.at - 1 /\ Asked(reader.old[k].name)
        <5>1. DOMAIN reader.old = 1 .. Len(reader.old)
          BY <1>1 DEF Processes
        <5> QED BY <3>2, <3>4, <5>1
      <4>2. LastOf(k, Reached)
        BY <3>2, <3>4 DEF LastOf
      <4> QED BY <1>1, <2>1, <3>1, <3>4, <4>1, <4>2 DEF Reading, Extracted
    <3>5. reader'.op # "none" =>
            printed' = Store!Without(reader.old, NotAsked)'[Len(reader'.old)]
      BY <2>2, <3>3
    <3>6. reader'.op = "x" =>
            \A k \in DOMAIN reader'.old :
               LET m == reader'.old[k] IN
               /\ reader'.args = <<>> \/ m.name \in NameSet(reader'.args)
               /\ \A j \in k + 1 .. Len(reader'.old) : reader'.old[j].name # m.name
               => files'[<<Here, m.name>>] \in Flushed(m)
      <4> SUFFICES ASSUME reader.op = "x", NEW k \in DOMAIN reader.old,
                          reader.args = <<>> \/ reader.old[k].name \in NameSet(reader.args),
                          \A j \in k + 1 .. Len(reader.old) :
                             reader.old[j].name # reader.old[k].name
                   PROVE  files'[<<Here, reader.old[k].name>>] \in Flushed(reader.old[k])
        BY <2>2
      <4> QED BY <3>4 DEF Asked
    <3>7. ReadsWholeArchive'
      BY <2>2, <2>4, <3>5, <3>6 DEF ReadsWholeArchive, Asked
    <3> QED BY <2>2, <3>7 DEF ReadInv, Reading
  <2> QED BY <2>3, <2>4
<1>10. (reader' = reader /\ files' = files /\ printed' = printed) \/ ReaderNext
  BY DEF Next, ReaderNext, vars, StartWriter, CopyMember, CopyEnd, AddFile, Rename, SystemFails,
         Killed, Fail
<1> QED BY <1>2, <1>3, <1>4, <1>5, <1>6, <1>7, <1>8, <1>9, <1>10 DEF ReaderNext

\* A listing or an extraction that reports success has seen a whole archive and has
\* shown, or left in the files, what was asked for, whatever a writer did meanwhile.
THEOREM ReadsAreWhole == Spec => []ReadsWholeArchive
<1>1. Init => ReadInv
  BY ReadInit
<1>2. IInv /\ ReadInv /\ [Next]_vars => ReadInv'
  BY ReadStep DEF IInv
<1>3. ReadInv => ReadsWholeArchive
  BY DEF ReadInv
<1> QED BY <1>1, <1>2, <1>3, Invariant, PTL DEF Spec
=============================================================================
