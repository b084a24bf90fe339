------------------------------ MODULE RelocTable ------------------------------
(***************************************************************************)
(* The relocation table of an object file, from the assembler that writes  *)
(* it (assembler/o65.c, write_segment_stmt and write_reloc_table) to the   *)
(* linker that reads it (linker/n65ld_input.c, parse_reloc_table_old).     *)
(*                                                                         *)
(* The table holds the distances between relocations in single bytes: 255  *)
(* skips 254 bytes, 0 ends the table.  A program is what it has in one o65 *)
(* segment, statement by statement: the named segment the statement is in, *)
(* its size, and where in it something is relocated: any item of a .byte   *)
(* or .word, the operand of an instruction, the JMP of a long branch.      *)
(***************************************************************************)
EXTENDS Integers, Sequences, FiniteSets, FiniteSetsExt, SequencesExt, Sums

CONSTANTS
  Byte,      \* 256
  Programs   \* sequences of statements

ASSUME ByteAssumption == Byte \in Nat /\ Byte >= 4

\* kind: a word or half of an address of this object, or an imported name.
Sites == [at: Nat, kind: {"word", "half", "import"}]
Statements == [seg: Nat \ {0}, size: Nat, sites: Seq(Sites)]

\* The sites of a statement are bytes of it, one behind the other.
ASSUME ProgramsAssumption ==
  \A p \in Programs :
     /\ p \in Seq(Statements)
     /\ \A n \in DOMAIN p : \A k \in DOMAIN p[n].sites :
           /\ p[n].sites[k].at < p[n].size
           /\ \A j \in DOMAIN p[n].sites : j < k => p[n].sites[j].at < p[n].sites[k].at

VARIABLES
  prog,     \* the statements of one o65 segment
  phase,    \* "emit", "write" and "read" in turn, then "done" or "eof"
  at,       \* the statement, or the relocation, that is looked at
  relocs,   \* buf->relocs
  prev,     \* prev of write_reloc_table, then of parse_reloc_table_old
  file,     \* the bytes of the table
  pos,      \* how many of them have been read
  items     \* what the linker has read

vars == <<prog, phase, at, relocs, prev, file, pos, items>>

\* Where both sides count from: a relocation of the first byte has distance 1.
\* Mutant: they count from the first byte.
AtFirst == 0
BeforeFirst == -1

Init ==
  /\ prog \in Programs
  /\ phase = "emit" /\ at = 1
  /\ relocs = <<>> /\ prev = BeforeFirst /\ file = <<>> /\ pos = 0 /\ items = <<>>

\* register_layout: named segments lie behind each other in the order in which the
\* program comes to them; a statement lies behind those of its segment.
FirstOf(s) == Min({n \in DOMAIN prog : prog[n].seg = s})
SizeOfAll(S) == Total([n \in DOMAIN prog |-> IF n \in S THEN prog[n].size ELSE 0], Len(prog))
PackedBase(s) == SizeOfAll({n \in DOMAIN prog : FirstOf(prog[n].seg) < FirstOf(s)})
Offset(n) == PackedBase(prog[n].seg)
             + SizeOfAll({m \in 1 .. n - 1 : prog[m].seg = prog[n].seg})

\* write_segment_stmt, one statement: maybe_add_expr_reloc appends to the list, for
\* one item after the other.
SitesOf(n) ==
  [k \in DOMAIN prog[n].sites |-> [offset |-> Offset(n) + prog[n].sites[k].at,
                                   kind |-> prog[n].sites[k].kind]]
Emit ==
  /\ phase = "emit" /\ at \in DOMAIN prog
  /\ relocs' = relocs \o SitesOf(at)
  /\ at' = at + 1
  /\ UNCHANGED <<prog, phase, prev, file, pos, items>>

EndEmit ==
  /\ phase = "emit" /\ at \notin DOMAIN prog
  /\ phase' = "write" /\ at' = 1
  /\ UNCHANGED <<prog, relocs, prev, file, pos, items>>

-----------------------------------------------------------------------------
\* write_reloc_table.  The distance is not checked for its sign: a byte of it is
\* written.  An import has a two-byte index, half an address its other half.
Delta == relocs[at].offset - prev
Fields(kind) == IF kind = "import" THEN <<1, 0, 0, 0>>
                ELSE IF kind = "half" THEN <<2, 2, 1>> ELSE <<1, 2>>

WriteSkip ==
  /\ phase = "write" /\ at \in DOMAIN relocs /\ Delta > Byte - 2
  /\ file' = Append(file, Byte - 1)
  /\ prev' = prev + Byte - 2
  /\ UNCHANGED <<prog, phase, at, relocs, pos, items>>

DeltaByte == Delta % Byte

WriteEntry ==
  /\ phase = "write" /\ at \in DOMAIN relocs /\ Delta <= Byte - 2
  /\ file' = file \o <<DeltaByte>> \o Fields(relocs[at].kind)
  /\ prev' = relocs[at].offset
  /\ at' = at + 1
  /\ UNCHANGED <<prog, phase, relocs, pos, items>>

WriteEnd ==
  /\ phase = "write" /\ at \notin DOMAIN relocs
  /\ file' = Append(file, 0)
  /\ prev' = BeforeFirst
  /\ phase' = "read"
  /\ UNCHANGED <<prog, at, relocs, pos, items>>

-----------------------------------------------------------------------------
\* parse_reloc_table_old.  Field k of the entry at pos; what it reads depends on
\* what it has read: the type (2 has another half) and the segment (0 is undefined).
Field(k) == file[pos + k]
EntrySize == 3 + (IF Field(3) = 0 THEN 2 ELSE 0) + (IF Field(2) = 2 THEN 1 ELSE 0)
KindRead == IF Field(3) = 0 THEN "import" ELSE IF Field(2) = 2 THEN "half" ELSE "word"
More(k) == pos + k <= Len(file)

ReadSkip ==
  /\ phase = "read" /\ More(1) /\ Field(1) = Byte - 1
  /\ prev' = prev + Byte - 2
  /\ pos' = pos + 1
  /\ UNCHANGED <<prog, phase, at, relocs, file, items>>

ReadEntry ==
  /\ phase = "read" /\ More(3) /\ Field(1) \notin {0, Byte - 1} /\ More(EntrySize)
  /\ prev' = prev + Field(1)
  /\ items' = Append(items, [offset |-> prev + Field(1), kind |-> KindRead])
  /\ pos' = pos + EntrySize
  /\ UNCHANGED <<prog, phase, at, relocs, file>>

ReadEnd ==
  /\ phase = "read" /\ More(1) /\ Field(1) = 0
  /\ pos' = pos + 1
  /\ phase' = "done"
  /\ UNCHANGED <<prog, at, relocs, prev, file, items>>

WholeEntry == Field(1) \in {0, Byte - 1} \/ (More(3) /\ More(EntrySize))
Truncated == ~(More(1) /\ WholeEntry)
ReadFail ==
  /\ phase = "read" /\ Truncated
  /\ phase' = "eof"
  /\ UNCHANGED <<prog, at, relocs, prev, file, pos, items>>

Next == \/ Emit \/ EndEmit \/ WriteSkip \/ WriteEntry \/ WriteEnd
        \/ ReadSkip \/ ReadEntry \/ ReadEnd \/ ReadFail
Spec == Init /\ [][Next]_vars

-----------------------------------------------------------------------------
\* The state variables hold what the C variables and the file can hold.
TypeOK ==
  /\ prog \in Programs
  /\ phase \in {"emit", "write", "read", "done", "eof"}
  /\ at \in Nat \ {0}
  /\ relocs \in Seq([offset: Nat, kind: {"word", "half", "import"}])
  /\ prev \in Int
  /\ file \in Seq(0 .. Byte - 1)
  /\ pos \in 0 .. Len(file)
  /\ items \in Seq([offset: Int, kind: {"word", "half", "import"}])

\* The statements with something relocated come in the order of their places.
\* (Where one comes back in front of another the distance is negative, and the
\* byte written for it stands for another distance, a skip or the end.)
InOrder == \A n, m \in DOMAIN prog :
  n < m /\ prog[n].sites # <<>> /\ prog[m].sites # <<>> => Offset(n) <= Offset(m)

\* What the linker has read is at any time the beginning of what the assembler
\* recorded, in step with it, and at the end all of it.
ReadsBack ==
  InOrder =>
    /\ IsPrefix(items, relocs)
    /\ phase = "done" => items = relocs /\ pos = Len(file)
    /\ phase # "eof"
=============================================================================
