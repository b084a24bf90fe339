---------------------------- MODULE MCSimulator -----------------------------
(***************************************************************************)
(* Programs for TLC: one instruction of each opcode from several register  *)
(* contents; additions and subtractions; a program with a subroutine, a    *)
(* BRK and both arithmetic modes under interrupts at every instruction;    *)
(* a program that prints and stores into read-only memory; damaged files.  *)
(***************************************************************************)
EXTENDS Simulator, Nint

ProgramAt == 4096    \* $1000
VeneerAt  == 8192    \* $2000
IrqAt     == 12288   \* $3000
NmiAtWork == 12544   \* $3100
Counter   == 32      \* what the handlers count in
MCAck     == 33
MCScratch == {Counter, MCAck}
MCRegions == {[start |-> 0, size |-> 61440, type |-> "rw"],
              [start |-> 61440, size |-> 4096, type |-> "ro"]}

Bytes(at, seq) == [a \in at..(at + Len(seq) - 1) |-> seq[a - at + 1]]
Words(at, seq) == Bytes(at, FlattenSeq([k \in DOMAIN seq |-> <<seq[k] % 256, seq[k] \div 256>>]))
Code(at, program) == Bytes(at, Assemble(program))
I(code) == <<code, "IMP", 0>>
Imm(code, v) == <<code, "IMM", v>>

\* a file of records of at most two bytes each, with the type 1 record at the end
Run2(image, a) == IF (a + 1) \in DOMAIN image THEN <<image[a], image[a + 1]>> ELSE <<image[a]>>
Starts(image) == {a \in DOMAIN image : a % 2 = 0 \/ (a - 1) \notin DOMAIN image}
FileOf(image) ==
    [k \in 1..Cardinality(Starts(image)) |->
        LET a == SetToSortSeq(Starts(image), <)[k]
        IN  Record(a, 0, IF a % 2 = 0 THEN Run2(image, a) ELSE <<image[a]>>)]
      \o <<Record(0, 1, <<>>)>>
\* one record for each block of consecutive addresses
Blocks(blocks) == [k \in DOMAIN blocks |->
    LET b == blocks[k]
        lo == CHOOSE a \in DOMAIN b : \A c \in DOMAIN b : a <= c
    IN  Record(lo, 0, [j \in 1..Cardinality(DOMAIN b) |-> b[lo + j - 1]])]
      \o <<Record(0, 1, <<>>)>>
Joined(blocks) == FoldSeq(LAMBDA b, c : b @@ c, <<>>, blocks)

Plain == [reset |-> PlainReset, irqs |-> 0, nmis |-> 0, fuel |-> 1, bounded |-> FALSE,
          damaged |-> FALSE, result |-> -1]
FromBlocks(blocks) == [image |-> Joined(blocks), file |-> Blocks(blocks)] @@ Plain

\* one instruction, observed for one step
OperandBytes == <<32, 16>>
Statuses == <<{}, {"C", "V"}, {"D", "N", "C"}, {"Z", "I"}>>
Registers ==
    [k \in 1..4 |-> [A |-> 0, X |-> 1, Y |-> 3, sp |-> 253, status |-> Statuses[k]]]
      \o [k \in 1..4 |-> [A |-> 153, X |-> 255, Y |-> 128, sp |-> 0, status |-> Statuses[k]]]
OneStep(b, r) ==
    [FromBlocks(<<Bytes(ProgramAt, <<b>> \o OperandBytes), Bytes(32, <<16, 192>>),
                  Words(65532, <<ProgramAt>>)>>)
        EXCEPT !.reset = r, !.bounded = TRUE]
Operands == <<0, 1, 9, 16, 25, 80, 127, 128, 144, 153, 255>>
Carries == <<{}, {"C"}, {"D"}, {"C", "D"}>>
Sum(code, a, v, s) ==
    [FromBlocks(<<Bytes(ProgramAt, <<Opcode(code, "ZER"), 16>>), Bytes(16, <<v>>),
                  Words(65532, <<ProgramAt>>)>>)
        EXCEPT !.bounded = TRUE, !.reset = [PlainReset EXCEPT !.A = a, !.status = s]]

\* the interrupted program: 5 + 8 in decimal, doubled by a subroutine, and 26 out
Main ==
    <<I("CLI"), I("SED"), Imm("LDX", 1), Imm("LDA", 0), I("CLC"),
      <<"ADC", "ABX", 4352>>, I("DEX"), <<"BPL", "REL", 250>>, <<"JSR", "ABS", 4368>>,
      <<"BRK", "IMP", 0>>, I("NOP"), I("CLD"), I("TAX"), Imm("LDY", 0), Imm("LDA", 255),
      <<"JSR", "ABS", 65535>>>>
Double == <<<<"STA", "ZER", 16>>, <<"ADC", "ZER", 16>>, I("RTS")>>
HandleIrq == <<<<"INC", "ZER", MCAck>>, Imm("LDX", 7), I("SEC"), I("CLD"), I("RTS")>>
HandleNmi == <<<<"INC", "ZER", Counter>>, I("TYA"), Imm("LDY", 9), I("RTS")>>
Interrupts ==
    [FromBlocks(<<Code(ProgramAt, Main), Bytes(4352, <<5, 8>>), Code(4368, Double),
                  Code(VeneerAt, EntryPoints(VeneerAt, NmiAtWork, IrqAt)),
                  Code(IrqAt, HandleIrq), Code(NmiAtWork, HandleNmi), Bytes(16, <<0>>),
                  Bytes(Counter, <<0, 0>>),
                  Words(65530, <<NmiAt(VeneerAt), ProgramAt, IrqBrkAt(VeneerAt)>>)>>)
        EXCEPT !.irqs = 1, !.nmis = 2, !.result = \h26]

\* a program that prints, prints again, and leaves with 3
Prints ==
    [FromBlocks(<<Code(ProgramAt, <<Imm("LDA", 0), Imm("LDX", 7), <<"JSR", "ABS", 65535>>,
                                    <<"JSR", "ABS", 65535>>, Imm("LDX", 3), Imm("LDY", 0),
                                    Imm("LDA", 255), <<"JSR", "ABS", 65535>>>>),
                  Words(65530, <<0, ProgramAt, 8224>>)>>)
        EXCEPT !.result = 3]
\* a store into a read-only region ends the simulator with status 1
Stores ==
    [FromBlocks(<<Code(ProgramAt, <<Imm("LDA", 1), <<"STA", "ABS", 61440>>>>),
                  Words(65532, <<ProgramAt>>)>>)
        EXCEPT !.result = 1]

\* small files, whole and with one byte changed
SmallImage == [a \in {15, 16, 17, 40} \cup {65532, 65533} |-> a % 256]
Whole == [image |-> SmallImage, file |-> FileOf(SmallImage)] @@ [Plain EXCEPT !.bounded = TRUE]
Damaged(k, j, d) ==
    [Whole EXCEPT !.file[k][j] = (@ + d) % 256, !.damaged = TRUE]

\* the k-th member of a product of sequences of 0-based lengths n1, n2, ..
Digit(k, below, length) == 1 + ((k \div below) % length)
Opcodes == [k \in 1..2048 |-> OneStep(k % 256, Registers[Digit(k, 256, 8)])]
Sums == [k \in 1..1936 |->
            Sum(<<"ADC", "SBC", "ISC", "RRA">>[Digit(k, 1, 4)], Operands[Digit(k, 4, 11)],
                Operands[Digit(k, 44, 11)], Carries[Digit(k, 484, 4)])]
Places == FlattenSeq([k \in DOMAIN Whole.file |-> [j \in DOMAIN Whole.file[k] |-> <<k, j>>]])
Damages == [n \in 1..(3 * Len(Places)) |->
              LET p == Places[Digit(n, 3, Len(Places))]
              IN  Damaged(p[1], p[2], <<1, 128, 255>>[Digit(n, 1, 3)])]

MCScenarios == Range(Opcodes \o Sums \o Damages \o <<Interrupts, Prints, Stores, Whole>>)

=============================================================================
