-------------------------------- MODULE Nint --------------------------------
(***************************************************************************)
(* The interrupt entry points of libraries/nint/nrt0_int.s, as programs of *)
(* the processor of Cpu: an instruction is <<code, mode, operand>>.        *)
(***************************************************************************)
EXTENDS Cpu, SequencesExt

\* The bytes of a program
AssembleOne(i) ==
    <<Opcode(i[1], i[2])>> \o
       CASE Length(i[2]) = 0 -> <<>>
         [] Length(i[2]) = 1 -> <<i[3] % 256>>
         [] OTHER -> <<i[3] % 256, i[3] \div 256>>
Assemble(program) ==
    FlattenSeq([k \in DOMAIN program |-> AssembleOne(program[k])])

Plainly(code) == <<code, "IMP", 0>>

\* A, X and Y are pushed through A, after the flags
SaveState == <<Plainly("PHP"), Plainly("PHA"), Plainly("TXA"), Plainly("PHA"),
               Plainly("TYA"), Plainly("PHA")>>
\* mutant: X and Y are pulled in the order they were pushed
RestoreSwapped == <<Plainly("PLA"), Plainly("TAX"), Plainly("PLA"), Plainly("TAY"),
                    Plainly("PLA"), Plainly("PLP"), Plainly("RTI")>>
RestoreState == <<Plainly("PLA"), Plainly("TAY"), Plainly("PLA"), Plainly("TAX"),
                  Plainly("PLA"), Plainly("PLP"), Plainly("RTI")>>

\* __nmi, __irqbrk and the tail they share, linked at `at`
NmiAt(at)    == at
IrqBrkAt(at) == at + 12
CommonAt(at) == at + 21
EntryPoints(at, handle_nmi, handle_irq) ==
    SaveState \o <<<<"JSR", "ABS", handle_nmi>>, <<"JMP", "ABS", CommonAt(at)>>>>
      \o SaveState \o <<<<"JSR", "ABS", handle_irq>>>>
      \o RestoreState
=============================================================================
