----------------------------- MODULE Simulator ------------------------------
(***************************************************************************)
(* The simulator, simulator/main.cpp: it loads an Intel HEX image into     *)
(* memory, resets the processor of Cpu and runs it one instruction at a    *)
(* time; a program that reaches $FFFF calls the host.                      *)
(*                                                                         *)
(* The core is also a library whose user drives the IRQ and NMI lines      *)
(* (mos6502.h:210-218): Irq, NmiFall and NmiRise are those calls, made     *)
(* between any two instructions. n65sim itself makes none.                 *)
(*                                                                         *)
(* `held` is a history variable: the state of the program at every         *)
(* interruption that has not returned yet, the last one last.              *)
(***************************************************************************)
EXTENDS Cpu, SequencesExt

CONSTANTS
    Scenarios,    \* the programs and files it is given: see WellFormed
    Ack,          \* the address whose writes raise the IRQ line again
    Scratch       \* what the interrupt handlers write, Ack included

\* What a scenario is: an image, a function from addresses to bytes; the records of its
\* file, with at most one damaged byte; the reset values; how often the lines may be
\* driven; `result` the argument of exit(), -1 where the program is not meant to reach it.
Resets == [A: Byte, X: Byte, Y: Byte, sp: Byte, status: SUBSET Flags]
WellFormed(s) ==
    /\ DOMAIN s = {"image", "file", "reset", "irqs", "nmis", "fuel", "bounded", "damaged",
                   "result"}
    /\ DOMAIN s.image \subseteq Addresses
    /\ s.file \in Seq(Seq(Byte))
    /\ s.reset \in Resets
    /\ {s.irqs, s.nmis, s.fuel} \subseteq Nat
    /\ s.bounded \/ s.fuel = 1
    /\ s.damaged \in BOOLEAN
ASSUME ScenariosAssumption == \A s \in Scenarios : WellFormed(s)

VARIABLES
    chosen,       \* the one chosen, but for its file
    phase,        \* "load", "run", "exit" or "failed"
    records,      \* the lines of the HEX file still to read
    base,         \* the base address of the extended records
    m,            \* the machine; its memory alone while phase = "load"
    status,       \* the argument of exit()
    irqs, nmis,   \* how often the lines may still be driven
    fuel,         \* the instructions still observed, where a scenario bounds them
    held

vars == <<chosen, phase, records, base, m, status, irqs, nmis, fuel, held>>
Lines == <<chosen, records, base>>

-----------------------------------------------------------------------------
\* The HEX file: a record is the sequence of bytes of its line

SumOf(bytes) == FoldSeq(LAMBDA x, y : x + y, 0, bytes)

\* emit_ihex_record(): count, address, type, data and the negated sum
Record(address, type, data) ==
    LET body == <<Len(data), address \div 256, address % 256, type>> \o data
    IN  Append(body, (-SumOf(body)) % 256)

LineOkUnsummed(r) == Len(r) >= 5 /\ Len(r) = 5 + r[1]  \* mutant
\* the checks of load_intel_hex() on one record
LineOk(r) == /\ Len(r) >= 5
             /\ Len(r) = 5 + r[1]
             /\ SumOf(r) % 256 = 0

Data(r) == SubSeq(r, 5, Len(r) - 1)
At(r) == base + 256 * r[2] + r[3]
InMemory(r) == Data(r) = <<>> \/ At(r) + Len(Data(r)) <= Space
\* type 2 and 4 records set the base; every other type but 0 and 1 is skipped
BaseAfter(r) == CASE r[4] = 2 -> 16 * (256 * r[5] + r[6])
                  [] r[4] = 4 -> Space * (256 * r[5] + r[6])
                  [] OTHER -> base
RecordOk(r) == /\ LineOk(r)
               /\ r[4] = 0 => InMemory(r)
               /\ r[4] \in {2, 4} => r[1] = 2

Stored(r, mem) ==
    LET into == At(r)..(At(r) + Len(Data(r)) - 1)
    IN  [a \in DOMAIN mem \cup into |->
            IF a \in into THEN Data(r)[a - At(r) + 1] ELSE mem[a]]

LoadRecord ==
    /\ phase = "load" /\ records # <<>>
    /\ LET r == Head(records)
       IN  IF ~RecordOk(r)
           THEN phase' = "failed" /\ UNCHANGED <<records, base, m>>
           ELSE /\ m' = IF r[4] = 0 THEN [m EXCEPT !.mem = Stored(r, @)] ELSE m
                /\ base' = BaseAfter(r)
                /\ records' = IF r[4] = 1 THEN <<>> ELSE Tail(records)
                /\ UNCHANGED phase
    /\ UNCHANGED <<chosen, status, irqs, nmis, fuel, held>>

\* the end of the file, with or without its type 1 record, starts the machine
Start ==
    /\ phase = "load" /\ records = <<>>
    /\ phase' = "run"
    /\ m' = Reset(m.mem, chosen.reset)
    /\ UNCHANGED <<Lines, status, irqs, nmis, fuel, held>>

-----------------------------------------------------------------------------
\* The loop of main()

Host == Space - 1   \* $FFFF
HostCall(c) == c.pc = Host /\ ~c.stopped
Exiting(c) == HostCall(c) /\ c.A = 255
AnsweredUnrestored(c) == RunOne(Poke(c, Host, 96))  \* mutant
\* an RTS is planted at $FFFF for one instruction; neither store is refused
Answered(c) == Poke(RunOne(Poke(c, Host, 96)), Host, Read(c, Host))

\* the body of the loop: an instruction, and the host call where it leads to $FFFF
Looped(ran) == IF HostCall(ran) THEN Answered(ran) ELSE ran

\* the device behind the IRQ line lets it go when its register is written
Device(before, after) ==
    IF Read(after, Ack) # Read(before, Ack) THEN SetIrq(after, TRUE) ELSE after

\* history: interruptions, BRK included, and the RTI that ends the last one
Context(c) == [A |-> c.A, X |-> c.X, Y |-> c.Y, sp |-> c.sp, pc |-> c.pc,
               status |-> c.status,
               mem |-> [a \in {b \in DOMAIN c.mem : b \notin Scratch
                                   /\ (b \in 256..511 => b > 256 + c.sp)}
                          |-> c.mem[a]]]
Serviced == CheckInterrupts(m)
Executed == InstrTable[Read(Serviced, Serviced.pc)].code
Interruption(kind, c) == <<[kind |-> kind, context |-> Context(c)]>>
Interrupted ==
    (IF TakesNmi(m) THEN Interruption("NMI", m)
     ELSE IF TakesIrq(m) THEN Interruption("IRQ", m) ELSE <<>>)
      \o IF Executed = "BRK"
         THEN Interruption("BRK", [Serviced EXCEPT !.pc = (@ + 2) % Space])
         ELSE <<>>
Returns == ~m.illegalOpcode /\ Executed = "RTI" /\ held # <<>>

Step ==
    LET ran == RunOne(m)
    IN  /\ phase = "run" /\ fuel > 0
        /\ fuel' = IF chosen.bounded THEN fuel - 1 ELSE fuel
        /\ held' = IF m.illegalOpcode THEN held
                   ELSE LET h == held \o Interrupted
                        IN  IF Returns THEN Front(h) ELSE h
        /\ IF ran.stopped \/ Exiting(ran)
           THEN /\ phase' = "exit"
                /\ status' = IF ran.stopped THEN 1 ELSE 256 * ran.Y + ran.X
                /\ m' = ran
           ELSE /\ m' = Device(m, Looped(ran))
                /\ UNCHANGED <<phase, status>>
        /\ UNCHANGED <<Lines, irqs, nmis>>

-----------------------------------------------------------------------------
\* The user of the core

Irq ==
    /\ phase = "run" /\ irqs > 0 /\ m.irq_line
    /\ m' = SetIrq(m, FALSE)
    /\ irqs' = irqs - 1
    /\ UNCHANGED <<Lines, phase, status, nmis, fuel, held>>

NmiFall ==
    /\ phase = "run" /\ nmis > 0 /\ m.nmi_line
    /\ m' = SetNmi(m, FALSE)
    /\ nmis' = nmis - 1
    /\ UNCHANGED <<Lines, phase, status, irqs, fuel, held>>

NmiRise ==
    /\ phase = "run" /\ ~m.nmi_line
    /\ m' = SetNmi(m, TRUE)
    /\ UNCHANGED <<Lines, phase, status, irqs, nmis, fuel, held>>

Init ==
    /\ phase = "load"
    /\ \E s \in Scenarios :
          /\ records = s.file
          /\ chosen = [f \in DOMAIN s \ {"file"} |-> s[f]]
    /\ base = 0
    /\ m = [mem |-> <<>>]
    /\ status = -1
    /\ irqs = chosen.irqs /\ nmis = chosen.nmis
    /\ fuel = chosen.fuel
    /\ held = <<>>

Next == LoadRecord \/ Start \/ Step \/ Irq \/ NmiFall \/ NmiRise

Spec == Init /\ [][Next]_vars

-----------------------------------------------------------------------------
\* Properties

\* the step is an instruction, not a change of a line
Stepped == /\ phase = "run" /\ ~m.illegalOpcode
           /\ UNCHANGED <<irqs, nmis>> /\ m'.nmi_line = m.nmi_line

\* Type invariant.
TypeOK ==
    /\ phase \in {"load", "run", "exit", "failed"}
    /\ phase \in {"run", "exit"} =>
          /\ {m.A, m.X, m.Y, m.sp} \subseteq Byte
          /\ m.pc \in Addresses /\ m.status \subseteq Flags
          /\ \A a \in DOMAIN m.mem : a \in Addresses /\ m.mem[a] \in Byte

\* The machine starts with exactly the bytes the image has, whatever records they
\* were cut into, and a file with one damaged byte never starts it: each field of a
\* record is under the length check or the sum (load_intel_hex, emit_ihex_record).
LoadsExactly ==
    /\ phase = "load" /\ records = <<>> => m.mem = chosen.image /\ ~chosen.damaged
    /\ phase = "failed" => chosen.damaged

\* A program that was interrupted goes on, after the RTI of the handler, as if
\* nothing had happened: same pc, registers, flags and stack pointer, and the same
\* memory above the stack pointer and outside what the handlers write. This is what
\* nrt0_int.s promises, for an IRQ, a BRK, an NMI, and an NMI inside an IRQ handler
\* (Svc_IRQ, Svc_NMI, Op_BRK, Op_RTI, the lines of nrt0_int.s).
Transparent ==
    [][Stepped /\ Returns => Context(m') = Last(held \o Interrupted).context]_vars

\* The program leaves with the value it computed, wherever the interrupts fell.
ExitRight == phase = "exit" /\ chosen.result >= 0 => status = chosen.result

\* A handler is not entered again before it has returned: the line that is still low
\* does not call the IRQ handler from within itself or from the handler of a BRK, nor
\* an edge the NMI handler from within itself (Svc_IRQ, CheckInterrupts, nmi_inhibit).
NotReentered ==
    \A i, j \in DOMAIN held :
        i # j => {held[i].kind, held[j].kind} \in {{"NMI", "IRQ"}, {"NMI", "BRK"}}

\* ADC and SBC: with the carry they are exact, in binary, and in decimal mode on
\* decimal operands, where two digits carry at 100 (Op_ADC, Op_SBC and the copies
\* of them in Op_ISC and Op_RRA).
Decimal(b) == 10 * (b \div 16) + (b % 16)
IsDecimal(b) == b \div 16 < 10 /\ b % 16 < 10
SumRight(a, v, c, r) ==
    /\ "D" \notin m.status => r.A + 256 * Carry(r) = a + v + c
    /\ "D" \in m.status /\ IsDecimal(a) /\ IsDecimal(v) =>
          IsDecimal(r.A) /\ Decimal(r.A) + 100 * Carry(r) = Decimal(a) + Decimal(v) + c
DifferenceRight(a, v, c, r) ==
    /\ "D" \notin m.status => r.A = a - v - 1 + c + 256 * (1 - Carry(r))
    /\ "D" \in m.status /\ IsDecimal(a) /\ IsDecimal(v) =>
          /\ IsDecimal(r.A)
          /\ Decimal(r.A) = Decimal(a) - Decimal(v) - 1 + c + 100 * (1 - Carry(r))
Operand(c) == Read(c, Address([c EXCEPT !.pc = (@ + 1) % Space],
                              InstrTable[Read(c, c.pc)].mode))
ArithmeticExact ==
    [][Stepped /\ Serviced = m =>
          /\ Executed = "ADC" => SumRight(m.A, Operand(m), Carry(m), m')
          /\ Executed = "SBC" => DifferenceRight(m.A, Operand(m), Carry(m), m')
          /\ Executed = "ISC" => DifferenceRight(m.A, (Operand(m) + 1) % 256, Carry(m), m')
          /\ Executed = "RRA" => SumRight(m.A, Operand(m) \div 2 + 128 * Carry(m),
                                          Operand(m) % 2, m')]_m

\* A host call other than exit() is a subroutine: the caller goes on behind its JSR
\* with its registers, its stack and all of memory, $FFFF included (main, dispatch).
Calls == Stepped /\ Serviced = m /\ Executed = "JSR"
         /\ HostCall(RunOne(m)) /\ ~Exiting(RunOne(m))
HostCallReturns ==
    [][Calls => Context(m') = Context([m EXCEPT !.pc = (@ + 3) % Space])]_m
=============================================================================
