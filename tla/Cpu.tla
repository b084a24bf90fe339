-------------------------------- MODULE Cpu --------------------------------
(***************************************************************************)
(* The 6502 core of the simulator, simulator/mos6502/mos6502.cpp, in the   *)
(* build its Makefile makes (ILLEGAL_OPCODES on, the CMOS fix off).        *)
(*                                                                         *)
(* A machine is one record: the registers A, X, Y, sp, pc, the status      *)
(* register as the set of its raised flags (its bits 4 and 5 are constant  *)
(* after Reset), the flags of the core, and the memory behind the Read and *)
(* Write callbacks. Operators take a machine and return the machine after  *)
(* the call. Cycle counts, which only traces print, are left out.          *)
(***************************************************************************)
EXTENDS Integers, FiniteSets, Sequences, TLC

CONSTANT Regions   \* the MEMORY entries of the cfg: a set of [start, size, type]

Byte == 0..255
Space == 256 * 256
Addresses == 0..(Space - 1)
Flags == {"N", "V", "D", "I", "Z", "C"}

\* $FFFA, $FFFC, $FFFE
nmiVectorL == Space - 6
rstVectorL == Space - 4
irqVectorL == Space - 2

-----------------------------------------------------------------------------
\* Bytes and flags

Bytewise(Op(_, _), a, b) ==
    LET bit(k) == 2^k * Op((a \div 2^k) % 2, (b \div 2^k) % 2)
    IN  bit(0) + bit(1) + bit(2) + bit(3) + bit(4) + bit(5) + bit(6) + bit(7)

And(a, b) == Bytewise(LAMBDA x, y : x * y, a, b)
Or(a, b)  == Bytewise(LAMBDA x, y : x + y - x * y, a, b)
Xor(a, b) == Bytewise(LAMBDA x, y : (x + y) % 2, a, b)

High(b) == (b % 256) >= 128
If(f, condition) == IF condition THEN {f} ELSE {}
Carry(m) == IF "C" \in m.status THEN 1 ELSE 0

\* SET_xxx: the flags of `mask` become exactly those of `on`
SetFlags(m, mask, on) == [m EXCEPT !.status = (@ \ mask) \cup on]
NZ(r) == If("N", High(r)) \cup If("Z", r % 256 = 0)
SetNZ(m, r) == SetFlags(m, {"N", "Z"}, NZ(r))
SetNZC(m, r, c) == SetFlags(m, {"N", "Z", "C"}, NZ(r) \cup If("C", c))

Weight == [N |-> 128, V |-> 64, D |-> 8, I |-> 4, Z |-> 2, C |-> 1]
Bit(f, s) == IF f \in s THEN Weight[f] ELSE 0
\* the six live bits of the status byte; 48 is CONSTANT | BREAK, 32 CONSTANT
StatusByte(s) ==
    Bit("N", s) + Bit("V", s) + Bit("D", s) + Bit("I", s) + Bit("Z", s) + Bit("C", s)
StatusOfBinary(b) == {f \in Flags \ {"D"} : (b \div Weight[f]) % 2 = 1}  \* mutant
StatusOf(b) == {f \in Flags : (b \div Weight[f]) % 2 = 1}

-----------------------------------------------------------------------------
\* Memory and the stack

\* main() fills memory with $FF before it loads the image
Read(m, a) == IF a \in DOMAIN m.mem THEN m.mem[a] ELSE 255
Word(m, lo, hi) == Read(m, lo) + 256 * Read(m, hi)
Poke(m, a, v) == [m EXCEPT !.mem = [b \in DOMAIN @ \cup {a} |-> IF b = a THEN v ELSE @[b]]]

address_is_read_only(a) ==
    \E r \in Regions : r.type = "ro" /\ a >= r.start /\ a < r.start + r.size

\* store_mem() for the guest: a write to a read-only region ends the process
Write(m, a, v) == IF address_is_read_only(a) THEN [m EXCEPT !.stopped = TRUE] ELSE Poke(m, a, v)

StackPush(m, v) ==
    [Write(m, 256 + m.sp, v) EXCEPT !.sp = IF m.sp = 0 THEN 255 ELSE m.sp - 1]
Popped(m, n) == [m EXCEPT !.sp = (@ + n) % 256]
Top(m, n) == Read(m, 256 + ((m.sp + n) % 256))

PushWord(m, w) == StackPush(StackPush(m, w \div 256), w % 256)

-----------------------------------------------------------------------------
\* Addressing modes

Length(mode) ==
    CASE mode \in {"ACC", "IMP"} -> 0
      [] mode \in {"ABS", "ABX", "ABY", "ABI"} -> 2
      [] OTHER -> 1

\* Addr_xxx(): the effective address, with pc at the operand
Address(m, mode) ==
    LET b == Read(m, m.pc)
        w == b + 256 * Read(m, (m.pc + 1) % Space)
        z == (b + m.X) % 256
    IN  CASE mode = "IMM" -> m.pc
          [] mode = "ZER" -> b
          [] mode = "ZEX" -> z
          [] mode = "ZEY" -> (b + m.Y) % 256
          [] mode = "ABS" -> w
          [] mode = "ABX" -> (w + m.X) % Space
          [] mode = "ABY" -> (w + m.Y) % Space
          [] mode = "ABI" -> Word(m, w, 256 * (w \div 256) + ((w + 1) % 256))
          [] mode = "INX" -> Word(m, z, (z + 1) % 256)
          [] mode = "INY" -> (Word(m, b, (b + 1) % 256) + m.Y) % Space
          [] mode = "REL" -> (m.pc + 1 + IF High(b) THEN b - 256 ELSE b) % Space
          [] OTHER -> 0

-----------------------------------------------------------------------------
\* The arithmetic several instructions share

\* mutant of AddOf: no second adjustment, so a decimal sum does not carry
AddWithoutHundreds(m, v) ==
    LET sum  == m.A + v + Carry(m)
        low  == (m.A % 16) + (v % 16) + Carry(m)
        half == 16 * (m.A \div 16) + 16 * (v \div 16)
                  + IF low >= 10 THEN ((low + 6) % 16) + 16 ELSE low
        full == IF "D" \in m.status THEN half ELSE sum
    IN  [SetNZC(m, full, full > 255) EXCEPT !.A = full % 256]

\* Op_ADC after its Read: N, V and Z from the sum before the last adjustment
AddOf(m, v) ==
    LET sum  == m.A + v + Carry(m)
        low  == (m.A % 16) + (v % 16) + Carry(m)
        half == 16 * (m.A \div 16) + 16 * (v \div 16)
                  + IF low >= 10 THEN ((low + 6) % 16) + 16 ELSE low
        seen == IF "D" \in m.status THEN half ELSE sum
        full == IF "D" \in m.status /\ half >= 160 THEN half + 96 ELSE seen
    IN  [SetFlags(m, {"N", "V", "Z", "C"},
              If("N", High(seen)) \cup If("Z", sum % 256 = 0)
                \cup If("V", High(m.A) = High(v) /\ High(m.A) # High(seen))
                \cup If("C", full > 255))
            EXCEPT !.A = full % 256]

\* Op_SBC after its Read
SubtractOf(m, v) ==
    LET diff == m.A - v - 1 + Carry(m)
        low  == (m.A % 16) - (v % 16) - 1 + Carry(m)
        half == 16 * (m.A \div 16) - 16 * (v \div 16)
                  + IF low < 0 THEN ((low - 6) % 16) - 16 ELSE low
        seen == IF "D" \in m.status THEN half ELSE diff
        full == IF "D" \in m.status /\ half < 0 THEN half - 96 ELSE seen
    IN  [SetFlags(m, {"N", "V", "Z", "C"},
              If("N", High(seen)) \cup If("Z", diff % 256 = 0)
                \cup If("V", High(m.A) # High(v) /\ High(m.A) # High(seen))
                \cup If("C", full >= 0))
            EXCEPT !.A = full % 256]

CompareOf(m, r, v) == SetNZC(m, r - v, r >= v)

\* the shifts: the byte they leave and the carry they take out
Shifted(m, code, v) ==
    CASE code = "ASL" -> [byte |-> (2 * v) % 256, out |-> v >= 128]
      [] code = "ROL" -> [byte |-> (2 * v + Carry(m)) % 256, out |-> v >= 128]
      [] code = "LSR" -> [byte |-> v \div 2, out |-> v % 2 = 1]
      [] code = "ROR" -> [byte |-> v \div 2 + 128 * Carry(m), out |-> v % 2 = 1]

\* a shift of the accumulator or of memory
Shift(m, code, mode, src) ==
    LET s == Shifted(m, code, IF mode = "ACC" THEN m.A ELSE Read(m, src))
        f == SetNZC(m, s.byte, s.out)
    IN  IF mode = "ACC" THEN [f EXCEPT !.A = s.byte] ELSE Write(f, src, s.byte)

\* the flags a branch tests, and whether it branches when the flag is up
BranchOn ==
    [BCC |-> <<"C", FALSE>>, BCS |-> <<"C", TRUE>>, BNE |-> <<"Z", FALSE>>,
     BEQ |-> <<"Z", TRUE>>, BPL |-> <<"N", FALSE>>, BMI |-> <<"N", TRUE>>,
     BVC |-> <<"V", FALSE>>, BVS |-> <<"V", TRUE>>]

SetA(m, v) == [SetNZ(m, v) EXCEPT !.A = v]
SetX(m, v) == [SetNZ(m, v) EXCEPT !.X = v]
SetY(m, v) == [SetNZ(m, v) EXCEPT !.Y = v]
SetMem(m, a, v) == Write(SetNZ(m, v), a, v)

-----------------------------------------------------------------------------
\* The instructions, in the order of the source

OpAdcToAsl(m, code, mode, src) ==
    CASE code = "ADC" -> AddOf(m, Read(m, src))
      [] code = "AND" -> SetA(m, And(m.A, Read(m, src)))
      [] code = "ASL" -> Shift(m, code, mode, src)

OpBranch(m, code, src) ==
    IF (BranchOn[code][1] \in m.status) = BranchOn[code][2]
    THEN [m EXCEPT !.pc = src]
    ELSE m

\* BIT, and BRK: the byte behind the opcode is skipped, bit 4 is pushed as 1
OpBitBrk(m, code, src) ==
    LET v == Read(m, src)
        p == PushWord(m, (m.pc + 1) % Space)
        b == StackPush(p, StatusByte(m.status) + 48)
    IN  IF code = "BIT"
        THEN SetFlags(m, {"N", "V", "Z"}, (StatusOf(v) \cap {"N", "V"})
                                             \cup If("Z", And(v, m.A) = 0))
        ELSE [b EXCEPT !.status = @ \cup {"I"}, !.pc = Word(b, irqVectorL, irqVectorL + 1)]

OpClcToCpy(m, code, src) ==
    CASE code = "CLC" -> SetFlags(m, {"C"}, {})
      [] code = "CLD" -> SetFlags(m, {"D"}, {})
      [] code = "CLI" -> SetFlags(m, {"I"}, {})
      [] code = "CLV" -> SetFlags(m, {"V"}, {})
      [] code = "CMP" -> CompareOf(m, m.A, Read(m, src))
      [] code = "CPX" -> CompareOf(m, m.X, Read(m, src))
      [] code = "CPY" -> CompareOf(m, m.Y, Read(m, src))

OpDecToIny(m, code, src) ==
    CASE code = "DEC" -> SetMem(m, src, (Read(m, src) - 1) % 256)
      [] code = "DEX" -> SetX(m, (m.X - 1) % 256)
      [] code = "DEY" -> SetY(m, (m.Y - 1) % 256)
      [] code = "EOR" -> SetA(m, Xor(m.A, Read(m, src)))
      [] code = "INC" -> SetMem(m, src, (Read(m, src) + 1) % 256)
      [] code = "INX" -> SetX(m, (m.X + 1) % 256)
      [] code = "INY" -> SetY(m, (m.Y + 1) % 256)

\* JSR pushes the address of its last byte, and reads that byte after the push
OpJmpToLsr(m, code, mode, src) ==
    LET last == (m.pc - 1) % Space
        p    == PushWord(m, last)
    IN  CASE code = "JMP" -> [m EXCEPT !.pc = src]
          [] code = "JSR" -> [p EXCEPT !.pc = (src % 256) + 256 * Read(p, last)]
          [] code = "LDA" -> SetA(m, Read(m, src))
          [] code = "LDX" -> SetX(m, Read(m, src))
          [] code = "LDY" -> SetY(m, Read(m, src))
          [] code = "LSR" -> Shift(m, code, mode, src)

OpNopToPlp(m, code, src) ==
    CASE code = "NOP" -> m
      [] code = "ORA" -> SetA(m, Or(m.A, Read(m, src)))
      [] code = "PHA" -> StackPush(m, m.A)
      [] code = "PHP" -> StackPush(m, StatusByte(m.status) + 48)
      [] code = "PLA" -> SetA(Popped(m, 1), Top(m, 1))
      [] code = "PLP" -> [Popped(m, 1) EXCEPT !.status = StatusOf(Top(m, 1))]

OpRolToSbc(m, code, mode, src) ==
    CASE code \in {"ROL", "ROR"} -> Shift(m, code, mode, src)
      [] code = "RTI" -> [Popped(m, 3) EXCEPT !.status = StatusOf(Top(m, 1)),
                                              !.pc = Top(m, 2) + 256 * Top(m, 3),
                                              !.nmi_inhibit = FALSE]
      [] code = "RTS" -> [Popped(m, 2) EXCEPT
                              !.pc = (Top(m, 1) + 256 * Top(m, 2) + 1) % Space]
      [] code = "SBC" -> SubtractOf(m, Read(m, src))

OpSecToTya(m, code, src) ==
    CASE code = "SEC" -> SetFlags(m, {"C"}, {"C"})
      [] code = "SED" -> SetFlags(m, {"D"}, {"D"})
      [] code = "SEI" -> SetFlags(m, {"I"}, {"I"})
      [] code = "STA" -> Write(m, src, m.A)
      [] code = "STX" -> Write(m, src, m.X)
      [] code = "STY" -> Write(m, src, m.Y)
      [] code = "TAX" -> SetX(m, m.A)
      [] code = "TAY" -> SetY(m, m.A)
      [] code = "TSX" -> SetX(m, m.sp)
      [] code = "TXA" -> SetA(m, m.X)
      [] code = "TXS" -> [m EXCEPT !.sp = m.X]
      [] code = "TYA" -> SetA(m, m.Y)

\* ARR in decimal mode adjusts the rotated byte, after its flags are set
ArrOf(m, r) ==
    LET bit6 == (r \div 64) % 2
        f    == SetFlags(m, Flags \ {"D", "I"},
                         NZ(r) \cup If("C", bit6 = 1) \cup If("V", bit6 # (r \div 32) % 2))
        low  == IF r % 16 >= 10 THEN (r + 6) % 256 ELSE r
    IN  [f EXCEPT !.A = IF "D" \notin m.status THEN r
                        ELSE IF low >= 160 THEN (low + 96) % 256 ELSE low]

OpAlrToLas(m, code, src) ==
    LET v == Read(m, src)
        a == And(m.A, v)
        s == And(v, m.sp)
        up == (v + 1) % 256
        down == (v - 1) % 256
    IN  CASE code = "ALR" -> [SetNZC(m, a \div 2, a % 2 = 1) EXCEPT !.A = a \div 2]
          [] code = "ANC" -> [SetNZC(m, a, a >= 128) EXCEPT !.A = a]
          [] code = "ANE" -> SetA(m, And(And(Or(m.A, 238), m.X), v))
          [] code = "ARR" -> ArrOf(m, a \div 2 + 128 * Carry(m))
          [] code = "DCP" -> CompareOf(Write(m, src, down), m.A, down)
          [] code = "ISC" -> SubtractOf(Write(m, src, up), up)
          [] code = "LAS" -> [SetNZ(m, s) EXCEPT !.A = s, !.X = s, !.sp = s]

\* a shift of memory whose result is then combined with A
ShiftThen(m, code, src) ==
    LET s == Shifted(m, CASE code = "RLA" -> "ROL" [] code = "RRA" -> "ROR"
                          [] code = "SLO" -> "ASL" [] code = "SRE" -> "LSR", Read(m, src))
        w == Write(SetFlags(m, {"C"}, If("C", s.out)), src, s.byte)
    IN  CASE code = "RLA" -> SetA(w, And(m.A, s.byte))
          [] code = "RRA" -> AddOf(w, s.byte)
          [] code = "SLO" -> SetA(w, Or(m.A, s.byte))
          [] code = "SRE" -> SetA(w, Xor(m.A, s.byte))

OpLaxToTas(m, code, src) ==
    LET v    == Read(m, src)
        both == And(m.A, m.X)
        lxa  == And(Or(m.A, 238), v)
        page == (src \div 256 + 1) % 256
    IN  CASE code = "LAX" -> [SetNZ(m, v) EXCEPT !.A = v, !.X = v]
          [] code = "LXA" -> [SetNZ(m, lxa) EXCEPT !.A = lxa, !.X = lxa]
          [] code \in {"RLA", "RRA", "SLO", "SRE"} -> ShiftThen(m, code, src)
          [] code = "SAX" -> Write(m, src, both)
          [] code = "SBX" -> [SetNZC(m, both - v, both >= v) EXCEPT !.X = (both - v) % 256]
          [] code = "SHA" -> Write(m, src, And(both, page))
          [] code = "SHX" -> Write(m, src, And(m.X, page))
          [] code = "SHY" -> Write(m, src, And(m.Y, page))
          [] code = "TAS" -> Write([m EXCEPT !.sp = both], src, And(both, page))

-----------------------------------------------------------------------------
\* The instruction table: <<opcode, code, addressing mode>>, as the constructor
\* fills it, in the order of the source

\* the eight regular forms of an instruction on A, from its (zp,X) opcode
Regular(code, b) ==
    {<<b, code, "INX">>, <<b + 4, code, "ZER">>, <<b + 8, code, "IMM">>,
     <<b + 12, code, "ABS">>, <<b + 16, code, "INY">>, <<b + 20, code, "ZEX">>,
     <<b + 24, code, "ABY">>, <<b + 28, code, "ABX">>}
\* the four memory forms of a shift or a count, from its zero-page opcode
Memory(code, b) ==
    {<<b, code, "ZER">>, <<b + 8, code, "ABS">>, <<b + 16, code, "ZEX">>,
     <<b + 24, code, "ABX">>}
Implied(code, b) == {<<b, code, "IMP">>}
Relative(code, b) == {<<b, code, "REL">>}
\* an undocumented combination has the regular forms but IMM
Combined(code, b) == {f \in Regular(code, b) : f[3] # "IMM"}

InstrAdcToAsl ==
    Regular("ADC", \h61) \cup Regular("AND", \h21) \cup Memory("ASL", \h06)
      \cup {<<\h0A, "ASL", "ACC">>}

InstrBccToBvs ==
    Relative("BCC", \h90) \cup Relative("BCS", \hB0) \cup Relative("BEQ", \hF0)
      \cup {<<\h24, "BIT", "ZER">>, <<\h2C, "BIT", "ABS">>}
      \cup Relative("BMI", \h30) \cup Relative("BNE", \hD0) \cup Relative("BPL", \h10)
      \cup Implied("BRK", \h00) \cup Relative("BVC", \h50) \cup Relative("BVS", \h70)

InstrClcToCpy ==
    Implied("CLC", \h18) \cup Implied("CLD", \hD8) \cup Implied("CLI", \h58)
      \cup Implied("CLV", \hB8) \cup Regular("CMP", \hC1)
      \cup {<<\hE0, "CPX", "IMM">>, <<\hE4, "CPX", "ZER">>, <<\hEC, "CPX", "ABS">>,
            <<\hC0, "CPY", "IMM">>, <<\hC4, "CPY", "ZER">>, <<\hCC, "CPY", "ABS">>}

InstrDecToJsr ==
    Memory("DEC", \hC6) \cup Implied("DEX", \hCA) \cup Implied("DEY", \h88)
      \cup Regular("EOR", \h41) \cup Memory("INC", \hE6) \cup Implied("INX", \hE8)
      \cup Implied("INY", \hC8)
      \cup {<<\h4C, "JMP", "ABS">>, <<\h6C, "JMP", "ABI">>, <<\h20, "JSR", "ABS">>}

InstrLdaToLsr ==
    Regular("LDA", \hA1) \cup Memory("LSR", \h46) \cup {<<\h4A, "LSR", "ACC">>}
      \cup {<<\hA2, "LDX", "IMM">>, <<\hA6, "LDX", "ZER">>, <<\hB6, "LDX", "ZEY">>,
            <<\hAE, "LDX", "ABS">>, <<\hBE, "LDX", "ABY">>}
      \cup {<<\hA0, "LDY", "IMM">>, <<\hA4, "LDY", "ZER">>, <<\hB4, "LDY", "ZEX">>,
            <<\hAC, "LDY", "ABS">>, <<\hBC, "LDY", "ABX">>}

InstrNopToPlp ==
    Implied("NOP", \hEA) \cup Regular("ORA", \h01) \cup Implied("PHA", \h48)
      \cup Implied("PHP", \h08) \cup Implied("PLA", \h68) \cup Implied("PLP", \h28)

InstrRolToSbc ==
    Memory("ROL", \h26) \cup Memory("ROR", \h66)
      \cup {<<\h2A, "ROL", "ACC">>, <<\h6A, "ROR", "ACC">>}
      \cup Implied("RTI", \h40) \cup Implied("RTS", \h60) \cup Regular("SBC", \hE1)

InstrSecToSty ==
    Implied("SEC", \h38) \cup Implied("SED", \hF8) \cup Implied("SEI", \h78)
      \cup Combined("STA", \h81)
      \cup {<<\h86, "STX", "ZER">>, <<\h96, "STX", "ZEY">>, <<\h8E, "STX", "ABS">>,
            <<\h84, "STY", "ZER">>, <<\h94, "STY", "ZEX">>, <<\h8C, "STY", "ABS">>}

InstrTaxToTya ==
    Implied("TAX", \hAA) \cup Implied("TAY", \hA8) \cup Implied("TSX", \hBA)
      \cup Implied("TXA", \h8A) \cup Implied("TXS", \h9A) \cup Implied("TYA", \h98)

InstrAlrToIsc ==
    {<<\h4B, "ALR", "IMM">>, <<\h0B, "ANC", "IMM">>, <<\h2B, "ANC", "IMM">>,
     <<\h8B, "ANE", "IMM">>, <<\h6B, "ARR", "IMM">>}
      \cup Combined("DCP", \hC3) \cup Combined("ISC", \hE3)

InstrLasToSha ==
    {<<\hBB, "LAS", "ABY">>, <<\hAB, "LXA", "IMM">>, <<\hA7, "LAX", "ZER">>,
     <<\hB7, "LAX", "ZEY">>, <<\hAF, "LAX", "ABS">>, <<\hBF, "LAX", "ABY">>,
     <<\hA3, "LAX", "INX">>, <<\hB3, "LAX", "INY">>,
     <<\h87, "SAX", "ZER">>, <<\h97, "SAX", "ZEY">>, <<\h8F, "SAX", "ABS">>,
     <<\h83, "SAX", "INX">>, <<\hCB, "SBX", "IMM">>,
     <<\h9F, "SHA", "ABY">>, <<\h93, "SHA", "INY">>}
      \cup Combined("RLA", \h23) \cup Combined("RRA", \h63)

InstrShxToUsbc ==
    {<<\h9E, "SHX", "ABY">>, <<\h9C, "SHY", "ABX">>, <<\h9B, "TAS", "ABY">>,
     <<\hEB, "SBC", "IMM">>}
      \cup Combined("SLO", \h03) \cup Combined("SRE", \h43)

InstrNops ==
    {<<b, "NOP", "IMP">> : b \in {\h1A, \h3A, \h5A, \h7A, \hDA, \hFA}}
      \cup {<<b, "NOP", "IMM">> : b \in {\h80, \h82, \h89, \hC2, \hE2}}
      \cup {<<b, "NOP", "ZER">> : b \in {\h04, \h44, \h64}}
      \cup {<<b, "NOP", "ZEX">> : b \in {\h14, \h34, \h54, \h74, \hD4, \hF4}}
      \cup {<<\h0C, "NOP", "ABS">>}
      \cup {<<b, "NOP", "ABX">> : b \in {\h1C, \h3C, \h5C, \h7C, \hDC, \hFC}}

\* what stays ILLEGAL, the fill of the table: the JAM opcodes
InstrJams ==
    {<<b, "ILLEGAL", "IMP">> : b \in {\h02, \h12, \h22, \h32, \h42, \h52, \h62, \h72,
                                      \h92, \hB2, \hD2, \hF2}}

Codes == <<InstrAdcToAsl, InstrBccToBvs, InstrClcToCpy, InstrDecToJsr, InstrLdaToLsr,
           InstrNopToPlp, InstrRolToSbc, InstrSecToSty, InstrTaxToTya, InstrAlrToIsc,
           InstrLasToSha, InstrShxToUsbc, InstrNops, InstrJams>>

Rows == UNION {Codes[i] : i \in DOMAIN Codes}

InstrTable ==
    [b \in Byte |-> LET row == CHOOSE r \in Rows : r[1] = b
                    IN  [code |-> row[2], mode |-> row[3]]]

\* the opcode an assembler gives an instruction
Opcode(code, mode) == CHOOSE b \in Byte : InstrTable[b] = [code |-> code, mode |-> mode]

-----------------------------------------------------------------------------
\* The processor

Op(m, code, mode, src) ==
    CASE code \in {"ADC", "AND", "ASL"} -> OpAdcToAsl(m, code, mode, src)
      [] code \in DOMAIN BranchOn -> OpBranch(m, code, src)
      [] code \in {"BIT", "BRK"} -> OpBitBrk(m, code, src)
      [] code \in {"CLC", "CLD", "CLI", "CLV", "CMP", "CPX", "CPY"} ->
             OpClcToCpy(m, code, src)
      [] code \in {"DEC", "DEX", "DEY", "EOR", "INC", "INX", "INY"} ->
             OpDecToIny(m, code, src)
      [] code \in {"JMP", "JSR", "LDA", "LDX", "LDY", "LSR"} ->
             OpJmpToLsr(m, code, mode, src)
      [] code \in {"NOP", "ORA", "PHA", "PHP", "PLA", "PLP"} -> OpNopToPlp(m, code, src)
      [] code \in {"ROL", "ROR", "RTI", "RTS", "SBC"} -> OpRolToSbc(m, code, mode, src)
      [] code \in {"SEC", "SED", "SEI", "STA", "STX", "STY", "TAX", "TAY", "TSX", "TXA",
                   "TXS", "TYA"} -> OpSecToTya(m, code, src)
      [] code \in {"ALR", "ANC", "ANE", "ARR", "DCP", "ISC", "LAS"} ->
             OpAlrToLas(m, code, src)
      [] code = "ILLEGAL" -> [m EXCEPT !.illegalOpcode = TRUE]
      [] OTHER -> OpLaxToTas(m, code, src)

\* fetch, decode and Exec()
Execute(m) ==
    LET instr  == InstrTable[Read(m, m.pc)]
        behind == [m EXCEPT !.pc = (@ + 1) % Space]
        past   == [behind EXCEPT !.pc = (@ + Length(instr.mode)) % Space]
    IN  Op(past, instr.code, instr.mode, Address(behind, instr.mode))

\* mutant: interrupts stay enabled
ServiceOpen(m, vector) ==
    LET p == StackPush(PushWord(m, m.pc), StatusByte(m.status) + 32)
    IN  [p EXCEPT !.pc = Word(p, vector, vector + 1)]
\* Svc_IRQ() and Svc_NMI(): bit 4 of the pushed status is 0
Service(m, vector) ==
    LET p == StackPush(PushWord(m, m.pc), StatusByte(m.status) + 32)
    IN  [p EXCEPT !.status = @ \cup {"I"}, !.pc = Word(p, vector, vector + 1)]

TakesNmi(m) == m.nmi_request /\ ~m.nmi_inhibit
TakesIrq(m) == ~TakesNmi(m) /\ "I" \notin m.status /\ ~m.irq_line /\ ~m.nmi_inhibit

CheckInterrupts(m) ==
    IF TakesNmi(m)
    THEN Service([m EXCEPT !.nmi_request = FALSE, !.nmi_inhibit = TRUE], nmiVectorL)
    ELSE IF TakesIrq(m) THEN Service(m, irqVectorL) ELSE m

\* Run(1, .., INST_COUNT): nothing once an illegal opcode was met
RunOne(m) == IF m.illegalOpcode THEN m ELSE Execute(CheckInterrupts(m))

\* IRQ() and NMI(): the two lines; a falling edge during a handler is dropped
SetIrq(m, line) == [m EXCEPT !.irq_line = line]
SetNmi(m, line) ==
    [m EXCEPT !.nmi_line = line,
              !.nmi_request = @ \/ (m.nmi_line /\ ~line /\ ~m.nmi_inhibit)]

\* the constructor and Reset(), with the reset values r that SetResetA() and its
\* kin may have changed; n65sim leaves them, see PlainReset
Reset(memory, r) ==
    [A |-> r.A, X |-> r.X, Y |-> r.Y, sp |-> r.sp, status |-> r.status, mem |-> memory,
     pc |-> Word([mem |-> memory], rstVectorL, rstVectorL + 1),
     irq_line |-> TRUE, nmi_line |-> TRUE, nmi_request |-> FALSE,
     nmi_inhibit |-> FALSE, illegalOpcode |-> FALSE, stopped |-> FALSE]
PlainReset == [A |-> 0, X |-> 0, Y |-> 0, sp |-> 253, status |-> {}]
=============================================================================
