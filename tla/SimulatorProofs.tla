---------------------------- MODULE SimulatorProofs ----------------------------
(***************************************************************************)
(* The machine keeps to its types whatever program it runs, and its        *)
(* additions and subtractions are exact.                                   *)
(***************************************************************************)
EXTENDS Simulator, TLAPS

-----------------------------------------------------------------------------
\* Numbers: the addresses are those two bytes can say, and what is taken modulo their
\* number is one again.
LEMMA Numbers ==
  /\ Byte \subseteq Int /\ Byte \subseteq Addresses /\ Addresses \subseteq Int
  /\ Space \in Nat \ {0} /\ {0, Host} \subseteq Addresses /\ {0, 96, 255} \subseteq Byte
<1>1. Space \in Int /\ Space > 300
  BY DEF Space
<1>2. Byte \subseteq Int /\ {0, 96, 255} \subseteq Byte
  BY DEF Byte
<1>3. Byte \subseteq Addresses /\ Addresses \subseteq Int /\ 0 \in Addresses
  BY <1>1 DEF Byte, Addresses
<1>4. Space - 1 \in Addresses
  BY <1>1 DEF Addresses
<1> QED BY <1>1, <1>2, <1>3, <1>4 DEF Host

LEMMA Wraps ==
  ASSUME NEW n \in Int
  PROVE  n % 256 \in Byte /\ n % Space \in Addresses
<1>1. n % 256 \in Byte
  BY DEF Byte
<1>2. PICK s \in Nat : s = Space /\ s > 0
  BY Numbers
<1>3. n % s \in 0 .. s - 1
  BY <1>2
<1> QED BY <1>1, <1>2, <1>3 DEF Addresses

LEMMA TwoBytes ==
  ASSUME NEW lo \in Byte, NEW hi \in Byte
  PROVE  lo + 256 * hi \in Addresses
<1>1. lo \in 0 .. 255 /\ hi \in 0 .. 255
  BY DEF Byte
<1>2. lo + 256 * hi \in Int /\ 0 <= lo + 256 * hi
  BY <1>1
<1>3. lo + 256 * hi <= 256 * 256 - 1
  BY <1>1
<1> DEFINE x == lo + 256 * hi
           top == 256 * 256 - 1
<1>4. x \in Int /\ 0 <= x /\ x <= top /\ top \in Int
  BY <1>2, <1>3
<1>5. Addresses = 0 .. top
  BY Zenon DEF Addresses, Space
<1> HIDE DEF x, top
<1>6. x \in 0 .. top
  BY <1>4
<1> QED BY <1>5, <1>6 DEF x

\* A sum of bits is a byte.
LEMMA BitsByte ==
  ASSUME NEW p0 \in {0, 1}, NEW p1 \in {0, 1}, NEW p2 \in {0, 1}, NEW p3 \in {0, 1},
         NEW p4 \in {0, 1}, NEW p5 \in {0, 1}, NEW p6 \in {0, 1}, NEW p7 \in {0, 1}
  PROVE  1 * p0 + 2 * p1 + 4 * p2 + 8 * p3 + 16 * p4 + 32 * p5 + 64 * p6 + 128 * p7 \in Byte
BY DEF Byte

LEMMA Powers == /\ 2^0 = 1 /\ 2^1 = 2 /\ 2^2 = 4 /\ 2^3 = 8
                /\ 2^4 = 16 /\ 2^5 = 32 /\ 2^6 = 64 /\ 2^7 = 128
OBVIOUS

Places == {1, 2, 4, 8, 16, 32, 64, 128}
LEMMA BitOf ==
  ASSUME NEW a \in Byte, NEW n \in Places
  PROVE  (a \div n) % 2 \in {0, 1}
BY DEF Byte, Places

LEMMA Logic ==
  ASSUME NEW a \in Byte, NEW b \in Byte
  PROVE  And(a, b) \in Byte /\ Or(a, b) \in Byte /\ Xor(a, b) \in Byte
<1> DEFINE p(n) == (a \div n) % 2
           q(n) == (b \div n) % 2
           and(n) == p(n) * q(n)
           or(n) == p(n) + q(n) - p(n) * q(n)
           xor(n) == (p(n) + q(n)) % 2
<1>1. \A n \in Places : p(n) \in {0, 1} /\ q(n) \in {0, 1}
  BY BitOf
<1>2. \A x, y \in {0, 1} : x * y \in {0, 1} /\ x + y - x * y \in {0, 1} /\ (x + y) % 2 \in {0, 1}
  OBVIOUS
<1>3. \A n \in Places : and(n) \in {0, 1} /\ or(n) \in {0, 1} /\ xor(n) \in {0, 1}
  <2> HIDE DEF p, q
  <2> QED BY <1>1, <1>2
<1>4. And(a, b) = 1 * and(1) + 2 * and(2) + 4 * and(4) + 8 * and(8)
                  + 16 * and(16) + 32 * and(32) + 64 * and(64) + 128 * and(128)
  BY Powers, Zenon DEF And, Bytewise
<1>5. Or(a, b) = 1 * or(1) + 2 * or(2) + 4 * or(4) + 8 * or(8)
                 + 16 * or(16) + 32 * or(32) + 64 * or(64) + 128 * or(128)
  BY Powers, Zenon DEF Or, Bytewise
<1>6. Xor(a, b) = 1 * xor(1) + 2 * xor(2) + 4 * xor(4) + 8 * xor(8)
                  + 16 * xor(16) + 32 * xor(32) + 64 * xor(64) + 128 * xor(128)
  BY Powers, Zenon DEF Xor, Bytewise
<1> HIDE DEF and, or, xor
<1> QED BY <1>3, <1>4, <1>5, <1>6, BitsByte DEF Places

-----------------------------------------------------------------------------
\* The machine

Memories == UNION {[D -> Byte] : D \in SUBSET Addresses}
Machines ==
  [A: Byte, X: Byte, Y: Byte, sp: Byte, status: SUBSET Flags, mem: Memories, pc: Addresses,
   irq_line: BOOLEAN, nmi_line: BOOLEAN, nmi_request: BOOLEAN, nmi_inhibit: BOOLEAN,
   illegalOpcode: BOOLEAN, stopped: BOOLEAN]

\* A machine stays one when a part of it gets another value of its kind.
LEMMA SetRegister ==
  ASSUME NEW c \in Machines, NEW v \in Byte
  PROVE  /\ [c EXCEPT !.A = v] \in Machines /\ [c EXCEPT !.X = v] \in Machines
         /\ [c EXCEPT !.Y = v] \in Machines /\ [c EXCEPT !.sp = v] \in Machines
BY DEF Machines
LEMMA SetPc ==
  ASSUME NEW c \in Machines, NEW v \in Addresses
  PROVE  [c EXCEPT !.pc = v] \in Machines
BY DEF Machines
LEMMA SetStatus ==
  ASSUME NEW c \in Machines, NEW v \in SUBSET Flags
  PROVE  [c EXCEPT !.status = v] \in Machines
BY DEF Machines
LEMMA SetFlag ==
  ASSUME NEW c \in Machines, NEW v \in BOOLEAN
  PROVE  /\ [c EXCEPT !.irq_line = v] \in Machines /\ [c EXCEPT !.nmi_line = v] \in Machines
         /\ [c EXCEPT !.nmi_request = v] \in Machines /\ [c EXCEPT !.nmi_inhibit = v] \in Machines
         /\ [c EXCEPT !.illegalOpcode = v] \in Machines /\ [c EXCEPT !.stopped = v] \in Machines
BY DEF Machines
LEMMA SetMemory ==
  ASSUME NEW c \in Machines, NEW v \in Memories
  PROVE  [c EXCEPT !.mem = v] \in Machines
BY DEF Machines
LEMMA Parts ==
  ASSUME NEW c \in Machines
  PROVE  /\ c.A \in Byte /\ c.X \in Byte /\ c.Y \in Byte /\ c.sp \in Byte
         /\ c.pc \in Addresses /\ c.status \in SUBSET Flags /\ c.mem \in Memories
         /\ Carry(c) \in {0, 1}
BY DEF Machines, Carry

LEMMA MemoryBytes ==
  ASSUME NEW mem \in Memories
  PROVE  DOMAIN mem \subseteq Addresses /\ \A a \in DOMAIN mem : mem[a] \in Byte
BY DEF Memories

LEMMA ReadByte ==
  ASSUME NEW c, c.mem \in Memories, NEW a, NEW b
  PROVE  Read(c, a) \in Byte /\ Word(c, a, b) \in Addresses
<1>1. \A x : Read(c, x) \in Byte
  BY MemoryBytes, Numbers DEF Read
<1> QED BY <1>1, TwoBytes DEF Word

LEMMA Poked ==
  ASSUME NEW c \in Machines, NEW a \in Addresses, NEW v \in Byte
  PROVE  /\ Poke(c, a, v) \in Machines
         /\ Poke(c, a, v) = [c EXCEPT !.mem = Poke(c, a, v).mem]
<1> DEFINE new == [b \in DOMAIN c.mem \cup {a} |-> IF b = a THEN v ELSE c.mem[b]]
<1>1. c.mem \in Memories
  BY Parts
<1>2. new \in [DOMAIN c.mem \cup {a} -> Byte] /\ DOMAIN c.mem \cup {a} \in SUBSET Addresses
  BY <1>1, MemoryBytes
<1>3. new \in Memories
  BY <1>2 DEF Memories
<1>4. Poke(c, a, v) = [c EXCEPT !.mem = new]
  BY DEF Poke
<1>5. [c EXCEPT !.mem = new].mem = new
  BY DEF Machines
<1> HIDE DEF new
<1> QED BY <1>3, <1>4, <1>5, SetMemory

LEMMA Written ==
  ASSUME NEW c \in Machines, NEW a \in Addresses, NEW v \in Byte
  PROVE  Write(c, a, v) \in Machines
BY Poked, SetFlag DEF Write

LEMMA StatusBytes ==
  ASSUME NEW s
  PROVE  StatusByte(s) + 48 \in Byte /\ StatusByte(s) + 32 \in Byte
<1>1. /\ Bit("N", s) \in {0, 128} /\ Bit("V", s) \in {0, 64} /\ Bit("D", s) \in {0, 8}
      /\ Bit("I", s) \in {0, 4} /\ Bit("Z", s) \in {0, 2} /\ Bit("C", s) \in {0, 1}
  BY DEF Bit, Weight
<1> QED BY <1>1 DEF StatusByte, Byte

\* Addr_xxx() gives an address, whatever the registers and the memory hold.
LEMMA AddressTyped ==
  ASSUME NEW c \in Machines, NEW mode
  PROVE  Address(c, mode) \in Addresses
<1> DEFINE b == Read(c, c.pc)
           w == b + 256 * Read(c, (c.pc + 1) % Space)
           z == (b + c.X) % 256
<1>1. /\ c.pc \in Addresses /\ c.X \in Byte /\ c.Y \in Byte
      /\ \A a : Read(c, a) \in Byte /\ \A n : Word(c, a, n) \in Addresses
  BY Parts, ReadByte
<1>2. b \in Byte /\ w \in Addresses
  BY <1>1, TwoBytes
<1> HIDE DEF b, w
<1>3. c.X \in Int /\ c.Y \in Int /\ b \in Int /\ w \in Int /\ c.pc \in Int
  BY <1>1, <1>2, Numbers
<1>4. z \in Byte /\ (b + c.Y) % 256 \in Byte
  BY <1>3, Wraps
<1>5. (w + c.X) % Space \in Addresses /\ (w + c.Y) % Space \in Addresses
  BY <1>3, Wraps
<1>6. (c.pc + 1 + IF High(b) THEN b - 256 ELSE b) % Space \in Addresses
  <2> DEFINE d == c.pc + 1 + IF High(b) THEN b - 256 ELSE b
  <2>1. d \in Int
    BY <1>3
  <2> HIDE DEF d
  <2>2. d % Space \in Addresses
    BY <2>1, Wraps
  <2> QED BY <2>2 DEF d
<1>7. (Word(c, b, (b + 1) % 256) + c.Y) % Space \in Addresses
  <2>1. Word(c, b, (b + 1) % 256) \in Int
    BY <1>1, Numbers
  <2>2. Word(c, b, (b + 1) % 256) + c.Y \in Int
    BY <1>3, <2>1
  <2> QED BY <2>2, Wraps
<1>8. b \in Addresses /\ z \in Addresses /\ (b + c.Y) % 256 \in Addresses /\ 0 \in Addresses
  BY <1>2, <1>4, Numbers
<1> DEFINE abi == Word(c, w, 256 * (w \div 256) + ((w + 1) % 256))
           inx == Word(c, z, (z + 1) % 256)
           iny == (Word(c, b, (b + 1) % 256) + c.Y) % Space
           rel == (c.pc + 1 + IF High(b) THEN b - 256 ELSE b) % Space
<1>9. Address(c, mode) \in {c.pc, b, z, (b + c.Y) % 256, w, (w + c.X) % Space,
                           (w + c.Y) % Space, abi, inx, iny, rel, 0}
  <2> HIDE DEF abi, inx, iny, rel
  <2>1. CASE mode = "IMM"
    BY <2>1 DEF Address
  <2>2. CASE mode \in {"ZER", "ZEX", "ZEY"}
    BY <2>2 DEF Address, b
  <2>3. CASE mode \in {"ABS", "ABX", "ABY"}
    BY <2>3 DEF Address, b, w
  <2>4. CASE mode = "ABI"
    BY <2>4 DEF Address, b, w, abi
  <2>5. CASE mode = "INX"
    BY <2>5 DEF Address, b, inx
  <2>6. CASE mode = "INY"
    BY <2>6 DEF Address, b, iny
  <2>7. CASE mode = "REL"
    BY <2>7 DEF Address, b, rel
  <2>8. CASE mode \notin {"IMM", "ZER", "ZEX", "ZEY", "ABS", "ABX", "ABY", "ABI", "INX", "INY",
                        "REL"}
    BY <2>8 DEF Address
  <2> QED BY <2>1, <2>2, <2>3, <2>4, <2>5, <2>6, <2>7, <2>8
<1>10. abi \in Addresses /\ inx \in Addresses
  BY <1>1
<1> HIDE DEF z, abi, inx, iny, rel
<1> QED BY <1>1, <1>2, <1>5, <1>6, <1>7, <1>8, <1>9, <1>10 DEF iny, rel

-----------------------------------------------------------------------------
\* What the instructions are made of takes machines to machines.

LEMMA FlagsTyped ==
  ASSUME NEW c \in Machines, NEW mask, NEW on \in SUBSET Flags
  PROVE  SetFlags(c, mask, on) \in Machines
<1>1. (c.status \ mask) \cup on \in SUBSET Flags
  BY Parts
<1> QED BY <1>1, SetStatus DEF SetFlags

LEMMA IfTyped ==
  ASSUME NEW f \in Flags, NEW condition
  PROVE  If(f, condition) \in SUBSET Flags
BY DEF If

LEMMA NZTyped ==
  ASSUME NEW c \in Machines, NEW r, NEW carry
  PROVE  /\ SetNZ(c, r) \in Machines /\ SetNZC(c, r, carry) \in Machines
         /\ NZ(r) \in SUBSET Flags
<1>1. NZ(r) \in SUBSET Flags /\ NZ(r) \cup If("C", carry) \in SUBSET Flags
  BY DEF NZ, If, Flags
<1> QED BY <1>1, FlagsTyped DEF SetNZ, SetNZC

LEMMA LoadTyped ==
  ASSUME NEW c \in Machines, NEW v \in Byte
  PROVE  SetA(c, v) \in Machines /\ SetX(c, v) \in Machines /\ SetY(c, v) \in Machines
BY NZTyped, SetRegister DEF SetA, SetX, SetY

LEMMA StoreTyped ==
  ASSUME NEW c \in Machines, NEW a \in Addresses, NEW v \in Byte
  PROVE  SetMem(c, a, v) \in Machines
BY NZTyped, Written DEF SetMem

LEMMA StackAddress ==
  ASSUME NEW b \in Byte
  PROVE  256 + b \in Addresses
<1>1. Space \in Int /\ Space > 600
  BY DEF Space
<1>2. b \in Int /\ 0 <= b /\ b <= 255
  BY DEF Byte
<1> QED BY <1>1, <1>2 DEF Addresses

LEMMA PushTyped ==
  ASSUME NEW c \in Machines, NEW v \in Byte
  PROVE  StackPush(c, v) \in Machines
<1> DEFINE w == Write(c, 256 + c.sp, v)
           below == IF c.sp = 0 THEN 255 ELSE c.sp - 1
<1>1. w \in Machines
  BY StackAddress, Written, Parts
<1>2. PICK sp \in Byte : sp = c.sp
  BY Parts
<1>3. (IF sp = 0 THEN 255 ELSE sp - 1) \in Byte
  BY DEF Byte
<1>4. below \in Byte
  BY <1>2, <1>3
<1>5. StackPush(c, v) = [w EXCEPT !.sp = below]
  BY DEF StackPush
<1> HIDE DEF w, below
<1> QED BY <1>1, <1>4, <1>5, SetRegister

LEMMA AddressBytes ==
  ASSUME NEW w \in Addresses
  PROVE  w \div 256 \in Byte /\ w % 256 \in Byte
<1>1. w \in Int /\ 0 <= w /\ w < 256 * 256
  <2>1. Space \in Int /\ Space = 256 * 256
    BY DEF Space
  <2>2. PICK s \in Int : s = Space
    BY <2>1
  <2>3. w \in 0 .. s - 1
    BY <2>2, Zenon DEF Addresses
  <2>4. w \in Int /\ 0 <= w /\ w < s
    BY ONLY <2>3, s \in Int
  <2> QED BY <2>1, <2>2, <2>4
<1> QED BY <1>1 DEF Byte

LEMMA PushWordTyped ==
  ASSUME NEW c \in Machines, NEW w \in Addresses
  PROVE  PushWord(c, w) \in Machines
BY AddressBytes, PushTyped DEF PushWord

LEMMA PopTyped ==
  ASSUME NEW c \in Machines, NEW n \in Nat
  PROVE  Popped(c, n) \in Machines /\ Top(c, n) \in Byte
<1>1. c.sp + n \in Int
  <2>1. PICK sp \in Int : sp = c.sp
    BY Parts, Numbers
  <2> QED BY <2>1
<1>2. (c.sp + n) % 256 \in Byte
  BY <1>1, Wraps
<1> QED BY <1>2, SetRegister, ReadByte, Parts, ZenonT(60) DEF Popped, Top

LEMMA CompareTyped ==
  ASSUME NEW c \in Machines, NEW r, NEW v
  PROVE  CompareOf(c, r, v) \in Machines
BY NZTyped DEF CompareOf

LEMMA AddTyped ==
  ASSUME NEW c \in Machines, NEW v \in Byte
  PROVE  AddOf(c, v) \in Machines
<1> DEFINE sum == c.A + v + Carry(c)
           low == (c.A % 16) + (v % 16) + Carry(c)
           half == 16 * (c.A \div 16) + 16 * (v \div 16)
                     + IF low >= 10 THEN ((low + 6) % 16) + 16 ELSE low
           seen == IF "D" \in c.status THEN half ELSE sum
           full == IF "D" \in c.status /\ half >= 160 THEN half + 96 ELSE seen
           zero == sum % 256 = 0
           over == High(c.A) = High(v) /\ High(c.A) # High(seen)
           out == full > 255
           on == If("N", High(seen)) \cup If("Z", zero) \cup If("V", over)
                   \cup If("C", out)
<1>1. on \in SUBSET Flags
  <2> HIDE DEF seen, zero, over, out, full
  <2>1. {"N", "Z", "V", "C"} \subseteq Flags
    BY DEF Flags
  <2>2. If("N", High(seen)) \subseteq {"N"} /\ If("Z", zero) \subseteq {"Z"}
    BY DEF If
  <2>3. If("V", over) \subseteq {"V"} /\ If("C", out) \subseteq {"C"}
    BY DEF If
  <2> QED BY <2>1, <2>2, <2>3
<1>2. c.A \in Int /\ v \in Int /\ Carry(c) \in Int
  <2>1. c.A \in Byte /\ Carry(c) \in {0, 1} /\ {0, 1} \subseteq Int
    BY Parts
  <2> QED BY <2>1, Numbers
<1>3. half \in Int /\ sum \in Int
  BY <1>2
<1>4. full % 256 \in Byte
  <2>1. full \in Int
    <3> HIDE DEF half, sum
    <3> QED BY <1>3
  <2> HIDE DEF full
  <2> QED BY <2>1, Wraps
<1>5. AddOf(c, v) = [SetFlags(c, {"N", "V", "Z", "C"}, on) EXCEPT !.A = full % 256]
  BY SMTT(40) DEF AddOf
<1> HIDE DEF on, full
<1>6. SetFlags(c, {"N", "V", "Z", "C"}, on) \in Machines
  BY <1>1, FlagsTyped
<1> DEFINE flagged == SetFlags(c, {"N", "V", "Z", "C"}, on)
           byte    == full % 256
<1>7. flagged \in Machines /\ byte \in Byte /\ AddOf(c, v) = [flagged EXCEPT !.A = byte]
  BY <1>4, <1>5, <1>6
<1> HIDE DEF sum, low, half, seen, zero, over, out, flagged, byte
<1> QED BY <1>7, SetRegister

LEMMA SubtractTyped ==
  ASSUME NEW c \in Machines, NEW v \in Byte
  PROVE  SubtractOf(c, v) \in Machines
<1> DEFINE diff == c.A - v - 1 + Carry(c)
           low == (c.A % 16) - (v % 16) - 1 + Carry(c)
           half == 16 * (c.A \div 16) - 16 * (v \div 16)
                     + IF low < 0 THEN ((low - 6) % 16) - 16 ELSE low
           seen == IF "D" \in c.status THEN half ELSE diff
           full == IF "D" \in c.status /\ half < 0 THEN half - 96 ELSE seen
           zero == diff % 256 = 0
           over == High(c.A) # High(v) /\ High(c.A) # High(seen)
           out == full >= 0
           on == If("N", High(seen)) \cup If("Z", zero) \cup If("V", over)
                   \cup If("C", out)
<1>1. on \in SUBSET Flags
  <2> HIDE DEF seen, zero, over, out, full
  <2>1. {"N", "Z", "V", "C"} \subseteq Flags
    BY DEF Flags
  <2>2. If("N", High(seen)) \subseteq {"N"} /\ If("Z", zero) \subseteq {"Z"}
    BY DEF If
  <2>3. If("V", over) \subseteq {"V"} /\ If("C", out) \subseteq {"C"}
    BY DEF If
  <2> QED BY <2>1, <2>2, <2>3
<1>2. c.A \in Int /\ v \in Int /\ Carry(c) \in Int
  <2>1. c.A \in Byte /\ Carry(c) \in {0, 1} /\ {0, 1} \subseteq Int
    BY Parts
  <2> QED BY <2>1, Numbers
<1>3. half \in Int /\ diff \in Int
  BY <1>2
<1>4. full % 256 \in Byte
  <2>1. full \in Int
    <3> HIDE DEF half, diff
    <3> QED BY <1>3
  <2> HIDE DEF full
  <2> QED BY <2>1, Wraps
<1>5. SubtractOf(c, v) = [SetFlags(c, {"N", "V", "Z", "C"}, on) EXCEPT !.A = full % 256]
  BY SMTT(40) DEF SubtractOf
<1> HIDE DEF on, full
<1>6. SetFlags(c, {"N", "V", "Z", "C"}, on) \in Machines
  BY <1>1, FlagsTyped
<1> DEFINE flagged == SetFlags(c, {"N", "V", "Z", "C"}, on)
           byte    == full % 256
<1>7. flagged \in Machines /\ byte \in Byte /\ SubtractOf(c, v) = [flagged EXCEPT !.A = byte]
  BY <1>4, <1>5, <1>6
<1> HIDE DEF diff, low, half, seen, zero, over, out, flagged, byte
<1> QED BY <1>7, SetRegister

LEMMA ShiftedTyped ==
  ASSUME NEW c \in Machines, NEW code \in {"ASL", "ROL", "LSR", "ROR"}, NEW v \in Byte
  PROVE  Shifted(c, code, v).byte \in Byte
<1>1. v \in 0 .. 255 /\ Carry(c) \in {0, 1}
  BY Parts DEF Byte
<1>2. /\ (2 * v) % 256 \in Byte /\ (2 * v + Carry(c)) % 256 \in Byte
      /\ v \div 2 \in Byte /\ v \div 2 + 128 * Carry(c) \in Byte
  BY <1>1 DEF Byte
<1> QED BY <1>2 DEF Shifted

LEMMA ShiftTyped ==
  ASSUME NEW c \in Machines, NEW code \in {"ASL", "ROL", "LSR", "ROR"}, NEW mode,
         NEW src \in Addresses
  PROVE  Shift(c, code, mode, src) \in Machines
<1> DEFINE s == Shifted(c, code, IF mode = "ACC" THEN c.A ELSE Read(c, src))
           f == SetNZC(c, s.byte, s.out)
<1>1. s.byte \in Byte
  BY Parts, ReadByte, ShiftedTyped
<1>2. f \in Machines
  BY NZTyped
<1>3. Shift(c, code, mode, src) = IF mode = "ACC" THEN [f EXCEPT !.A = s.byte]
                                  ELSE Write(f, src, s.byte)
  BY DEF Shift
<1> HIDE DEF f, s
<1> QED BY <1>1, <1>2, <1>3, SetRegister, Written

-----------------------------------------------------------------------------
\* Every instruction takes a machine to a machine.

LEMMA OperandParts ==
  ASSUME NEW c \in Machines, NEW src
  PROVE  /\ c.A \in Byte /\ c.X \in Byte /\ c.Y \in Byte /\ c.sp \in Byte
         /\ Read(c, src) \in Byte
         /\ (Read(c, src) + 1) % 256 \in Byte /\ (Read(c, src) - 1) % 256 \in Byte
         /\ (c.X + 1) % 256 \in Byte /\ (c.X - 1) % 256 \in Byte
         /\ (c.Y + 1) % 256 \in Byte /\ (c.Y - 1) % 256 \in Byte
<1>1. c.A \in Byte /\ c.X \in Byte /\ c.Y \in Byte /\ c.sp \in Byte /\ Read(c, src) \in Byte
  BY Parts, ReadByte
<1>2. \A b \in Byte : (b + 1) % 256 \in Byte /\ (b - 1) % 256 \in Byte
  BY DEF Byte
<1> QED BY <1>1, <1>2

LEMMA PcMoves ==
  ASSUME NEW c \in Machines, NEW n \in Int
  PROVE  (c.pc + n) % Space \in Addresses /\ (c.pc - n) % Space \in Addresses
<1>1. PICK pc \in Int : pc = c.pc
  BY Parts, Numbers
<1>2. (pc + n) % Space \in Addresses /\ (pc - n) % Space \in Addresses
  BY Wraps
<1> QED BY <1>1, <1>2

LEMMA AdcToAslTyped ==
  ASSUME NEW c \in Machines, NEW code \in {"ADC", "AND", "ASL"}, NEW mode, NEW src \in Addresses
  PROVE  OpAdcToAsl(c, code, mode, src) \in Machines
<1>1. AddOf(c, Read(c, src)) \in Machines
  BY OperandParts, AddTyped
<1>2. SetA(c, And(c.A, Read(c, src))) \in Machines
  BY OperandParts, Logic, LoadTyped, ZenonT(60)
<1>3. code = "ASL" => Shift(c, code, mode, src) \in Machines
  BY ShiftTyped
<1> QED BY <1>1, <1>2, <1>3 DEF OpAdcToAsl

LEMMA BranchTyped ==
  ASSUME NEW c \in Machines, NEW code, NEW src \in Addresses
  PROVE  OpBranch(c, code, src) \in Machines
BY SetPc DEF OpBranch

LEMMA BitBrkTyped ==
  ASSUME NEW c \in Machines, NEW code \in {"BIT", "BRK"}, NEW src \in Addresses
  PROVE  OpBitBrk(c, code, src) \in Machines
<1> DEFINE v == Read(c, src)
           p == PushWord(c, (c.pc + 1) % Space)
           b == StackPush(p, StatusByte(c.status) + 48)
           none == And(v, c.A) = 0
           on == (StatusOf(v) \cap {"N", "V"}) \cup If("Z", none)
           to == Word(b, irqVectorL, irqVectorL + 1)
<1>1. p \in Machines
  BY PcMoves, PushWordTyped
<1>2. b \in Machines
  BY <1>1, StatusBytes, PushTyped
<1>3. on \in SUBSET Flags
  <2> HIDE DEF none
  <2> QED BY DEF If, Flags
<1>4. OpBitBrk(c, code, src) = IF code = "BIT" THEN SetFlags(c, {"N", "V", "Z"}, on)
                               ELSE [b EXCEPT !.status = @ \cup {"I"}, !.pc = to]
  BY DEF OpBitBrk
<1> HIDE DEF b, on
<1>5. b.status \cup {"I"} \in SUBSET Flags
  BY <1>2, Parts DEF Flags
<1>6. to \in Addresses
  BY <1>2, Parts, ReadByte
<1> HIDE DEF to
<1>7. [b EXCEPT !.status = @ \cup {"I"}, !.pc = to] \in Machines
  BY <1>2, <1>5, <1>6 DEF Machines
<1> QED BY <1>3, <1>4, <1>7, FlagsTyped

LEMMA ClcToCpyTyped ==
  ASSUME NEW c \in Machines, NEW code \in {"CLC", "CLD", "CLI", "CLV", "CMP", "CPX", "CPY"},
         NEW src \in Addresses
  PROVE  OpClcToCpy(c, code, src) \in Machines
<1>1. \A f : SetFlags(c, f, {}) \in Machines
  BY FlagsTyped
<1>2. \A r, v : CompareOf(c, r, v) \in Machines
  BY CompareTyped
<1> QED BY <1>1, <1>2 DEF OpClcToCpy

LEMMA DecToInyTyped ==
  ASSUME NEW c \in Machines, NEW code \in {"DEC", "DEX", "DEY", "EOR", "INC", "INX", "INY"},
         NEW src \in Addresses
  PROVE  OpDecToIny(c, code, src) \in Machines
<1>1. /\ SetMem(c, src, (Read(c, src) - 1) % 256) \in Machines
      /\ SetMem(c, src, (Read(c, src) + 1) % 256) \in Machines
  BY OperandParts, StoreTyped
<1>2. /\ SetX(c, (c.X - 1) % 256) \in Machines /\ SetX(c, (c.X + 1) % 256) \in Machines
      /\ SetY(c, (c.Y - 1) % 256) \in Machines /\ SetY(c, (c.Y + 1) % 256) \in Machines
  BY OperandParts, LoadTyped
<1>3. SetA(c, Xor(c.A, Read(c, src))) \in Machines
  BY OperandParts, Logic, LoadTyped, ZenonT(60)
<1> QED BY <1>1, <1>2, <1>3 DEF OpDecToIny

LEMMA JmpToLsrTyped ==
  ASSUME NEW c \in Machines, NEW code \in {"JMP", "JSR", "LDA", "LDX", "LDY", "LSR"}, NEW mode,
         NEW src \in Addresses
  PROVE  OpJmpToLsr(c, code, mode, src) \in Machines
<1> DEFINE last == (c.pc - 1) % Space
           p == PushWord(c, last)
           to == (src % 256) + 256 * Read(p, last)
<1>1. last \in Addresses
  BY PcMoves
<1>2. p \in Machines
  BY <1>1, PushWordTyped
<1> HIDE DEF p, last
<1>3. src % 256 \in Byte /\ Read(p, last) \in Byte
  BY <1>2, OperandParts, Numbers, Wraps
<1>4. to \in Addresses
  BY <1>3, TwoBytes
<1>5. [c EXCEPT !.pc = src] \in Machines /\ [p EXCEPT !.pc = to] \in Machines
  BY <1>2, <1>4, SetPc
<1>6. SetA(c, Read(c, src)) \in Machines /\ SetX(c, Read(c, src)) \in Machines
      /\ SetY(c, Read(c, src)) \in Machines
  BY OperandParts, LoadTyped
<1>7. code = "LSR" => Shift(c, code, mode, src) \in Machines
  BY ShiftTyped
<1> QED BY <1>5, <1>6, <1>7 DEF OpJmpToLsr, p, last

LEMMA StatusOfTyped ==
  ASSUME NEW b
  PROVE  StatusOf(b) \in SUBSET Flags
BY DEF StatusOf

LEMMA NopToPlpTyped ==
  ASSUME NEW c \in Machines, NEW code \in {"NOP", "ORA", "PHA", "PHP", "PLA", "PLP"},
         NEW src \in Addresses
  PROVE  OpNopToPlp(c, code, src) \in Machines
<1>1. SetA(c, Or(c.A, Read(c, src))) \in Machines
  BY OperandParts, Logic, LoadTyped, ZenonT(60)
<1>2. StackPush(c, c.A) \in Machines /\ StackPush(c, StatusByte(c.status) + 48) \in Machines
  BY OperandParts, StatusBytes, PushTyped
<1>3. Popped(c, 1) \in Machines /\ Top(c, 1) \in Byte
  BY PopTyped
<1>4. SetA(Popped(c, 1), Top(c, 1)) \in Machines
  BY <1>3, LoadTyped
<1>5. [Popped(c, 1) EXCEPT !.status = StatusOf(Top(c, 1))] \in Machines
  BY <1>3, StatusOfTyped, SetStatus
<1> QED BY <1>1, <1>2, <1>4, <1>5 DEF OpNopToPlp

LEMMA RolToSbcTyped ==
  ASSUME NEW c \in Machines, NEW code \in {"ROL", "ROR", "RTI", "RTS", "SBC"}, NEW mode,
         NEW src \in Addresses
  PROVE  OpRolToSbc(c, code, mode, src) \in Machines
<1>1. code \in {"ROL", "ROR"} => Shift(c, code, mode, src) \in Machines
  BY ShiftTyped
<1>2. /\ Popped(c, 2) \in Machines /\ Popped(c, 3) \in Machines
      /\ Top(c, 1) \in Byte /\ Top(c, 2) \in Byte /\ Top(c, 3) \in Byte
  BY PopTyped
<1>3. Top(c, 2) + 256 * Top(c, 3) \in Addresses /\ Top(c, 1) + 256 * Top(c, 2) \in Addresses
  BY <1>2, TwoBytes
<1>4. (Top(c, 1) + 256 * Top(c, 2) + 1) % Space \in Addresses
  <2> DEFINE t == Top(c, 1) + 256 * Top(c, 2)
  <2>1. t \in Int
    BY <1>3, Numbers
  <2> HIDE DEF t
  <2>2. (t + 1) % Space \in Addresses
    BY <2>1, Wraps
  <2> QED BY <2>2 DEF t
<1> DEFINE back == Top(c, 2) + 256 * Top(c, 3)
           next == (Top(c, 1) + 256 * Top(c, 2) + 1) % Space
           old == StatusOf(Top(c, 1))
           p == Popped(c, 3)
<1>5. back \in Addresses /\ next \in Addresses /\ old \in SUBSET Flags /\ p \in Machines
  BY <1>2, <1>3, <1>4, StatusOfTyped
<1>6. SubtractOf(c, Read(c, src)) \in Machines
  BY OperandParts, SubtractTyped
<1>7. code = "RTI" => OpRolToSbc(c, code, mode, src)
                      = [p EXCEPT !.status = old, !.pc = back, !.nmi_inhibit = FALSE]
  BY DEF OpRolToSbc
<1>8. code = "RTS" => OpRolToSbc(c, code, mode, src) = [Popped(c, 2) EXCEPT !.pc = next]
  BY DEF OpRolToSbc
<1>9. code \in {"ROL", "ROR", "SBC"} => OpRolToSbc(c, code, mode, src) \in Machines
  BY <1>1, <1>6 DEF OpRolToSbc
<1> HIDE DEF back, next, old, p
<1>10. [p EXCEPT !.status = old, !.pc = back, !.nmi_inhibit = FALSE] \in Machines
  BY <1>5 DEF Machines
<1>11. [Popped(c, 2) EXCEPT !.pc = next] \in Machines
  BY <1>2, <1>5, SetPc
<1> QED BY <1>7, <1>8, <1>9, <1>10, <1>11

LEMMA SecToTyaTyped ==
  ASSUME NEW c \in Machines, NEW src \in Addresses,
         NEW code \in {"SEC", "SED", "SEI", "STA", "STX", "STY", "TAX", "TAY", "TSX", "TXA",
                       "TXS", "TYA"}
  PROVE  OpSecToTya(c, code, src) \in Machines
<1>1. /\ SetFlags(c, {"C"}, {"C"}) \in Machines /\ SetFlags(c, {"D"}, {"D"}) \in Machines
      /\ SetFlags(c, {"I"}, {"I"}) \in Machines
  BY FlagsTyped DEF Flags
<1>2. /\ Write(c, src, c.A) \in Machines /\ Write(c, src, c.X) \in Machines
      /\ Write(c, src, c.Y) \in Machines
  BY OperandParts, Written
<1>3. /\ SetX(c, c.A) \in Machines /\ SetY(c, c.A) \in Machines /\ SetX(c, c.sp) \in Machines
      /\ SetA(c, c.X) \in Machines /\ SetA(c, c.Y) \in Machines
  BY OperandParts, LoadTyped, ZenonT(60)
<1>4. [c EXCEPT !.sp = c.X] \in Machines
  BY OperandParts, SetRegister
<1> QED BY <1>1, <1>2, <1>3, <1>4 DEF OpSecToTya

LEMMA ArrTyped ==
  ASSUME NEW c \in Machines, NEW r \in Byte
  PROVE  ArrOf(c, r) \in Machines
<1> DEFINE bit6 == (r \div 64) % 2
           up == bit6 = 1
           over == bit6 # (r \div 32) % 2
           on == NZ(r) \cup If("C", up) \cup If("V", over)
           f == SetFlags(c, Flags \ {"D", "I"}, on)
           low == IF r % 16 >= 10 THEN (r + 6) % 256 ELSE r
           a == IF "D" \notin c.status THEN r
                ELSE IF low >= 160 THEN (low + 96) % 256 ELSE low
<1>1. on \in SUBSET Flags
  <2> HIDE DEF up, over
  <2>1. NZ(r) \in SUBSET Flags
    BY NZTyped
  <2> QED BY <2>1 DEF If, Flags
<1>2. r \in Int
  BY Numbers
<1>3. low \in Byte
  BY <1>2, Wraps
<1>4. a \in Byte
  <2> HIDE DEF low
  <2> QED BY <1>2, <1>3, Numbers, Wraps
<1>5. ArrOf(c, r) = [f EXCEPT !.A = a]
  BY DEF ArrOf
<1> HIDE DEF on, a
<1>6. f \in Machines
  BY <1>1, FlagsTyped
<1> QED BY <1>4, <1>5, <1>6, SetRegister

LEMMA AlrToLasTyped ==
  ASSUME NEW c \in Machines, NEW src \in Addresses,
         NEW code \in {"ALR", "ANC", "ANE", "ARR", "DCP", "ISC", "LAS"}
  PROVE  OpAlrToLas(c, code, src) \in Machines
<1> DEFINE v == Read(c, src)
           a == And(c.A, v)
           s == And(v, c.sp)
           up == (v + 1) % 256
           down == (v - 1) % 256
           odd == a % 2 = 1
           high == a >= 128
<1>1. /\ v \in Byte /\ a \in Byte /\ s \in Byte /\ up \in Byte /\ down \in Byte
      /\ c.A \in Byte /\ c.X \in Byte /\ c.sp \in Byte
  BY OperandParts, Logic
<1>2. a \div 2 \in Byte /\ a \div 2 + 128 * Carry(c) \in Byte
  <2> HIDE DEF a
  <2>1. a \in 0 .. 255 /\ Carry(c) \in {0, 1}
    BY <1>1, Parts DEF Byte
  <2> QED BY <2>1 DEF Byte
<1>3. And(And(Or(c.A, 238), c.X), v) \in Byte
  <2>1. 238 \in Byte
    BY DEF Byte
  <2> QED BY <1>1, <2>1, Logic
<1> HIDE DEF v, a, s, up, down, odd, high
<1>4. /\ [SetNZC(c, a \div 2, odd) EXCEPT !.A = a \div 2] \in Machines
      /\ [SetNZC(c, a, high) EXCEPT !.A = a] \in Machines
  <2>1. SetNZC(c, a \div 2, odd) \in Machines /\ SetNZC(c, a, high) \in Machines
    BY NZTyped
  <2> QED BY <1>1, <1>2, <2>1, SetRegister
<1>5. SetA(c, And(And(Or(c.A, 238), c.X), v)) \in Machines
  BY <1>3, LoadTyped
<1>6. ArrOf(c, a \div 2 + 128 * Carry(c)) \in Machines
  BY <1>2, ArrTyped
<1>7. Write(c, src, down) \in Machines /\ Write(c, src, up) \in Machines
  BY <1>1, Written
<1>8. CompareOf(Write(c, src, down), c.A, down) \in Machines
  BY <1>7, CompareTyped
<1>9. SubtractOf(Write(c, src, up), up) \in Machines
  BY <1>1, <1>7, SubtractTyped
<1>10. [SetNZ(c, s) EXCEPT !.A = s, !.X = s, !.sp = s] \in Machines
  <2>1. SetNZ(c, s) \in Machines
    BY NZTyped
  <2> QED BY <1>1, <2>1 DEF Machines
<1> DEFINE o == OpAlrToLas(c, code, src)
<1>11. CASE code \in {"ALR", "ANC"}
  <2>1. \/ o = [SetNZC(c, a \div 2, odd) EXCEPT !.A = a \div 2]
        \/ o = [SetNZC(c, a, high) EXCEPT !.A = a]
    BY <1>11 DEF OpAlrToLas, a, v, odd, high
  <2> QED BY <1>4, <2>1
<1>12. CASE code \in {"ANE", "ARR"}
  <2>1. \/ o = SetA(c, And(And(Or(c.A, 238), c.X), v))
        \/ o = ArrOf(c, a \div 2 + 128 * Carry(c))
    BY <1>12 DEF OpAlrToLas, a, v
  <2> QED BY <1>5, <1>6, <2>1
<1>13. CASE code \in {"DCP", "ISC"}
  <2>1. \/ o = CompareOf(Write(c, src, down), c.A, down)
        \/ o = SubtractOf(Write(c, src, up), up)
    BY <1>13 DEF OpAlrToLas, up, down, v
  <2> QED BY <1>8, <1>9, <2>1
<1>14. CASE code = "LAS"
  <2>1. o = [SetNZ(c, s) EXCEPT !.A = s, !.X = s, !.sp = s]
    BY <1>14 DEF OpAlrToLas, s, v
  <2> QED BY <1>10, <2>1
<1> QED BY <1>11, <1>12, <1>13, <1>14

LEMMA ShiftThenTyped ==
  ASSUME NEW c \in Machines, NEW code \in {"RLA", "RRA", "SLO", "SRE"}, NEW src \in Addresses
  PROVE  ShiftThen(c, code, src) \in Machines
<1> DEFINE plain == CASE code = "RLA" -> "ROL" [] code = "RRA" -> "ROR"
                     [] code = "SLO" -> "ASL" [] code = "SRE" -> "LSR"
           s == Shifted(c, plain, Read(c, src))
           w == Write(SetFlags(c, {"C"}, If("C", s.out)), src, s.byte)
<1>1. plain \in {"ASL", "ROL", "LSR", "ROR"}
  OBVIOUS
<1>2. s.byte \in Byte
  <2> HIDE DEF plain
  <2> QED BY <1>1, OperandParts, ShiftedTyped
<1>3. w \in Machines
  <2> HIDE DEF s
  <2>1. If("C", s.out) \in SUBSET Flags
    BY DEF If, Flags
  <2> QED BY <1>2, <2>1, FlagsTyped, Written
<1>4. ShiftThen(c, code, src) =
          CASE code = "RLA" -> SetA(w, And(c.A, s.byte))
            [] code = "RRA" -> AddOf(w, s.byte)
            [] code = "SLO" -> SetA(w, Or(c.A, s.byte))
            [] code = "SRE" -> SetA(w, Xor(c.A, s.byte))
  BY Zenon DEF ShiftThen
<1> HIDE DEF plain, s, w
<1>5. /\ And(c.A, s.byte) \in Byte /\ Or(c.A, s.byte) \in Byte /\ Xor(c.A, s.byte) \in Byte
  BY <1>2, OperandParts, Logic
<1>6. /\ SetA(w, And(c.A, s.byte)) \in Machines /\ SetA(w, Or(c.A, s.byte)) \in Machines
      /\ SetA(w, Xor(c.A, s.byte)) \in Machines
  BY <1>3, <1>5, LoadTyped
<1>7. AddOf(w, s.byte) \in Machines
  BY <1>2, <1>3, AddTyped
<1> QED BY <1>4, <1>6, <1>7

LaxToTas == {"LAX", "LXA", "RLA", "RRA", "SLO", "SRE", "SAX", "SBX", "SHA", "SHX", "SHY", "TAS"}
LEMMA LaxToTasTyped ==
  ASSUME NEW c \in Machines, NEW code \in LaxToTas, NEW src \in Addresses
  PROVE  OpLaxToTas(c, code, src) \in Machines
<1> DEFINE v    == Read(c, src)
           both == And(c.A, c.X)
           lxa  == And(Or(c.A, 238), v)
           page == (src \div 256 + 1) % 256
           less == (both - v) % 256
           over == both >= v
<1>1. 238 \in Byte
  BY DEF Byte
<1>2. /\ v \in Byte /\ both \in Byte /\ lxa \in Byte
      /\ c.A \in Byte /\ c.X \in Byte /\ c.Y \in Byte
  BY <1>1, OperandParts, Logic
<1>3. page \in Byte
  <2>1. src \in Int
    BY Numbers
  <2> QED BY <2>1, Wraps
<1> HIDE DEF v, both, lxa, page
<1>4. less \in Byte
  BY <1>2, Numbers, Wraps
<1> HIDE DEF less, over
<1>5. /\ And(both, page) \in Byte /\ And(c.X, page) \in Byte /\ And(c.Y, page) \in Byte
  BY <1>2, <1>3, Logic
<1>6. /\ [SetNZ(c, v) EXCEPT !.A = v, !.X = v] \in Machines
      /\ [SetNZ(c, lxa) EXCEPT !.A = lxa, !.X = lxa] \in Machines
      /\ [SetNZC(c, both - v, over) EXCEPT !.X = less] \in Machines
  <2>1. /\ SetNZ(c, v) \in Machines /\ SetNZ(c, lxa) \in Machines
        /\ SetNZC(c, both - v, over) \in Machines
    BY NZTyped
  <2>2. \A n \in Machines, b \in Byte : [n EXCEPT !.A = b, !.X = b] \in Machines
    BY DEF Machines
  <2> QED BY <1>2, <1>4, <2>1, <2>2, SetRegister
<1>7. /\ Write(c, src, both) \in Machines /\ Write(c, src, And(both, page)) \in Machines
      /\ Write(c, src, And(c.X, page)) \in Machines
      /\ Write(c, src, And(c.Y, page)) \in Machines
  BY <1>2, <1>5, Written
<1>8. Write([c EXCEPT !.sp = both], src, And(both, page)) \in Machines
  BY <1>2, <1>5, SetRegister, Written
<1>9. code \in {"RLA", "RRA", "SLO", "SRE"} => OpLaxToTas(c, code, src) \in Machines
  BY ShiftThenTyped DEF OpLaxToTas
<1> DEFINE o == OpLaxToTas(c, code, src)
<1>10. CASE code \in {"LAX", "LXA"}
  <2>1. \/ o = [SetNZ(c, v) EXCEPT !.A = v, !.X = v]
        \/ o = [SetNZ(c, lxa) EXCEPT !.A = lxa, !.X = lxa]
    BY <1>10, ZenonT(60) DEF OpLaxToTas, lxa, v
  <2> QED BY <1>6, <2>1
<1>11. CASE code = "SBX"
  <2>1. o = [SetNZC(c, both - v, over) EXCEPT !.X = less]
    BY <1>11 DEF OpLaxToTas, both, v, over, less
  <2> QED BY <1>6, <2>1
<1>12. CASE code \in {"SAX", "SHA", "SHX", "SHY", "TAS"}
  <2>1. \/ o = Write(c, src, both) \/ o = Write(c, src, And(both, page))
        \/ o = Write(c, src, And(c.X, page)) \/ o = Write(c, src, And(c.Y, page))
        \/ o = Write([c EXCEPT !.sp = both], src, And(both, page))
    BY <1>12 DEF OpLaxToTas, both, page
  <2> QED BY <1>7, <1>8, <2>1
<1> QED BY <1>9, <1>10, <1>11, <1>12 DEF LaxToTas

-----------------------------------------------------------------------------
\* The instruction table has a row for every byte, and its rows name instructions that
\* Op knows.
Firsts(rows) == {r[1] : r \in rows}
Seconds(rows) == {r[2] : r \in rows}

LEMMA FirstOfRow ==
  ASSUME NEW rows, NEW b, NEW code, NEW mode, <<b, code, mode>> \in rows
  PROVE  b \in Firsts(rows)
<1>1. <<b, code, mode>>[1] = b
  OBVIOUS
<1> QED BY <1>1 DEF Firsts

LEMMA CombinedRows ==
  ASSUME NEW code, NEW b
  PROVE  Combined(code, b) =
           {<<b, code, "INX">>, <<b + 4, code, "ZER">>, <<b + 12, code, "ABS">>,
            <<b + 16, code, "INY">>, <<b + 20, code, "ZEX">>, <<b + 24, code, "ABY">>,
            <<b + 28, code, "ABX">>}
<1>1. \A n, mode : <<n, code, mode>>[3] = mode
  OBVIOUS
<1> QED BY <1>1 DEF Combined, Regular

BytesAdcToAsl ==
  {6, 10, 14, 22, 30, 33, 37, 41, 45, 49, 53, 57, 61, 97, 101, 105, 109, 113, 117, 121,
   125}
LEMMA RowsAdcToAsl ==
  /\ BytesAdcToAsl \subseteq Firsts(InstrAdcToAsl)
  /\ Seconds(InstrAdcToAsl) \subseteq {"ADC", "AND", "ASL"}
<1>1. BytesAdcToAsl \subseteq Firsts(InstrAdcToAsl)
  BY DEF InstrAdcToAsl, BytesAdcToAsl, Firsts, Memory, Regular
<1>2. Seconds(InstrAdcToAsl) \subseteq {"ADC", "AND", "ASL"}
  BY DEF InstrAdcToAsl, Seconds, Memory, Regular
<1> QED BY <1>1, <1>2

BytesBccToBvs ==
  {0, 16, 36, 44, 48, 80, 112, 144, 176, 208, 240}
LEMMA RowsBccToBvs ==
  /\ BytesBccToBvs \subseteq Firsts(InstrBccToBvs)
  /\ Seconds(InstrBccToBvs) \subseteq {"BCC", "BCS", "BEQ", "BIT", "BMI", "BNE", "BPL",
                                  "BRK", "BVC", "BVS"}
<1>1. BytesBccToBvs \subseteq Firsts(InstrBccToBvs)
  BY DEF InstrBccToBvs, BytesBccToBvs, Firsts, Implied, Relative
<1>2. Seconds(InstrBccToBvs) \subseteq {"BCC", "BCS", "BEQ", "BIT", "BMI", "BNE", "BPL",
                                  "BRK", "BVC", "BVS"}
  BY DEF InstrBccToBvs, Seconds, Implied, Relative
<1> QED BY <1>1, <1>2

BytesClcToCpy ==
  {24, 88, 184, 192, 193, 196, 197, 201, 204, 205, 209, 213, 216, 217, 221, 224, 228,
   236}
LEMMA RowsClcToCpy ==
  /\ BytesClcToCpy \subseteq Firsts(InstrClcToCpy)
  /\ Seconds(InstrClcToCpy) \subseteq {"CLC", "CLD", "CLI", "CLV", "CMP", "CPX", "CPY"}
<1>1. BytesClcToCpy \subseteq Firsts(InstrClcToCpy)
  BY DEF InstrClcToCpy, BytesClcToCpy, Firsts, Implied, Regular
<1>2. Seconds(InstrClcToCpy) \subseteq {"CLC", "CLD", "CLI", "CLV", "CMP", "CPX", "CPY"}
  BY DEF InstrClcToCpy, Seconds, Implied, Regular
<1> QED BY <1>1, <1>2

BytesDecToJsr ==
  {32, 65, 69, 73, 76, 77, 81, 85, 89, 93, 108, 136, 198, 200, 202, 206, 214, 222, 230,
   232, 238, 246, 254}
LEMMA RowsDecToJsr ==
  /\ BytesDecToJsr \subseteq Firsts(InstrDecToJsr)
  /\ Seconds(InstrDecToJsr) \subseteq {"DEC", "DEX", "DEY", "EOR", "INC", "INX", "INY",
                                  "JMP", "JSR"}
<1>1. BytesDecToJsr \subseteq Firsts(InstrDecToJsr)
  BY DEF InstrDecToJsr, BytesDecToJsr, Firsts, Implied, Memory, Regular
<1>2. Seconds(InstrDecToJsr) \subseteq {"DEC", "DEX", "DEY", "EOR", "INC", "INX", "INY",
                                  "JMP", "JSR"}
  BY DEF InstrDecToJsr, Seconds, Implied, Memory, Regular
<1> QED BY <1>1, <1>2

BytesLdaToLsr ==
  {70, 74, 78, 86, 94, 160, 161, 162, 164, 165, 166, 169, 172, 173, 174, 177, 180, 181,
   182, 185, 188, 189, 190}
LEMMA RowsLdaToLsr ==
  /\ BytesLdaToLsr \subseteq Firsts(InstrLdaToLsr)
  /\ Seconds(InstrLdaToLsr) \subseteq {"LDA", "LDX", "LDY", "LSR"}
<1>1. BytesLdaToLsr \subseteq Firsts(InstrLdaToLsr)
  BY DEF InstrLdaToLsr, BytesLdaToLsr, Firsts, Memory, Regular
<1>2. Seconds(InstrLdaToLsr) \subseteq {"LDA", "LDX", "LDY", "LSR"}
  BY DEF InstrLdaToLsr, Seconds, Memory, Regular
<1> QED BY <1>1, <1>2

BytesNopToPlp ==
  {1, 5, 8, 9, 13, 17, 21, 25, 29, 40, 72, 104, 234}
LEMMA RowsNopToPlp ==
  /\ BytesNopToPlp \subseteq Firsts(InstrNopToPlp)
  /\ Seconds(InstrNopToPlp) \subseteq {"NOP", "ORA", "PHA", "PHP", "PLA", "PLP"}
<1>1. BytesNopToPlp \subseteq Firsts(InstrNopToPlp)
  BY DEF InstrNopToPlp, BytesNopToPlp, Firsts, Implied, Regular
<1>2. Seconds(InstrNopToPlp) \subseteq {"NOP", "ORA", "PHA", "PHP", "PLA", "PLP"}
  BY DEF InstrNopToPlp, Seconds, Implied, Regular
<1> QED BY <1>1, <1>2

BytesRolToSbc ==
  {38, 42, 46, 54, 62, 64, 96, 102, 106, 110, 118, 126, 225, 229, 233, 237, 241, 245,
   249, 253}
LEMMA RowsRolToSbc ==
  /\ BytesRolToSbc \subseteq Firsts(InstrRolToSbc)
  /\ Seconds(InstrRolToSbc) \subseteq {"ROL", "ROR", "RTI", "RTS", "SBC"}
<1>1. BytesRolToSbc \subseteq Firsts(InstrRolToSbc)
  BY DEF InstrRolToSbc, BytesRolToSbc, Firsts, Implied, Memory, Regular
<1>2. Seconds(InstrRolToSbc) \subseteq {"ROL", "ROR", "RTI", "RTS", "SBC"}
  BY DEF InstrRolToSbc, Seconds, Implied, Memory, Regular
<1> QED BY <1>1, <1>2

BytesSecToSty ==
  {56, 120, 129, 132, 133, 134, 140, 141, 142, 145, 148, 149, 150, 153, 157, 248}
LEMMA RowsSecToSty ==
  /\ BytesSecToSty \subseteq Firsts(InstrSecToSty)
  /\ Seconds(InstrSecToSty) \subseteq {"SEC", "SED", "SEI", "STA", "STX", "STY"}
<1>1. Combined("STA", \h81) =
         {<<129, "STA", "INX">>, <<133, "STA", "ZER">>, <<141, "STA", "ABS">>, <<145, "STA", "INY">>,
          <<149, "STA", "ZEX">>, <<153, "STA", "ABY">>, <<157, "STA", "ABX">>}
  BY CombinedRows
<1>2. BytesSecToSty \subseteq Firsts(InstrSecToSty)
  <2>1. {129, 133, 141, 145, 149, 153, 157} \subseteq Firsts(InstrSecToSty)
    <3>1. /\ {<<129, "STA", "INX">>, <<133, "STA", "ZER">>, <<141, "STA", "ABS">>,
              <<145, "STA", "INY">>}
               \subseteq InstrSecToSty
          /\ {<<149, "STA", "ZEX">>, <<153, "STA", "ABY">>, <<157, "STA", "ABX">>}
               \subseteq InstrSecToSty
      BY <1>1 DEF InstrSecToSty
    <3> QED BY <3>1, FirstOfRow
  <2>2. {134, 150, 142, 132, 148} \subseteq Firsts(InstrSecToSty)
    <3>1. {<<134, "STX", "ZER">>, <<150, "STX", "ZEY">>, <<142, "STX", "ABS">>, <<132,
            "STY", "ZER">>, <<148, "STY", "ZEX">>} \subseteq InstrSecToSty
      BY DEF InstrSecToSty, Implied
    <3> QED BY <3>1, FirstOfRow
  <2>3. {140, 56, 248, 120} \subseteq Firsts(InstrSecToSty)
    <3>1. {<<140, "STY", "ABS">>, <<56, "SEC", "IMP">>, <<248, "SED", "IMP">>, <<120,
            "SEI", "IMP">>} \subseteq InstrSecToSty
      BY DEF InstrSecToSty, Implied
    <3> QED BY <3>1, FirstOfRow
  <2> QED BY <2>1, <2>2, <2>3 DEF BytesSecToSty
<1>3. Seconds(InstrSecToSty) \subseteq {"SEC", "SED", "SEI", "STA", "STX", "STY"}
  BY <1>1 DEF InstrSecToSty, Seconds, Implied
<1> QED BY <1>2, <1>3

BytesTaxToTya ==
  {138, 152, 154, 168, 170, 186}
LEMMA RowsTaxToTya ==
  /\ BytesTaxToTya \subseteq Firsts(InstrTaxToTya)
  /\ Seconds(InstrTaxToTya) \subseteq {"TAX", "TAY", "TSX", "TXA", "TXS", "TYA"}
<1>1. BytesTaxToTya \subseteq Firsts(InstrTaxToTya)
  BY DEF InstrTaxToTya, BytesTaxToTya, Firsts, Implied
<1>2. Seconds(InstrTaxToTya) \subseteq {"TAX", "TAY", "TSX", "TXA", "TXS", "TYA"}
  BY DEF InstrTaxToTya, Seconds, Implied
<1> QED BY <1>1, <1>2

BytesAlrToIsc ==
  {11, 43, 75, 107, 139, 195, 199, 207, 211, 215, 219, 223, 227, 231, 239, 243, 247,
   251, 255}
LEMMA RowsAlrToIsc ==
  /\ BytesAlrToIsc \subseteq Firsts(InstrAlrToIsc)
  /\ Seconds(InstrAlrToIsc) \subseteq {"ALR", "ANC", "ANE", "ARR", "DCP", "ISC"}
<1>1. Combined("DCP", \hC3) =
         {<<195, "DCP", "INX">>, <<199, "DCP", "ZER">>, <<207, "DCP", "ABS">>, <<211, "DCP", "INY">>,
          <<215, "DCP", "ZEX">>, <<219, "DCP", "ABY">>, <<223, "DCP", "ABX">>}
  BY CombinedRows
<1>2. Combined("ISC", \hE3) =
         {<<227, "ISC", "INX">>, <<231, "ISC", "ZER">>, <<239, "ISC", "ABS">>, <<243, "ISC", "INY">>,
          <<247, "ISC", "ZEX">>, <<251, "ISC", "ABY">>, <<255, "ISC", "ABX">>}
  BY CombinedRows
<1>3. BytesAlrToIsc \subseteq Firsts(InstrAlrToIsc)
  <2>1. {195, 199, 207, 211, 215, 219, 223} \subseteq Firsts(InstrAlrToIsc)
    <3>1. /\ {<<195, "DCP", "INX">>, <<199, "DCP", "ZER">>, <<207, "DCP", "ABS">>,
              <<211, "DCP", "INY">>}
               \subseteq InstrAlrToIsc
          /\ {<<215, "DCP", "ZEX">>, <<219, "DCP", "ABY">>, <<223, "DCP", "ABX">>}
               \subseteq InstrAlrToIsc
      BY <1>1 DEF InstrAlrToIsc
    <3> QED BY <3>1, FirstOfRow
  <2>2. {227, 231, 239, 243, 247, 251, 255} \subseteq Firsts(InstrAlrToIsc)
    <3>1. /\ {<<227, "ISC", "INX">>, <<231, "ISC", "ZER">>, <<239, "ISC", "ABS">>,
              <<243, "ISC", "INY">>}
               \subseteq InstrAlrToIsc
          /\ {<<247, "ISC", "ZEX">>, <<251, "ISC", "ABY">>, <<255, "ISC", "ABX">>}
               \subseteq InstrAlrToIsc
      BY <1>2 DEF InstrAlrToIsc
    <3> QED BY <3>1, FirstOfRow
  <2>3. {75, 11, 43, 139, 107} \subseteq Firsts(InstrAlrToIsc)
    <3>1. {<<75, "ALR", "IMM">>, <<11, "ANC", "IMM">>, <<43, "ANC", "IMM">>, <<139,
            "ANE", "IMM">>, <<107, "ARR", "IMM">>} \subseteq InstrAlrToIsc
      BY DEF InstrAlrToIsc
    <3> QED BY <3>1, FirstOfRow
  <2> QED BY <2>1, <2>2, <2>3 DEF BytesAlrToIsc
<1>4. Seconds(InstrAlrToIsc) \subseteq {"ALR", "ANC", "ANE", "ARR", "DCP", "ISC"}
  BY <1>1, <1>2 DEF InstrAlrToIsc, Seconds
<1> QED BY <1>3, <1>4

BytesLasToSha ==
  {35, 39, 47, 51, 55, 59, 63, 99, 103, 111, 115, 119, 123, 127, 131, 135, 143, 147,
   151, 159, 163, 167, 171, 175, 179, 183, 187, 191, 203}
LEMMA RowsLasToSha ==
  /\ BytesLasToSha \subseteq Firsts(InstrLasToSha)
  /\ Seconds(InstrLasToSha)
       \subseteq {"LAS", "LAX", "LXA", "RLA", "RRA", "SAX", "SBX", "SHA"}
<1>1. Combined("RLA", \h23) =
         {<<35, "RLA", "INX">>, <<39, "RLA", "ZER">>, <<47, "RLA", "ABS">>, <<51, "RLA", "INY">>,
          <<55, "RLA", "ZEX">>, <<59, "RLA", "ABY">>, <<63, "RLA", "ABX">>}
  BY CombinedRows
<1>2. Combined("RRA", \h63) =
         {<<99, "RRA", "INX">>, <<103, "RRA", "ZER">>, <<111, "RRA", "ABS">>, <<115, "RRA", "INY">>,
          <<119, "RRA", "ZEX">>, <<123, "RRA", "ABY">>, <<127, "RRA", "ABX">>}
  BY CombinedRows
<1>3. BytesLasToSha \subseteq Firsts(InstrLasToSha)
  <2>1. {35, 39, 47, 51, 55, 59, 63} \subseteq Firsts(InstrLasToSha)
    <3>1. /\ {<<35, "RLA", "INX">>, <<39, "RLA", "ZER">>, <<47, "RLA", "ABS">>,
              <<51, "RLA", "INY">>}
               \subseteq InstrLasToSha
          /\ {<<55, "RLA", "ZEX">>, <<59, "RLA", "ABY">>, <<63, "RLA", "ABX">>}
               \subseteq InstrLasToSha
      BY <1>1 DEF InstrLasToSha
    <3> QED BY <3>1, FirstOfRow
  <2>2. {99, 103, 111, 115, 119, 123, 127} \subseteq Firsts(InstrLasToSha)
    <3>1. /\ {<<99, "RRA", "INX">>, <<103, "RRA", "ZER">>, <<111, "RRA", "ABS">>,
              <<115, "RRA", "INY">>}
               \subseteq InstrLasToSha
          /\ {<<119, "RRA", "ZEX">>, <<123, "RRA", "ABY">>, <<127, "RRA", "ABX">>}
               \subseteq InstrLasToSha
      BY <1>2 DEF InstrLasToSha
    <3> QED BY <3>1, FirstOfRow
  <2>3. {187, 171, 167, 183, 175} \subseteq Firsts(InstrLasToSha)
    <3>1. {<<187, "LAS", "ABY">>, <<171, "LXA", "IMM">>, <<167, "LAX", "ZER">>, <<183,
            "LAX", "ZEY">>, <<175, "LAX", "ABS">>} \subseteq InstrLasToSha
      BY DEF InstrLasToSha
    <3> QED BY <3>1, FirstOfRow
  <2>4. {191, 163, 179, 135, 151} \subseteq Firsts(InstrLasToSha)
    <3>1. {<<191, "LAX", "ABY">>, <<163, "LAX", "INX">>, <<179, "LAX", "INY">>, <<135,
            "SAX", "ZER">>, <<151, "SAX", "ZEY">>} \subseteq InstrLasToSha
      BY DEF InstrLasToSha
    <3> QED BY <3>1, FirstOfRow
  <2>5. {143, 131, 203, 159, 147} \subseteq Firsts(InstrLasToSha)
    <3>1. {<<143, "SAX", "ABS">>, <<131, "SAX", "INX">>, <<203, "SBX", "IMM">>, <<159,
            "SHA", "ABY">>, <<147, "SHA", "INY">>} \subseteq InstrLasToSha
      BY DEF InstrLasToSha
    <3> QED BY <3>1, FirstOfRow
  <2> QED BY <2>1, <2>2, <2>3, <2>4, <2>5 DEF BytesLasToSha
<1>4. Seconds(InstrLasToSha) \subseteq {"LAS", "LAX", "LXA", "RLA", "RRA", "SAX", "SBX", "SHA"}
  BY <1>1, <1>2 DEF InstrLasToSha, Seconds
<1> QED BY <1>3, <1>4

BytesShxToUsbc ==
  {3, 7, 15, 19, 23, 27, 31, 67, 71, 79, 83, 87, 91, 95, 155, 156, 158, 235}
LEMMA RowsShxToUsbc ==
  /\ BytesShxToUsbc \subseteq Firsts(InstrShxToUsbc)
  /\ Seconds(InstrShxToUsbc) \subseteq {"SBC", "SHX", "SHY", "SLO", "SRE", "TAS"}
<1>1. Combined("SLO", \h03) =
         {<<3, "SLO", "INX">>, <<7, "SLO", "ZER">>, <<15, "SLO", "ABS">>, <<19, "SLO", "INY">>,
          <<23, "SLO", "ZEX">>, <<27, "SLO", "ABY">>, <<31, "SLO", "ABX">>}
  BY CombinedRows
<1>2. Combined("SRE", \h43) =
         {<<67, "SRE", "INX">>, <<71, "SRE", "ZER">>, <<79, "SRE", "ABS">>, <<83, "SRE", "INY">>,
          <<87, "SRE", "ZEX">>, <<91, "SRE", "ABY">>, <<95, "SRE", "ABX">>}
  BY CombinedRows
<1>3. BytesShxToUsbc \subseteq Firsts(InstrShxToUsbc)
  <2>1. {3, 7, 15, 19, 23, 27, 31} \subseteq Firsts(InstrShxToUsbc)
    <3>1. /\ {<<3, "SLO", "INX">>, <<7, "SLO", "ZER">>, <<15, "SLO", "ABS">>,
              <<19, "SLO", "INY">>}
               \subseteq InstrShxToUsbc
          /\ {<<23, "SLO", "ZEX">>, <<27, "SLO", "ABY">>, <<31, "SLO", "ABX">>}
               \subseteq InstrShxToUsbc
      BY <1>1 DEF InstrShxToUsbc
    <3> QED BY <3>1, FirstOfRow
  <2>2. {67, 71, 79, 83, 87, 91, 95} \subseteq Firsts(InstrShxToUsbc)
    <3>1. /\ {<<67, "SRE", "INX">>, <<71, "SRE", "ZER">>, <<79, "SRE", "ABS">>,
              <<83, "SRE", "INY">>}
               \subseteq InstrShxToUsbc
          /\ {<<87, "SRE", "ZEX">>, <<91, "SRE", "ABY">>, <<95, "SRE", "ABX">>}
               \subseteq InstrShxToUsbc
      BY <1>2 DEF InstrShxToUsbc
    <3> QED BY <3>1, FirstOfRow
  <2>3. {158, 156, 155, 235} \subseteq Firsts(InstrShxToUsbc)
    <3>1. {<<158, "SHX", "ABY">>, <<156, "SHY", "ABX">>, <<155, "TAS", "ABY">>, <<235,
            "SBC", "IMM">>} \subseteq InstrShxToUsbc
      BY DEF InstrShxToUsbc
    <3> QED BY <3>1, FirstOfRow
  <2> QED BY <2>1, <2>2, <2>3 DEF BytesShxToUsbc
<1>4. Seconds(InstrShxToUsbc) \subseteq {"SBC", "SHX", "SHY", "SLO", "SRE", "TAS"}
  BY <1>1, <1>2 DEF InstrShxToUsbc, Seconds
<1> QED BY <1>3, <1>4

BytesNops ==
  {4, 12, 20, 26, 28, 52, 58, 60, 68, 84, 90, 92, 100, 116, 122, 124, 128, 130, 137,
   194, 212, 218, 220, 226, 244, 250, 252}
LEMMA RowsNops ==
  /\ BytesNops \subseteq Firsts(InstrNops)
  /\ Seconds(InstrNops) \subseteq {"NOP"}
<1>1. BytesNops \subseteq Firsts(InstrNops)
  <2>1. \A b \in {\h1A, \h3A, \h5A, \h7A, \hDA, \hFA} : <<b, "NOP", "IMP">> \in InstrNops
    BY DEF InstrNops
  <2>2. \A b \in {\h80, \h82, \h89, \hC2, \hE2} : <<b, "NOP", "IMM">> \in InstrNops
    BY DEF InstrNops
  <2>3. \A b \in {\h04, \h44, \h64} : <<b, "NOP", "ZER">> \in InstrNops
    BY DEF InstrNops
  <2>4. \A b \in {\h14, \h34, \h54, \h74, \hD4, \hF4} : <<b, "NOP", "ZEX">> \in InstrNops
    BY DEF InstrNops
  <2>5. \A b \in {\h1C, \h3C, \h5C, \h7C, \hDC, \hFC} : <<b, "NOP", "ABX">> \in InstrNops
    BY DEF InstrNops
  <2>6. <<\h0C, "NOP", "ABS">> \in InstrNops
    BY DEF InstrNops
  <2> QED BY <2>1, <2>2, <2>3, <2>4, <2>5, <2>6, FirstOfRow DEF BytesNops
<1>2. Seconds(InstrNops) \subseteq {"NOP"}
  BY DEF InstrNops, Seconds
<1> QED BY <1>1, <1>2

BytesJams ==
  {2, 18, 34, 50, 66, 82, 98, 114, 146, 178, 210, 242}
LEMMA RowsJams ==
  /\ BytesJams \subseteq Firsts(InstrJams)
  /\ Seconds(InstrJams) \subseteq {"ILLEGAL"}
<1>1. BytesJams \subseteq Firsts(InstrJams)
  <2>1. \A b \in {\h02, \h12, \h22, \h32, \h42, \h52, \h62, \h72, \h92,
                \hB2, \hD2, \hF2} : <<b, "ILLEGAL", "IMP">> \in InstrJams
    BY DEF InstrJams
  <2> QED BY <2>1, FirstOfRow DEF BytesJams
<1>2. Seconds(InstrJams) \subseteq {"ILLEGAL"}
  BY DEF InstrJams, Seconds
<1> QED BY <1>1, <1>2

\* The codes that have a case in Op.
Known ==
  {"ADC", "AND", "ASL"} \cup {"BCC", "BCS", "BEQ", "BMI", "BNE", "BPL", "BVC", "BVS"}
    \cup {"BIT", "BRK"} \cup {"CLC", "CLD", "CLI", "CLV", "CMP", "CPX", "CPY"}
    \cup {"DEC", "DEX", "DEY", "EOR", "INC", "INX", "INY"}
    \cup {"JMP", "JSR", "LDA", "LDX", "LDY", "LSR"}
    \cup {"NOP", "ORA", "PHA", "PHP", "PLA", "PLP"} \cup {"ROL", "ROR", "RTI", "RTS", "SBC"}
    \cup {"SEC", "SED", "SEI", "STA", "STX", "STY", "TAX", "TAY", "TSX", "TXA", "TXS", "TYA"}
    \cup {"ALR", "ANC", "ANE", "ARR", "DCP", "ISC", "LAS"} \cup {"ILLEGAL"} \cup LaxToTas

LEMMA EveryByte ==
  Byte \subseteq UNION {BytesAdcToAsl, BytesBccToBvs, BytesClcToCpy, BytesDecToJsr,
                         BytesLdaToLsr, BytesNopToPlp, BytesRolToSbc, BytesSecToSty,
                         BytesTaxToTya, BytesAlrToIsc, BytesLasToSha, BytesShxToUsbc,
                         BytesNops, BytesJams}
<1>1. ASSUME NEW b \in 0 .. 255
      PROVE  \/ b \in BytesAdcToAsl \/ b \in BytesBccToBvs \/ b \in BytesClcToCpy
             \/ b \in BytesDecToJsr \/ b \in BytesLdaToLsr \/ b \in BytesNopToPlp
             \/ b \in BytesRolToSbc \/ b \in BytesSecToSty \/ b \in BytesTaxToTya
             \/ b \in BytesAlrToIsc \/ b \in BytesLasToSha \/ b \in BytesShxToUsbc
             \/ b \in BytesNops \/ b \in BytesJams
  BY DEF BytesAdcToAsl, BytesBccToBvs, BytesClcToCpy, BytesDecToJsr, BytesLdaToLsr,
         BytesNopToPlp, BytesRolToSbc, BytesSecToSty, BytesTaxToTya, BytesAlrToIsc,
         BytesLasToSha, BytesShxToUsbc, BytesNops, BytesJams
<1> QED BY <1>1 DEF Byte

LEMMA RowsOfGroups ==
  /\ \A i \in DOMAIN Codes : Codes[i] \subseteq Rows /\ Seconds(Codes[i])
       \subseteq Known
  /\ Byte \subseteq UNION {Firsts(Codes[i]) : i \in DOMAIN Codes}
<1>1. /\ DOMAIN Codes = 1 .. 14
      /\ Codes[1] = InstrAdcToAsl
      /\ Codes[2] = InstrBccToBvs
      /\ Codes[3] = InstrClcToCpy
      /\ Codes[4] = InstrDecToJsr
      /\ Codes[5] = InstrLdaToLsr
      /\ Codes[6] = InstrNopToPlp
      /\ Codes[7] = InstrRolToSbc
      /\ Codes[8] = InstrSecToSty
      /\ Codes[9] = InstrTaxToTya
      /\ Codes[10] = InstrAlrToIsc
      /\ Codes[11] = InstrLasToSha
      /\ Codes[12] = InstrShxToUsbc
      /\ Codes[13] = InstrNops
      /\ Codes[14] = InstrJams
  BY DEF Codes
<1>2. \A i \in DOMAIN Codes : Codes[i] \subseteq Rows
  BY DEF Rows
<1>3. Seconds(Codes[1]) \subseteq Known /\ BytesAdcToAsl \subseteq Firsts(Codes[1])
  <2>1. Codes[1] = InstrAdcToAsl
    BY <1>1
  <2> QED BY <2>1, RowsAdcToAsl DEF Known, LaxToTas
<1>4. Seconds(Codes[2]) \subseteq Known /\ BytesBccToBvs \subseteq Firsts(Codes[2])
  <2>1. Codes[2] = InstrBccToBvs
    BY <1>1
  <2> QED BY <2>1, RowsBccToBvs DEF Known, LaxToTas
<1>5. Seconds(Codes[3]) \subseteq Known /\ BytesClcToCpy \subseteq Firsts(Codes[3])
  <2>1. Codes[3] = InstrClcToCpy
    BY <1>1
  <2> QED BY <2>1, RowsClcToCpy DEF Known, LaxToTas
<1>6. Seconds(Codes[4]) \subseteq Known /\ BytesDecToJsr \subseteq Firsts(Codes[4])
  <2>1. Codes[4] = InstrDecToJsr
    BY <1>1
  <2> QED BY <2>1, RowsDecToJsr DEF Known, LaxToTas
<1>7. Seconds(Codes[5]) \subseteq Known /\ BytesLdaToLsr \subseteq Firsts(Codes[5])
  <2>1. Codes[5] = InstrLdaToLsr
    BY <1>1
  <2> QED BY <2>1, RowsLdaToLsr DEF Known, LaxToTas
<1>8. Seconds(Codes[6]) \subseteq Known /\ BytesNopToPlp \subseteq Firsts(Codes[6])
  <2>1. Codes[6] = InstrNopToPlp
    BY <1>1
  <2> QED BY <2>1, RowsNopToPlp DEF Known, LaxToTas
<1>9. Seconds(Codes[7]) \subseteq Known /\ BytesRolToSbc \subseteq Firsts(Codes[7])
  <2>1. Codes[7] = InstrRolToSbc
    BY <1>1
  <2> QED BY <2>1, RowsRolToSbc DEF Known, LaxToTas
<1>10. Seconds(Codes[8]) \subseteq Known /\ BytesSecToSty \subseteq Firsts(Codes[8])
  <2>1. Codes[8] = InstrSecToSty
    BY <1>1
  <2> QED BY <2>1, RowsSecToSty DEF Known, LaxToTas
<1>11. Seconds(Codes[9]) \subseteq Known /\ BytesTaxToTya \subseteq Firsts(Codes[9])
  <2>1. Codes[9] = InstrTaxToTya
    BY <1>1
  <2> QED BY <2>1, RowsTaxToTya DEF Known, LaxToTas
<1>12. Seconds(Codes[10]) \subseteq Known /\ BytesAlrToIsc \subseteq Firsts(Codes[10])
  <2>1. Codes[10] = InstrAlrToIsc
    BY <1>1
  <2> QED BY <2>1, RowsAlrToIsc DEF Known, LaxToTas
<1>13. Seconds(Codes[11]) \subseteq Known /\ BytesLasToSha \subseteq Firsts(Codes[11])
  <2>1. Codes[11] = InstrLasToSha
    BY <1>1
  <2> QED BY <2>1, RowsLasToSha DEF Known, LaxToTas
<1>14. Seconds(Codes[12]) \subseteq Known /\ BytesShxToUsbc \subseteq Firsts(Codes[12])
  <2>1. Codes[12] = InstrShxToUsbc
    BY <1>1
  <2> QED BY <2>1, RowsShxToUsbc DEF Known, LaxToTas
<1>15. Seconds(Codes[13]) \subseteq Known /\ BytesNops \subseteq Firsts(Codes[13])
  <2>1. Codes[13] = InstrNops
    BY <1>1
  <2> QED BY <2>1, RowsNops DEF Known, LaxToTas
<1>16. Seconds(Codes[14]) \subseteq Known /\ BytesJams \subseteq Firsts(Codes[14])
  <2>1. Codes[14] = InstrJams
    BY <1>1
  <2> QED BY <2>1, RowsJams DEF Known, LaxToTas
<1>17. \A i \in 1 .. 14 : Seconds(Codes[i]) \subseteq Known
  BY <1>3, <1>4, <1>5, <1>6, <1>7, <1>8, <1>9, <1>10, <1>11, <1>12, <1>13, <1>14, <1>15,
     <1>16
<1>18. ASSUME NEW b \in Byte
       PROVE  \E i \in 1 .. 14 : b \in Firsts(Codes[i])
  BY EveryByte, <1>3, <1>4, <1>5, <1>6, <1>7, <1>8, <1>9, <1>10, <1>11, <1>12, <1>13, <1>14, <1>15,
     <1>16
<1> QED BY <1>1, <1>2, <1>17, <1>18

LEMMA TableKnown ==
  ASSUME NEW b \in Byte
  PROVE  InstrTable[b].code \in Known
<1>1. PICK i \in DOMAIN Codes : b \in Firsts(Codes[i])
  BY RowsOfGroups
<1>2. PICK r \in Codes[i] : b = r[1]
  BY <1>1 DEF Firsts
<1>3. r \in Rows
  BY RowsOfGroups
<1> DEFINE row == CHOOSE q \in Rows : q[1] = b
<1>4. row \in Rows
  BY <1>2, <1>3
<1>5. PICK k \in DOMAIN Codes : row \in Codes[k]
  BY <1>4 DEF Rows
<1>6. row[2] \in Known
  BY <1>5, RowsOfGroups DEF Seconds
<1>7. InstrTable[b] = [code |-> row[2], mode |-> row[3]]
  BY DEF InstrTable
<1> HIDE DEF row
<1> QED BY <1>6, <1>7
-----------------------------------------------------------------------------
\* The processor takes machines to machines.

LEMMA Branches ==
  DOMAIN BranchOn = {"BCC", "BCS", "BEQ", "BMI", "BNE", "BPL", "BVC", "BVS"}
BY DEF BranchOn

LEMMA OpTyped ==
  ASSUME NEW c \in Machines, NEW code \in Known, NEW mode, NEW src \in Addresses
  PROVE  Op(c, code, mode, src) \in Machines
<1>1. CASE code \in {"ADC", "AND", "ASL"}
  <2>1. Op(c, code, mode, src) = OpAdcToAsl(c, code, mode, src)
    BY <1>1, Branches DEF Op
  <2> QED BY <1>1, <2>1, AdcToAslTyped
<1>2. CASE code \in DOMAIN BranchOn
  BY <1>2, Branches, BranchTyped DEF Op
<1>3. CASE code \in {"BIT", "BRK"}
  BY <1>3, Branches, BitBrkTyped DEF Op
<1>4. CASE code \in {"CLC", "CLD", "CLI", "CLV", "CMP", "CPX", "CPY"}
  BY <1>4, Branches, ClcToCpyTyped DEF Op
<1>5. CASE code \in {"DEC", "DEX", "DEY", "EOR", "INC", "INX", "INY"}
  BY <1>5, Branches, DecToInyTyped DEF Op
<1>6. CASE code \in {"JMP", "JSR", "LDA", "LDX", "LDY", "LSR"}
  BY <1>6, Branches, JmpToLsrTyped DEF Op
<1>7. CASE code \in {"NOP", "ORA", "PHA", "PHP", "PLA", "PLP"}
  BY <1>7, Branches, NopToPlpTyped DEF Op
<1>8. CASE code \in {"ROL", "ROR", "RTI", "RTS", "SBC"}
  BY <1>8, Branches, RolToSbcTyped DEF Op
<1>9. CASE code \in {"SEC", "SED", "SEI", "STA", "STX", "STY", "TAX", "TAY", "TSX", "TXA",
                     "TXS", "TYA"}
  BY <1>9, Branches, SecToTyaTyped DEF Op
<1>10. CASE code \in {"ALR", "ANC", "ANE", "ARR", "DCP", "ISC", "LAS"}
  BY <1>10, Branches, AlrToLasTyped DEF Op
<1>11. CASE code = "ILLEGAL"
  BY <1>11, Branches, SetFlag DEF Op
<1>12. CASE code \in LaxToTas
  <2>1. Op(c, code, mode, src) = OpLaxToTas(c, code, src)
    BY <1>12, Branches DEF Op, LaxToTas
  <2> QED BY <1>12, <2>1, LaxToTasTyped
<1> QED
  BY <1>1, <1>2, <1>3, <1>4, <1>5, <1>6, <1>7, <1>8, <1>9, <1>10, <1>11, <1>12, Branches
  DEF Known

LEMMA ExecuteTyped ==
  ASSUME NEW c \in Machines
  PROVE  Execute(c) \in Machines
<1> DEFINE instr  == InstrTable[Read(c, c.pc)]
           behind == [c EXCEPT !.pc = (@ + 1) % Space]
           past   == [behind EXCEPT !.pc = (@ + Length(instr.mode)) % Space]
<1>1. instr.code \in Known
  BY Parts, ReadByte, TableKnown
<1>2. behind \in Machines
  <2>1. (c.pc + 1) % Space \in Addresses
    BY PcMoves
  <2> QED BY <2>1, SetPc
<1> HIDE DEF instr, behind
<1>3. Length(instr.mode) \in Int
  BY DEF Length
<1>4. past \in Machines
  BY <1>2, <1>3, PcMoves, SetPc
<1> HIDE DEF past
<1>5. Execute(c) = Op(past, instr.code, instr.mode, Address(behind, instr.mode))
  BY DEF Execute, instr, behind, past
<1> QED BY <1>1, <1>2, <1>4, <1>5, AddressTyped, OpTyped

LEMMA ServiceTyped ==
  ASSUME NEW c \in Machines, NEW vector
  PROVE  Service(c, vector) \in Machines
<1> DEFINE p == StackPush(PushWord(c, c.pc), StatusByte(c.status) + 32)
           to == Word(p, vector, vector + 1)
<1>1. p \in Machines
  BY Parts, PushWordTyped, StatusBytes, PushTyped
<1>2. Service(c, vector) = [p EXCEPT !.status = @ \cup {"I"}, !.pc = to]
  BY DEF Service
<1> HIDE DEF p
<1>3. to \in Addresses
  BY <1>1, Parts, ReadByte
<1> HIDE DEF to
<1>4. p.status \cup {"I"} \in SUBSET Flags
  BY <1>1, Parts DEF Flags
<1>5. [p EXCEPT !.status = @ \cup {"I"}, !.pc = to] \in Machines
  BY <1>1, <1>3, <1>4 DEF Machines
<1> QED BY <1>2, <1>5

LEMMA RunTyped ==
  ASSUME NEW c \in Machines
  PROVE  CheckInterrupts(c) \in Machines /\ RunOne(c) \in Machines
<1>1. [c EXCEPT !.nmi_request = FALSE, !.nmi_inhibit = TRUE] \in Machines
  BY DEF Machines
<1>2. CheckInterrupts(c) \in Machines
  BY <1>1, ServiceTyped DEF CheckInterrupts
<1> QED BY <1>2, ExecuteTyped DEF RunOne

LEMMA LinesTyped ==
  ASSUME NEW c \in Machines, NEW line \in BOOLEAN
  PROVE  SetIrq(c, line) \in Machines /\ SetNmi(c, line) \in Machines
<1> DEFINE request == c.nmi_request \/ (c.nmi_line /\ ~line /\ ~c.nmi_inhibit)
<1>1. request \in BOOLEAN
  OBVIOUS
<1>2. SetNmi(c, line) = [c EXCEPT !.nmi_line = line, !.nmi_request = request]
  BY DEF SetNmi
<1> HIDE DEF request
<1>3. [c EXCEPT !.nmi_line = line, !.nmi_request = request] \in Machines
  BY <1>1 DEF Machines
<1> QED BY <1>2, <1>3, SetFlag DEF SetIrq

LEMMA ResetTyped ==
  ASSUME NEW memory \in Memories, NEW r \in Resets
  PROVE  Reset(memory, r) \in Machines
<1> DEFINE to == Word([mem |-> memory], rstVectorL, rstVectorL + 1)
<1>1. to \in Addresses
  BY ReadByte
<1>2. /\ r.A \in Byte /\ r.X \in Byte /\ r.Y \in Byte /\ r.sp \in Byte
      /\ r.status \in SUBSET Flags
  BY DEF Resets
<1> HIDE DEF to
<1> QED BY <1>1, <1>2 DEF Reset, Machines, to
-----------------------------------------------------------------------------
\* The simulator keeps to its types.

\* While a file is loaded the machine is its memory; then it is a machine.
Typed ==
  /\ phase \in {"load", "run", "exit", "failed"}
  /\ records \in Seq(Seq(Byte)) /\ base \in Nat /\ chosen.reset \in Resets
  /\ phase \in {"load", "failed"} => m \in [mem: Memories]
  /\ phase \in {"run", "exit"} => m \in Machines

\* A record that passes the checks stores bytes at addresses, and gives a base address.
LEMMA ByteNat == Byte \subseteq Nat
BY DEF Byte

LEMMA RecordTyped ==
  ASSUME NEW r \in Seq(Byte), base \in Nat, RecordOk(r), NEW mem \in Memories
  PROVE  BaseAfter(r) \in Nat /\ (r[4] = 0 => Stored(r, mem) \in Memories)
<1>1. Len(r) >= 5 /\ Len(r) = 5 + r[1] /\ Len(r) \in Nat
  BY DEF RecordOk, LineOk
<1>2. r[2] \in Byte /\ r[3] \in Byte
  BY <1>1
<1>3. BaseAfter(r) \in Nat
  <2>1. CASE r[4] \in {2, 4}
    <3>1. Len(r) = 7
      BY <1>1, <2>1 DEF RecordOk
    <3>2. r[5] \in Nat /\ r[6] \in Nat
      <4>0. \A i \in 1 .. Len(r) : r[i] \in Byte
        OBVIOUS
      <4>1. \A i \in 1 .. 7 : r[i] \in Byte
        BY <3>1, <4>0
      <4>2. r[5] \in Byte /\ r[6] \in Byte
        BY <4>1
      <4> QED BY <4>2, ByteNat
    <3>3. 16 * (256 * r[5] + r[6]) \in Nat
      BY <3>2
    <3>4. Space * (256 * r[5] + r[6]) \in Nat
      BY <3>2 DEF Space
    <3> QED BY <2>1, <3>3, <3>4 DEF BaseAfter
  <2>2. CASE r[4] \notin {2, 4}
    BY <2>2 DEF BaseAfter
  <2> QED BY <2>1, <2>2
<1>4. ASSUME r[4] = 0
      PROVE  Stored(r, mem) \in Memories
  <2> DEFINE data == Data(r)
             n == Len(data)
             at == At(r)
             into == at .. (at + n - 1)
  <2>1. data \in Seq(Byte) /\ n \in Nat
    BY <1>1 DEF Data
  <2>2. at \in Nat
    <3>1. PICK high \in Nat, low \in Nat : high = r[2] /\ low = r[3]
      BY <1>2, ByteNat
    <3> QED BY <3>1 DEF At
  <2>3. n = 0 \/ at + n <= Space
    <3>1. data = <<>> => n = 0
      OBVIOUS
    <3> QED BY <1>4, <3>1 DEF RecordOk, InMemory
  <2> DEFINE new == [a \in DOMAIN mem \cup into |->
                        IF a \in into THEN data[a - at + 1] ELSE mem[a]]
  <2>4. Stored(r, mem) = new
    BY DEF Stored
  <2> HIDE DEF data, at, n
  <2>5. into \subseteq Addresses
    <3>1. PICK s \in Int : s = Space
      BY Numbers
    <3>2. \A a \in into : a \in 0 .. s - 1
      BY <2>1, <2>2, <2>3, <3>1
    <3> QED BY <3>1, <3>2 DEF Addresses
  <2>6. \A a \in into : data[a - at + 1] \in Byte
    <3>1. \A a \in into : a - at + 1 \in 1 .. n
      BY <2>1, <2>2
    <3> QED BY <2>1, <3>1 DEF n
  <2> HIDE DEF into
  <2>7. new \in [DOMAIN mem \cup into -> Byte] /\ DOMAIN mem \cup into \in SUBSET Addresses
    BY <2>5, <2>6, MemoryBytes
  <2> QED BY <2>4, <2>7 DEF Memories
<1> QED BY <1>3, <1>4

LEMMA TypedInit ==
  ASSUME Init
  PROVE  Typed
<1>1. PICK s \in Scenarios : records = s.file /\ chosen = [f \in DOMAIN s \ {"file"} |-> s[f]]
  BY DEF Init
<1>2. WellFormed(s)
  BY ScenariosAssumption
<1>3. chosen.reset = s.reset /\ s.reset \in Resets /\ s.file \in Seq(Seq(Byte))
  BY <1>1, <1>2 DEF WellFormed
<1>4. <<>> \in Memories
  <2>1. <<>> \in [{} -> Byte] /\ {} \in SUBSET Addresses
    OBVIOUS
  <2> QED BY <2>1 DEF Memories
<1> QED BY <1>1, <1>3, <1>4 DEF Init, Typed

LEMMA LoopTyped ==
  ASSUME NEW c \in Machines
  PROVE  Looped(c) \in Machines /\ \A before : Device(before, Looped(c)) \in Machines
<1>1. Poke(c, Host, 96) \in Machines
  BY Numbers, Poked
<1>2. RunOne(Poke(c, Host, 96)) \in Machines
  BY <1>1, RunTyped
<1>3. Read(c, Host) \in Byte
  BY Parts, ReadByte
<1>4. Answered(c) \in Machines
  BY <1>2, <1>3, Numbers, Poked DEF Answered
<1>5. Looped(c) \in Machines
  BY <1>4 DEF Looped
<1> QED BY <1>5, LinesTyped DEF Device

LEMMA TypedNext ==
  ASSUME Typed, [Next]_vars
  PROVE  Typed'
<1>1. CASE LoadRecord
  <2> DEFINE r == Head(records)
  <2>1. r \in Seq(Byte) /\ Tail(records) \in Seq(Seq(Byte)) /\ <<>> \in Seq(Seq(Byte))
    BY <1>1 DEF LoadRecord, Typed
  <2>2. m \in [mem: Memories] /\ base \in Nat
    BY <1>1 DEF LoadRecord, Typed
  <2>3. CASE ~RecordOk(r)
    BY <1>1, <2>3 DEF LoadRecord, Typed
  <2>4. CASE RecordOk(r)
    <3> HIDE DEF r
    <3>1. BaseAfter(r) \in Nat /\ (r[4] = 0 => Stored(r, m.mem) \in Memories)
      BY <2>1, <2>2, <2>4, RecordTyped
    <3>2. /\ phase = "load" /\ phase' = phase /\ chosen' = chosen
          /\ base' = BaseAfter(r) /\ records' \in {<<>>, Tail(records)}
          /\ m' = IF r[4] = 0 THEN [m EXCEPT !.mem = Stored(r, @)] ELSE m
      BY <1>1, <2>4 DEF LoadRecord, r
    <3>3. m' \in [mem: Memories]
      BY <2>2, <3>1, <3>2
    <3> QED BY <2>1, <3>1, <3>2, <3>3 DEF Typed
  <2> QED BY <2>3, <2>4
<1>2. CASE Start
  <2>1. m.mem \in Memories
    BY <1>2 DEF Start, Typed
  <2>2. m' \in Machines
    BY <1>2, <2>1, ResetTyped DEF Start, Typed
  <2> QED BY <1>2, <2>2 DEF Start, Typed, Lines
<1>3. CASE Step
  <2> DEFINE ran == RunOne(m)
  <2>1. m \in Machines
    BY <1>3 DEF Step, Typed
  <2>2. ran \in Machines /\ Device(m, Looped(ran)) \in Machines
    BY <2>1, RunTyped, LoopTyped
  <2>3. m' \in {ran, Device(m, Looped(ran))} /\ phase' \in {"run", "exit"}
    BY <1>3 DEF Step
  <2>4. UNCHANGED <<chosen, records, base>>
    BY <1>3 DEF Step, Lines
  <2> HIDE DEF ran
  <2> QED BY <2>2, <2>3, <2>4 DEF Typed
<1>4. CASE Irq \/ NmiFall \/ NmiRise
  <2>1. m \in Machines
    BY <1>4 DEF Irq, NmiFall, NmiRise, Typed
  <2>2. m' \in Machines
    BY <1>4, <2>1, LinesTyped DEF Irq, NmiFall, NmiRise
  <2> QED BY <1>4, <2>2 DEF Irq, NmiFall, NmiRise, Typed, Lines
<1>5. CASE UNCHANGED vars
  BY <1>5 DEF Typed, vars
<1> QED BY <1>1, <1>2, <1>3, <1>4, <1>5 DEF Next

\* The machine, its memory and the records only ever hold what they can, whatever is
\* loaded, run and interrupted: the inductive invariant of the proofs about main.cpp.
THEOREM TypedAlways == Spec => []Typed
BY TypedInit, TypedNext, PTL DEF Spec

\* Whatever program it runs, with whatever operands, and wherever it is interrupted, the
\* registers of the simulated processor stay bytes, its pc and what it stores in stay
\* addresses, and its memory holds bytes (mos6502.cpp).
THEOREM SimulatorTyped == Spec => []TypeOK
<1>1. Typed => TypeOK
  <2>1. ASSUME m \in Machines
        PROVE  /\ {m.A, m.X, m.Y, m.sp} \subseteq Byte
               /\ m.pc \in Addresses /\ m.status \subseteq Flags
               /\ \A a \in DOMAIN m.mem : a \in Addresses /\ m.mem[a] \in Byte
    <3>1. m.mem \in Memories
      BY <2>1, Parts
    <3> QED BY <2>1, <3>1, Parts, MemoryBytes
  <2> QED BY <2>1 DEF Typed, TypeOK
<1> QED BY <1>1, TypedAlways, PTL

-----------------------------------------------------------------------------
\* Additions and subtractions

\* The digits of a decimal byte.
LEMMA Digits ==
  ASSUME NEW h \in 0 .. 15, NEW l \in 0 .. 15
  PROVE  /\ (16 * h + l) \div 16 = h /\ (16 * h + l) % 16 = l
         /\ (h < 10 /\ l < 10 => IsDecimal(16 * h + l))
         /\ Decimal(16 * h + l) = 10 * h + l
<1>1. (16 * h + l) \div 16 = h /\ (16 * h + l) % 16 = l
  OBVIOUS
<1> QED BY <1>1 DEF IsDecimal, Decimal

\* Op_ADC in decimal mode: the low digits and what they carry, the high digits and what
\* they carry.
LEMMA DecimalSum ==
  ASSUME NEW a \in Byte, NEW b \in Byte, NEW k \in {0, 1}, IsDecimal(a), IsDecimal(b),
         NEW low, low = (a % 16) + (b % 16) + k,
         NEW half, half = 16 * (a \div 16) + 16 * (b \div 16)
                            + IF low >= 10 THEN ((low + 6) % 16) + 16 ELSE low,
         NEW full, full = IF half >= 160 THEN half + 96 ELSE half
  PROVE  /\ IsDecimal(full % 256)
         /\ Decimal(full % 256) + 100 * (IF full > 255 THEN 1 ELSE 0)
              = Decimal(a) + Decimal(b) + k
<1>1. PICK ah \in 0 .. 9, al \in 0 .. 9, bh \in 0 .. 9, bl \in 0 .. 9 :
         ah = a \div 16 /\ al = a % 16 /\ bh = b \div 16 /\ bl = b % 16
  <2>1. \A x \in Byte : IsDecimal(x) => x \div 16 \in 0 .. 9 /\ x % 16 \in 0 .. 9
    BY DEF IsDecimal, Byte
  <2> QED BY <2>1
<1> DEFINE l == IF low >= 10 THEN low - 10 ELSE low
           o == IF low >= 10 THEN 1 ELSE 0
           h == ah + bh + o
<1>2. low = al + bl + k /\ low \in 0 .. 19
  <2>1. low = al + bl + k
    BY <1>1
  <2> QED BY ONLY <2>1, al \in 0 .. 9, bl \in 0 .. 9, k \in {0, 1}
<1>3. l \in 0 .. 9 /\ o \in {0, 1} /\ low = l + 10 * o
  BY <1>2
<1>4. half = 16 * h + l
  <2>1. low >= 10 => (low + 6) % 16 = low - 10
    BY <1>2
  <2> QED BY <1>1, <1>2, <2>1
<1>5. h \in 0 .. 19 /\ h = ah + bh + o
  BY <1>3
<1> HIDE DEF l, o, h
<1>6. Decimal(a) + Decimal(b) + k = 10 * h + l
  <2>1. Decimal(a) = 10 * ah + al /\ Decimal(b) = 10 * bh + bl
    BY <1>1 DEF Decimal
  <2> QED BY <1>2, <1>3, <1>5, <2>1
<1>7. CASE h < 10
  <2>1. half < 160 /\ half \in 0 .. 255
    BY ONLY <1>3, <1>4, <1>5, <1>7
  <2>2. full % 256 = 16 * h + l /\ ~(full > 255)
    <3>1. full = half
      <4>1. ~(half >= 160)
        BY ONLY <2>1
      <4> QED BY <4>1, Zenon
    <3> QED BY ONLY <1>4, <2>1, <3>1
  <2>3. h \in 0 .. 15 /\ l \in 0 .. 15 /\ l < 10
    BY <1>3, <1>5, <1>7
  <2> QED BY <1>3, <1>5, <1>6, <1>7, <2>2, <2>3, Digits
<1>8. CASE h >= 10
  <2>1. full = 16 * (h - 10) + l + 256
    BY <1>3, <1>4, <1>5, <1>8
  <2> DEFINE g == h - 10
  <2>2. g \in 0 .. 9 /\ g \in 0 .. 15 /\ l \in 0 .. 15 /\ l < 10 /\ g < 10 /\ h = g + 10
    BY <1>3, <1>5, <1>8
  <2> HIDE DEF g
  <2>3. full = 16 * g + l + 256
    BY <1>3, <2>1, <2>2
  <2>4. full % 256 = 16 * g + l /\ full > 255
    BY <2>2, <2>3
  <2> QED BY <1>6, <2>2, <2>4, Digits
<1> QED BY <1>5, <1>7, <1>8

\* Op_SBC in decimal mode, with what the digits borrow.
LEMMA DecimalDifference ==
  ASSUME NEW a \in Byte, NEW b \in Byte, NEW k \in {0, 1}, IsDecimal(a), IsDecimal(b),
         NEW low, low = (a % 16) - (b % 16) - 1 + k,
         NEW half, half = 16 * (a \div 16) - 16 * (b \div 16)
                            + IF low < 0 THEN ((low - 6) % 16) - 16 ELSE low,
         NEW full, full = IF half < 0 THEN half - 96 ELSE half
  PROVE  /\ IsDecimal(full % 256)
         /\ Decimal(full % 256)
              = Decimal(a) - Decimal(b) - 1 + k + 100 * (1 - IF full >= 0 THEN 1 ELSE 0)
<1>1. PICK ah \in 0 .. 9, al \in 0 .. 9, bh \in 0 .. 9, bl \in 0 .. 9 :
         ah = a \div 16 /\ al = a % 16 /\ bh = b \div 16 /\ bl = b % 16
  <2>1. \A x \in Byte : IsDecimal(x) => x \div 16 \in 0 .. 9 /\ x % 16 \in 0 .. 9
    BY DEF IsDecimal, Byte
  <2> QED BY <2>1
<1> DEFINE l == IF low < 0 THEN low + 10 ELSE low
           o == IF low < 0 THEN 1 ELSE 0
           h == ah - bh - o
<1>2. low = al - bl - 1 + k /\ low \in -10 .. 9
  <2>1. low = al - bl - 1 + k
    BY <1>1
  <2> QED BY ONLY <2>1, al \in 0 .. 9, bl \in 0 .. 9, k \in {0, 1}
<1>3. l \in 0 .. 9 /\ o \in {0, 1} /\ low = l - 10 * o
  BY <1>2
<1>4. half = 16 * h + l
  <2>1. low < 0 => (low - 6) % 16 = low + 10
    BY <1>2
  <2> QED BY <1>1, <1>2, <2>1
<1>5. h \in -10 .. 9 /\ h = ah - bh - o
  BY <1>3
<1> HIDE DEF l, o, h
<1>6. Decimal(a) - Decimal(b) - 1 + k = 10 * h + l
  <2>1. Decimal(a) = 10 * ah + al /\ Decimal(b) = 10 * bh + bl
    BY <1>1 DEF Decimal
  <2> QED BY <1>2, <1>3, <1>5, <2>1
<1>7. CASE h >= 0
  <2>1. half >= 0 /\ half \in 0 .. 255
    BY ONLY <1>3, <1>4, <1>5, <1>7
  <2>2. full % 256 = 16 * h + l /\ full >= 0
    <3>1. full = half
      <4>1. ~(half < 0)
        BY ONLY <2>1
      <4> QED BY <4>1, Zenon
    <3> QED BY ONLY <1>4, <2>1, <3>1
  <2>3. h \in 0 .. 15 /\ l \in 0 .. 15 /\ l < 10 /\ h < 10
    BY <1>3, <1>5, <1>7
  <2> QED BY <1>3, <1>5, <1>6, <1>7, <2>2, <2>3, Digits
<1>8. CASE h < 0
  <2>1. full = 16 * (h + 10) + l - 256
    BY <1>3, <1>4, <1>5, <1>8
  <2> DEFINE g == h + 10
  <2>2. g \in 0 .. 9 /\ g \in 0 .. 15 /\ l \in 0 .. 15 /\ l < 10 /\ g < 10 /\ h = g - 10
    BY <1>3, <1>5, <1>8
  <2> HIDE DEF g
  <2>3. full = 16 * g + l - 256
    BY <1>3, <2>1, <2>2
  <2>4. full % 256 = 16 * g + l /\ ~(full >= 0)
    BY <2>2, <2>3
  <2> QED BY <1>6, <2>2, <2>4, Digits
<1> QED BY <1>5, <1>7, <1>8

\* What AddOf and SubtractOf change: A, and four of the flags.
Kept(c, r) == /\ r.X = c.X /\ r.Y = c.Y /\ r.sp = c.sp /\ r.pc = c.pc /\ r.mem = c.mem
              /\ r.irq_line = c.irq_line /\ r.nmi_line = c.nmi_line
              /\ r.nmi_request = c.nmi_request /\ r.nmi_inhibit = c.nmi_inhibit
              /\ r.illegalOpcode = c.illegalOpcode /\ r.stopped = c.stopped
              /\ \A f \in {"D", "I"} : f \in r.status <=> f \in c.status

LEMMA ArithmeticParts ==
  ASSUME NEW c \in Machines, NEW on \in SUBSET {"N", "V", "Z", "C"}, NEW v,
         NEW r, r = [SetFlags(c, {"N", "V", "Z", "C"}, on) EXCEPT !.A = v]
  PROVE  r.A = v /\ Kept(c, r) /\ Carry(r) = IF "C" \in on THEN 1 ELSE 0
<1> DEFINE s == (c.status \ {"N", "V", "Z", "C"}) \cup on
<1>1. r = [c EXCEPT !.status = s, !.A = v]
  BY DEF SetFlags, Machines
<1>2. /\ "D" \in s <=> "D" \in c.status
      /\ "I" \in s <=> "I" \in c.status
      /\ "C" \in s <=> "C" \in on
  OBVIOUS
<1> HIDE DEF s
<1>3. r.status = s
  BY <1>1 DEF Machines
<1> QED BY <1>1, <1>2, <1>3 DEF Machines, Kept, Carry

LEMMA AddExact ==
  ASSUME NEW c \in Machines, NEW v \in Byte, NEW r, r = AddOf(c, v)
  PROVE  /\ Kept(c, r)
         /\ "D" \notin c.status => r.A + 256 * Carry(r) = c.A + v + Carry(c)
         /\ "D" \in c.status /\ IsDecimal(c.A) /\ IsDecimal(v) =>
              /\ IsDecimal(r.A)
              /\ Decimal(r.A) + 100 * Carry(r) = Decimal(c.A) + Decimal(v) + Carry(c)
<1> DEFINE sum == c.A + v + Carry(c)
           low == (c.A % 16) + (v % 16) + Carry(c)
           half == 16 * (c.A \div 16) + 16 * (v \div 16)
                     + IF low >= 10 THEN ((low + 6) % 16) + 16 ELSE low
           seen == IF "D" \in c.status THEN half ELSE sum
           full == IF "D" \in c.status /\ half >= 160 THEN half + 96 ELSE seen
           negative == High(seen)
           zero == sum % 256 = 0
           over == High(c.A) = High(v) /\ High(c.A) # High(seen)
           out == full > 255
           on == If("N", negative) \cup If("Z", zero) \cup If("V", over) \cup If("C", out)
<1>1. r = [SetFlags(c, {"N", "V", "Z", "C"}, on) EXCEPT !.A = full % 256]
  BY SMTT(40) DEF AddOf
<1>2. r.A = full % 256 /\ Kept(c, r) /\ Carry(r) = IF out THEN 1 ELSE 0
  <2> HIDE DEF full, negative, zero, over, out
  <2>1. on \in SUBSET {"N", "V", "Z", "C"} /\ ("C" \in on <=> out)
    BY DEF If
  <2> DEFINE a == full % 256
  <2> HIDE DEF on, a
  <2>2. r.A = a /\ Kept(c, r) /\ Carry(r) = IF "C" \in on THEN 1 ELSE 0
    <3>1. r = [SetFlags(c, {"N", "V", "Z", "C"}, on) EXCEPT !.A = a]
      BY <1>1 DEF a
    <3> QED BY <2>1, <3>1, ArithmeticParts
  <2> QED BY <2>1, <2>2 DEF a
<1>3. c.A \in Byte /\ Carry(c) \in {0, 1}
  BY Parts
<1>4. ASSUME "D" \notin c.status
      PROVE  r.A + 256 * Carry(r) = c.A + v + Carry(c)
  <2>1. full = sum
    <3> HIDE DEF sum, half
    <3> QED BY <1>4
  <2>2. sum \in 0 .. 511
    <3>1. PICK a \in 0 .. 255, b \in 0 .. 255, k \in {0, 1} : a = c.A /\ b = v /\ k = Carry(c)
      BY <1>3 DEF Byte
    <3>2. a + b + k \in 0 .. 511
      OBVIOUS
    <3>3. sum = a + b + k
      BY <3>1
    <3> HIDE DEF sum
    <3> QED BY <3>2, <3>3
  <2> HIDE DEF full, sum
  <2>3. (full % 256) + 256 * (IF out THEN 1 ELSE 0) = sum
    BY <2>1, <2>2
  <2> QED BY <1>2, <2>3 DEF sum
<1>5. ASSUME "D" \in c.status, IsDecimal(c.A), IsDecimal(v)
      PROVE  /\ IsDecimal(r.A)
             /\ Decimal(r.A) + 100 * Carry(r) = Decimal(c.A) + Decimal(v) + Carry(c)
  <2>1. full = IF half >= 160 THEN half + 96 ELSE half
    <3> HIDE DEF half
    <3> QED BY <1>5
  <2> HIDE DEF full, half, low
  <2>2. low = (c.A % 16) + (v % 16) + Carry(c)
    BY DEF low
  <2>3. half = 16 * (c.A \div 16) + 16 * (v \div 16)
                 + IF low >= 10 THEN ((low + 6) % 16) + 16 ELSE low
    BY DEF half
  <2>4. /\ IsDecimal(full % 256)
        /\ Decimal(full % 256) + 100 * (IF full > 255 THEN 1 ELSE 0)
             = Decimal(c.A) + Decimal(v) + Carry(c)
    BY <1>3, <1>5, <2>1, <2>2, <2>3, DecimalSum
  <2> QED BY <1>2, <2>4
<1> QED BY <1>2, <1>4, <1>5

LEMMA SubtractExact ==
  ASSUME NEW c \in Machines, NEW v \in Byte, NEW r, r = SubtractOf(c, v)
  PROVE  /\ Kept(c, r)
         /\ "D" \notin c.status => r.A = c.A - v - 1 + Carry(c) + 256 * (1 - Carry(r))
         /\ "D" \in c.status /\ IsDecimal(c.A) /\ IsDecimal(v) =>
              /\ IsDecimal(r.A)
              /\ Decimal(r.A) = Decimal(c.A) - Decimal(v) - 1 + Carry(c) + 100 * (1 - Carry(r))
<1> DEFINE diff == c.A - v - 1 + Carry(c)
           low == (c.A % 16) - (v % 16) - 1 + Carry(c)
           half == 16 * (c.A \div 16) - 16 * (v \div 16)
                     + IF low < 0 THEN ((low - 6) % 16) - 16 ELSE low
           seen == IF "D" \in c.status THEN half ELSE diff
           full == IF "D" \in c.status /\ half < 0 THEN half - 96 ELSE seen
           negative == High(seen)
           zero == diff % 256 = 0
           over == High(c.A) # High(v) /\ High(c.A) # High(seen)
           out == full >= 0
           on == If("N", negative) \cup If("Z", zero) \cup If("V", over) \cup If("C", out)
<1>1. r = [SetFlags(c, {"N", "V", "Z", "C"}, on) EXCEPT !.A = full % 256]
  BY SMTT(40) DEF SubtractOf
<1>2. r.A = full % 256 /\ Kept(c, r) /\ Carry(r) = IF out THEN 1 ELSE 0
  <2> HIDE DEF full, negative, zero, over, out
  <2>1. on \in SUBSET {"N", "V", "Z", "C"} /\ ("C" \in on <=> out)
    BY DEF If
  <2> DEFINE a == full % 256
  <2> HIDE DEF on, a
  <2>2. r.A = a /\ Kept(c, r) /\ Carry(r) = IF "C" \in on THEN 1 ELSE 0
    <3>1. r = [SetFlags(c, {"N", "V", "Z", "C"}, on) EXCEPT !.A = a]
      BY <1>1 DEF a
    <3> QED BY <2>1, <3>1, ArithmeticParts
  <2> QED BY <2>1, <2>2 DEF a
<1>3. c.A \in Byte /\ Carry(c) \in {0, 1}
  BY Parts
<1>4. ASSUME "D" \notin c.status
      PROVE  r.A = c.A - v - 1 + Carry(c) + 256 * (1 - Carry(r))
  <2>1. full = diff
    <3> HIDE DEF diff, half
    <3> QED BY <1>4
  <2>2. diff \in -256 .. 255
    <3>1. PICK a \in 0 .. 255, b \in 0 .. 255, k \in {0, 1} : a = c.A /\ b = v /\ k = Carry(c)
      BY <1>3 DEF Byte
    <3>2. a - b - 1 + k \in -256 .. 255
      OBVIOUS
    <3>3. diff = a - b - 1 + k
      BY <3>1
    <3> HIDE DEF diff
    <3> QED BY <3>2, <3>3
  <2> HIDE DEF full, diff
  <2>3. full % 256 = diff + 256 * (1 - IF out THEN 1 ELSE 0)
    BY <2>1, <2>2
  <2> QED BY <1>2, <2>3 DEF diff
<1>5. ASSUME "D" \in c.status, IsDecimal(c.A), IsDecimal(v)
      PROVE  /\ IsDecimal(r.A)
             /\ Decimal(r.A) = Decimal(c.A) - Decimal(v) - 1 + Carry(c) + 100 * (1 - Carry(r))
  <2>1. full = IF half < 0 THEN half - 96 ELSE half
    <3> HIDE DEF half
    <3> QED BY <1>5
  <2> HIDE DEF full, half, low
  <2>2. low = (c.A % 16) - (v % 16) - 1 + Carry(c)
    BY DEF low
  <2>3. half = 16 * (c.A \div 16) - 16 * (v \div 16)
                 + IF low < 0 THEN ((low - 6) % 16) - 16 ELSE low
    BY DEF half
  <2>4. /\ IsDecimal(full % 256)
        /\ Decimal(full % 256)
             = Decimal(c.A) - Decimal(v) - 1 + Carry(c)
                 + 100 * (1 - IF full >= 0 THEN 1 ELSE 0)
    BY <1>3, <1>5, <2>1, <2>2, <2>3, DecimalDifference
  <2> QED BY <1>2, <2>4
<1> QED BY <1>2, <1>4, <1>5

-----------------------------------------------------------------------------
\* What a step of the simulator does around its instruction

Same(c, r) == /\ r.A = c.A /\ r.X = c.X /\ r.Y = c.Y /\ r.status = c.status
              /\ r.irq_line = c.irq_line /\ r.nmi_line = c.nmi_line
              /\ r.nmi_request = c.nmi_request /\ r.nmi_inhibit = c.nmi_inhibit
              /\ r.illegalOpcode = c.illegalOpcode

LEMMA WriteKeeps ==
  ASSUME NEW c \in Machines, NEW a \in Addresses, NEW v \in Byte
  PROVE  /\ Same(c, Write(c, a, v)) /\ Same(c, Poke(c, a, v)) /\ Same(c, StackPush(c, v))
         /\ Write(c, a, v).pc = c.pc /\ Poke(c, a, v).pc = c.pc
<1>1. \A b \in Addresses : Same(c, Poke(c, b, v)) /\ Poke(c, b, v).pc = c.pc
  <2> TAKE b \in Addresses
  <2> DEFINE new == Poke(c, b, v).mem
  <2>1. Poke(c, b, v) = [c EXCEPT !.mem = new]
    BY Poked
  <2> HIDE DEF new
  <2> QED BY <2>1 DEF Same, Machines
<1>2. \A b \in Addresses : Same(c, Write(c, b, v)) /\ Write(c, b, v).pc = c.pc
  <2>1. Same(c, [c EXCEPT !.stopped = TRUE]) /\ [c EXCEPT !.stopped = TRUE].pc = c.pc
    BY DEF Same, Machines
  <2> QED BY <1>1, <2>1 DEF Write
<1>3. 256 + c.sp \in Addresses
  BY Parts, StackAddress
<1>4. Same(c, StackPush(c, v))
  <2> DEFINE w == Write(c, 256 + c.sp, v)
             below == IF c.sp = 0 THEN 255 ELSE c.sp - 1
  <2>1. w \in Machines /\ Same(c, w)
    BY <1>2, <1>3, Written
  <2>2. StackPush(c, v) = [w EXCEPT !.sp = below]
    BY DEF StackPush
  <2> HIDE DEF w, below
  <2> QED BY <2>1, <2>2 DEF Same, Machines
<1> QED BY <1>1, <1>2, <1>4

\* A machine that the check for interrupts leaves alone has none to take: a service
\* would have taken the request, or raised I.
LEMMA NothingTaken ==
  ASSUME NEW c \in Machines, CheckInterrupts(c) = c
  PROVE  ~TakesNmi(c) /\ ~TakesIrq(c)
<1>1. ASSUME NEW d \in Machines, NEW vector
      PROVE  /\ "I" \in Service(d, vector).status
             /\ Service(d, vector).nmi_request = d.nmi_request
  <2> DEFINE w == d.pc
             first == StackPush(d, w \div 256)
             second == StackPush(first, w % 256)
             third == StackPush(second, StatusByte(d.status) + 32)
             to == Word(third, vector, vector + 1)
  <2>1. w \div 256 \in Byte /\ w % 256 \in Byte
    BY Parts, AddressBytes
  <2>2. first \in Machines /\ Same(d, first)
    BY <2>1, PushTyped, WriteKeeps, Numbers, ZenonT(60)
  <2> HIDE DEF first
  <2>3. second \in Machines /\ Same(first, second)
    BY <2>1, <2>2, PushTyped, WriteKeeps, Numbers, ZenonT(60)
  <2> HIDE DEF second
  <2>4. third \in Machines /\ Same(second, third)
    BY <2>3, StatusBytes, PushTyped, WriteKeeps, Numbers
  <2>5. Service(d, vector) = [third EXCEPT !.status = @ \cup {"I"}, !.pc = to]
    BY DEF Service, PushWord, first, second
  <2> HIDE DEF third, to
  <2> QED BY <2>2, <2>3, <2>4, <2>5 DEF Same, Machines
<1>2. ~TakesNmi(c)
  <2> SUFFICES ASSUME TakesNmi(c)
               PROVE  FALSE
    OBVIOUS
  <2> DEFINE d == [c EXCEPT !.nmi_request = FALSE, !.nmi_inhibit = TRUE]
  <2>1. d \in Machines /\ d.nmi_request = FALSE
    BY DEF Machines
  <2>2. CheckInterrupts(c) = Service(d, nmiVectorL)
    BY DEF CheckInterrupts
  <2> HIDE DEF d
  <2>3. c.nmi_request = FALSE
    BY <1>1, <2>1, <2>2
  <2> QED BY <2>3 DEF TakesNmi
<1>3. ~TakesIrq(c)
  <2> SUFFICES ASSUME TakesIrq(c)
               PROVE  FALSE
    OBVIOUS
  <2>1. CheckInterrupts(c) = Service(c, irqVectorL)
    BY <1>2 DEF CheckInterrupts
  <2> QED BY <1>1, <2>1 DEF TakesIrq
<1> QED BY <1>2, <1>3

\* The byte main() plants at $FFFF is an RTS.
LEMMA PlantedReturn == InstrTable[96].code = "RTS"
<1>1. \A r \in InstrAdcToAsl \cup InstrBccToBvs \cup InstrClcToCpy : r[1] # 96
  <2>1. \A r \in InstrAdcToAsl : r[1] # 96
    BY DEF InstrAdcToAsl, Regular, Memory
  <2>2. \A r \in InstrBccToBvs : r[1] # 96
    BY DEF InstrBccToBvs, Relative, Implied
  <2>3. \A r \in InstrClcToCpy : r[1] # 96
    BY DEF InstrClcToCpy, Regular, Implied
  <2> QED BY <2>1, <2>2, <2>3
<1>2. \A r \in InstrDecToJsr \cup InstrLdaToLsr \cup InstrNopToPlp : r[1] # 96
  <2>1. \A r \in InstrDecToJsr : r[1] # 96
    BY DEF InstrDecToJsr, Regular, Memory, Implied
  <2>2. \A r \in InstrLdaToLsr : r[1] # 96
    BY DEF InstrLdaToLsr, Regular, Memory
  <2>3. \A r \in InstrNopToPlp : r[1] # 96
    BY DEF InstrNopToPlp, Regular, Implied
  <2> QED BY <2>1, <2>2, <2>3
<1>3. \A r \in InstrRolToSbc : r[1] = 96 => r[2] = "RTS"
  BY DEF InstrRolToSbc, Memory, Implied, Regular
<1>4. \A r \in InstrSecToSty \cup InstrTaxToTya \cup InstrAlrToIsc : r[1] # 96
  <2>1. \A r \in InstrSecToSty : r[1] # 96
    BY DEF InstrSecToSty, Combined, Regular, Implied
  <2>2. \A r \in InstrTaxToTya : r[1] # 96
    BY DEF InstrTaxToTya, Implied
  <2>3. \A r \in InstrAlrToIsc : r[1] # 96
    BY DEF InstrAlrToIsc, Combined, Regular
  <2> QED BY <2>1, <2>2, <2>3
<1>5. \A r \in InstrLasToSha \cup InstrShxToUsbc \cup InstrNops \cup InstrJams : r[1] # 96
  <2>1. \A r \in InstrLasToSha : r[1] # 96
    BY DEF InstrLasToSha, Combined, Regular
  <2>2. \A r \in InstrShxToUsbc : r[1] # 96
    BY DEF InstrShxToUsbc, Combined, Regular
  <2>3. \A r \in InstrNops \cup InstrJams : r[1] # 96
    BY DEF InstrNops, InstrJams
  <2> QED BY <2>1, <2>2, <2>3
<1>6. \A i \in 1 .. 14 : \A r \in Codes[i] : r[1] = 96 => r[2] = "RTS"
  BY <1>1, <1>2, <1>3, <1>4, <1>5 DEF Codes
<1> DEFINE row == CHOOSE q \in Rows : q[1] = 96
<1>7. \E q \in Rows : q[1] = 96
  <2>1. 96 \in Byte
    BY Numbers
  <2>2. PICK i \in DOMAIN Codes : 96 \in Firsts(Codes[i])
    BY <2>1, RowsOfGroups
  <2> QED BY <2>2, RowsOfGroups DEF Firsts
<1>8. row \in Rows /\ row[1] = 96
  BY <1>7
<1>9. DOMAIN Codes = 1 .. 14
  BY DEF Codes
<1>10. row[2] = "RTS"
  <2> HIDE DEF row
  <2>1. PICK i \in DOMAIN Codes : row \in Codes[i]
    BY <1>8 DEF Rows
  <2> QED BY <1>6, <1>8, <1>9, <2>1
<1>11. InstrTable[96] = [code |-> row[2], mode |-> row[3]]
  BY Numbers DEF InstrTable
<1> HIDE DEF row
<1> QED BY <1>10, <1>11

\* The RTS that answers a host call restores the pc, and changes neither A nor a flag.
LEMMA AnswerKeeps ==
  ASSUME NEW c \in Machines, ~TakesNmi(c), ~TakesIrq(c), ~c.illegalOpcode, c.pc = Host
  PROVE  Answered(c).A = c.A /\ Answered(c).status = c.status
<1> DEFINE q == Poke(c, Host, 96)
           instr == InstrTable[Read(q, q.pc)]
           behind == [q EXCEPT !.pc = (@ + 1) % Space]
           past == [behind EXCEPT !.pc = (@ + Length(instr.mode)) % Space]
           next == (Top(past, 1) + 256 * Top(past, 2) + 1) % Space
           src == Address(behind, instr.mode)
<1>1. q \in Machines /\ Same(c, q) /\ q.pc = Host
  <2>1. Host \in Addresses /\ 96 \in Byte
    BY Numbers
  <2>2. Same(c, q) /\ q.pc = c.pc
    BY <2>1, WriteKeeps
  <2> QED BY <2>1, <2>2, Poked
<1>2. Read(q, Host) = 96
  <2> DEFINE new == [b \in DOMAIN c.mem \cup {Host} |-> IF b = Host THEN 96 ELSE c.mem[b]]
  <2>1. q = [c EXCEPT !.mem = new]
    BY DEF Poke
  <2>2. new[Host] = 96 /\ Host \in DOMAIN new
    OBVIOUS
  <2> HIDE DEF new, q
  <2>3. q.mem = new
    BY <2>1 DEF Machines
  <2> QED BY <2>2, <2>3 DEF Read
<1>3. instr.code = "RTS"
  <2> HIDE DEF q
  <2> QED BY <1>1, <1>2, PlantedReturn
<1> HIDE DEF q
<1>4. ~TakesNmi(q) /\ ~TakesIrq(q) /\ ~q.illegalOpcode
  BY <1>1 DEF Same, TakesNmi, TakesIrq
<1>5. RunOne(q) = Op(past, instr.code, instr.mode, src)
  BY <1>4 DEF RunOne, CheckInterrupts, Execute
<1>6. past \in Machines /\ past.A = q.A /\ past.status = q.status
  <2> HIDE DEF instr
  <2>1. (q.pc + 1) % Space \in Addresses
    BY <1>1, PcMoves
  <2>2. behind \in Machines /\ behind.A = q.A /\ behind.status = q.status
    BY <1>1, <2>1, SetPc DEF Machines
  <2> HIDE DEF behind
  <2>3. Length(instr.mode) \in Int
    BY DEF Length
  <2>4. (behind.pc + Length(instr.mode)) % Space \in Addresses
    BY <2>2, <2>3, PcMoves
  <2> QED BY <2>2, <2>4, SetPc DEF Machines
<1> HIDE DEF instr, past, src
<1>7. RunOne(q) = [Popped(past, 2) EXCEPT !.pc = next]
  <2>1. Op(past, instr.code, instr.mode, src) = OpRolToSbc(past, "RTS", instr.mode, src)
    BY <1>3, Branches DEF Op
  <2> QED BY <1>5, <2>1 DEF OpRolToSbc
<1> HIDE DEF next
<1>8. RunOne(q).A = c.A /\ RunOne(q).status = c.status
  <2>1. Popped(past, 2).A = past.A /\ Popped(past, 2).status = past.status
        /\ Popped(past, 2) \in Machines
    <3>1. Popped(past, 2) \in Machines
      BY <1>6, PopTyped
    <3> QED BY <1>6, <3>1 DEF Popped, Machines
  <2> QED BY <1>1, <1>6, <1>7, <2>1 DEF Same, Machines
<1>9. RunOne(q) \in Machines /\ Read(c, Host) \in Byte
  BY <1>1, RunTyped, Parts, ReadByte
<1>10. Answered(c) = Poke(RunOne(q), Host, Read(c, Host))
  BY DEF Answered, q
<1>11. Same(RunOne(q), Answered(c))
  <2> DEFINE r == RunOne(q)
             v == Read(c, Host)
  <2>1. Host \in Addresses
    BY Numbers
  <2>2. r \in Machines /\ v \in Byte /\ Answered(c) = Poke(r, Host, v)
    BY <1>9, <1>10
  <2> HIDE DEF r, v
  <2>3. Same(r, Answered(c))
    BY <2>1, <2>2, WriteKeeps
  <2> QED BY <2>3 DEF r
<1> QED BY <1>8, <1>11 DEF Same

\* What the loop of main() does behind an instruction that takes no interrupt.
LEMMA LoopKeeps ==
  ASSUME NEW c \in Machines, ~TakesNmi(c), ~TakesIrq(c), ~c.illegalOpcode, NEW before
  PROVE  /\ Device(before, Looped(c)).A = c.A
         /\ Device(before, Looped(c)).status = c.status
<1>1. Looped(c) \in Machines /\ Looped(c).A = c.A /\ Looped(c).status = c.status
  BY LoopTyped, AnswerKeeps DEF Looped, HostCall
<1>2. SetIrq(Looped(c), TRUE).A = c.A /\ SetIrq(Looped(c), TRUE).status = c.status
  BY <1>1 DEF SetIrq, Machines
<1> QED BY <1>1, <1>2 DEF Device

\* The instruction that Execute carries out, and what it works on.
InstrModes == {InstrTable[b].mode : b \in Byte}

LEMMA Decoded ==
  ASSUME NEW c \in Machines, NEW code, code = InstrTable[Read(c, c.pc)].code
  PROVE  \E past \in Machines, src \in Addresses, mode \in InstrModes :
            /\ Execute(c) = Op(past, code, mode, src)
            /\ Same(c, past) /\ Read(past, src) = Operand(c)
<1> DEFINE instr  == InstrTable[Read(c, c.pc)]
           behind == [c EXCEPT !.pc = (@ + 1) % Space]
           past   == [behind EXCEPT !.pc = (@ + Length(instr.mode)) % Space]
           src == Address(behind, instr.mode)
<1>1. (c.pc + 1) % Space \in Addresses
  BY PcMoves
<1>2. behind \in Machines /\ Same(c, behind) /\ behind.mem = c.mem
  BY <1>1, SetPc DEF Machines, Same
<1>3. Operand(c) = Read(c, src)
  BY DEF Operand
<1>4. Execute(c) = Op(past, code, instr.mode, src)
  BY DEF Execute
<1> HIDE DEF behind
<1>5. src \in Addresses
  BY <1>2, AddressTyped
<1> HIDE DEF instr
<1>6. Length(instr.mode) \in Int
  BY DEF Length
<1>7. (behind.pc + Length(instr.mode)) % Space \in Addresses
  BY <1>2, <1>6, PcMoves
<1>8. past \in Machines /\ Same(behind, past) /\ past.mem = behind.mem
  BY <1>2, <1>7, SetPc DEF Machines, Same
<1> HIDE DEF past, src
<1>9. Same(c, past) /\ Read(past, src) = Operand(c)
  BY <1>2, <1>3, <1>8 DEF Same, Read
<1>10. instr.mode \in InstrModes
  <2>1. Read(c, c.pc) \in Byte
    BY ReadByte DEF Machines
  <2> QED BY <2>1 DEF instr, InstrModes
<1> QED BY <1>4, <1>5, <1>8, <1>9, <1>10

\* Typed, and the counts of the lines are numbers.
Counted == Typed /\ irqs \in Nat /\ nmis \in Nat

LEMMA CountedAlways == Spec => []Counted
<1>1. Init => Counted
  <2> SUFFICES ASSUME Init
               PROVE  Counted
    OBVIOUS
  <2>1. PICK s \in Scenarios : chosen = [f \in DOMAIN s \ {"file"} |-> s[f]]
    BY DEF Init
  <2>2. WellFormed(s)
    BY ScenariosAssumption
  <2>3. irqs = s.irqs /\ nmis = s.nmis
    BY <2>1, <2>2 DEF Init, WellFormed
  <2> QED BY <2>2, <2>3, TypedInit DEF Counted, WellFormed
<1>2. Counted /\ [Next]_vars => Counted'
  <2> SUFFICES ASSUME Counted, [Next]_vars
               PROVE  Counted'
    OBVIOUS
  <2>1. Typed'
    BY TypedNext DEF Counted
  <2>2. irqs' \in Nat /\ nmis' \in Nat
    <3>1. \/ irqs' = irqs
          \/ irqs > 0 /\ irqs' = irqs - 1
      BY DEF Next, LoadRecord, Start, Step, Irq, NmiFall, NmiRise, vars
    <3>2. \/ nmis' = nmis
          \/ nmis > 0 /\ nmis' = nmis - 1
      BY DEF Next, LoadRecord, Start, Step, Irq, NmiFall, NmiRise, vars
    <3> QED BY <3>1, <3>2 DEF Counted
  <2> QED BY <2>1, <2>2 DEF Counted
<1> QED BY <1>1, <1>2, PTL DEF Spec

\* A machine with the decimal mode and the pending interrupts of another.
Like(c, w) == /\ "D" \in w.status <=> "D" \in c.status
              /\ "I" \in w.status <=> "I" \in c.status
              /\ w.irq_line = c.irq_line /\ w.illegalOpcode = c.illegalOpcode
              /\ w.nmi_request = c.nmi_request /\ w.nmi_inhibit = c.nmi_inhibit

LEMMA RotatedThenAdded ==
  ASSUME NEW c \in Machines, NEW src \in Addresses, NEW v, v = Read(c, src)
  PROVE  \E w \in Machines :
            /\ Like(c, w) /\ w.A = c.A /\ Carry(w) = v % 2
            /\ v \div 2 + 128 * Carry(c) \in Byte
            /\ OpLaxToTas(c, "RRA", src) = AddOf(w, v \div 2 + 128 * Carry(c))
<1> DEFINE s == Shifted(c, "ROR", v)
           out == v % 2 = 1
           f == SetFlags(c, {"C"}, If("C", out))
           byte == v \div 2 + 128 * Carry(c)
           w == Write(f, src, byte)
<1>1. v \in Byte
  BY Parts, ReadByte
<1>2. s = [byte |-> byte, out |-> out]
  BY DEF Shifted
<1>3. byte \in Byte
  <2>1. s.byte \in Byte
    BY <1>1, ShiftedTyped
  <2> HIDE DEF byte, out, s
  <2> QED BY <1>2, <2>1
<1>4. f \in Machines /\ Like(c, f) /\ f.A = c.A /\ Carry(f) = v % 2
  <2> DEFINE on == If("C", out)
             new == (c.status \ {"C"}) \cup on
  <2>1. on \in SUBSET Flags /\ on \subseteq {"C"} /\ ("C" \in on <=> out)
    <3> HIDE DEF out
    <3> QED BY DEF If, Flags
  <2> HIDE DEF on
  <2>2. f = [c EXCEPT !.status = new] /\ f \in Machines
    BY <2>1, FlagsTyped DEF SetFlags, on
  <2>3. /\ "D" \in new <=> "D" \in c.status
        /\ "I" \in new <=> "I" \in c.status
        /\ "C" \in new <=> out
    BY <2>1
  <2> HIDE DEF new, f
  <2>4. Like(c, f) /\ f.A = c.A /\ ("C" \in f.status <=> out)
    BY <2>2, <2>3 DEF Like, Machines
  <2>5. v % 2 \in {0, 1}
    BY <1>1, Numbers
  <2> QED BY <2>2, <2>4, <2>5 DEF Carry
<1> HIDE DEF byte, f
<1>5. w \in Machines /\ Like(c, w) /\ w.A = c.A /\ Carry(w) = v % 2
  <2>1. w \in Machines /\ Same(f, w)
    BY <1>3, <1>4, Written, WriteKeeps
  <2> QED BY <1>4, <2>1 DEF Same, Like, Carry
<1>6. OpLaxToTas(c, "RRA", src) = AddOf(w, byte)
  <2>1. OpLaxToTas(c, "RRA", src) = ShiftThen(c, "RRA", src)
    BY DEF OpLaxToTas
  <2>2. ShiftThen(c, "RRA", src)
          = AddOf(Write(SetFlags(c, {"C"}, If("C", s.out)), src, s.byte), s.byte)
    BY DEF ShiftThen
  <2> HIDE DEF s
  <2>3. s.byte = byte /\ s.out = out
    BY <1>2
  <2> QED BY <2>1, <2>2, <2>3 DEF f
<1> QED BY <1>3, <1>5, <1>6 DEF byte

\* The step of ArithmeticExact.
Exact ==
  /\ Executed = "ADC" => SumRight(m.A, Operand(m), Carry(m), m')
  /\ Executed = "SBC" => DifferenceRight(m.A, Operand(m), Carry(m), m')
  /\ Executed = "ISC" => DifferenceRight(m.A, (Operand(m) + 1) % 256, Carry(m), m')
  /\ Executed = "RRA" => SumRight(m.A, Operand(m) \div 2 + 128 * Carry(m),
                                  Operand(m) % 2, m')

LEMMA StepExact ==
  ASSUME Counted, Next, Stepped, Serviced = m
  PROVE  Exact
<1>1. Step /\ m \in Machines
  <2>1. ~LoadRecord /\ ~Start
    BY DEF Stepped, LoadRecord, Start
  <2>2. m \in Machines
    BY DEF Stepped, Counted, Typed
  <2>3. ~Irq /\ ~NmiFall
    <3>1. \A n \in Nat : n - 1 # n
      OBVIOUS
    <3>2. irqs' # irqs - 1 /\ nmis' # nmis - 1
      BY <3>1 DEF Stepped, Counted
    <3> QED BY <3>2 DEF Irq, NmiFall
  <2>4. ~NmiRise
    <3>1. SetNmi(m, TRUE).nmi_line = TRUE
      BY <2>2 DEF SetNmi, Machines
    <3> QED BY <2>2, <3>1 DEF Stepped, NmiRise
  <2> QED BY <2>1, <2>2, <2>3, <2>4 DEF Next
<1>2. ~TakesNmi(m) /\ ~TakesIrq(m) /\ ~m.illegalOpcode
  BY <1>1, NothingTaken DEF Serviced, Stepped
<1> DEFINE ran == RunOne(m)
<1>3. ran = Execute(m) /\ ran \in Machines
  BY <1>1, <1>2, RunTyped DEF RunOne, CheckInterrupts
<1>4. ASSUME Executed \in {"ADC", "SBC", "ISC", "RRA"}
      PROVE  \E past \in Machines, src \in Addresses, mode \in InstrModes :
                /\ ran = Op(past, Executed, mode, src)
                /\ Same(m, past) /\ Read(past, src) = Operand(m)
  <2> DEFINE code == Executed
  <2>1. code = InstrTable[Read(m, m.pc)].code
    BY DEF Executed
  <2> HIDE DEF code
  <2>2. \E past \in Machines, src \in Addresses, mode \in InstrModes :
            /\ Execute(m) = Op(past, code, mode, src)
            /\ Same(m, past) /\ Read(past, src) = Operand(m)
    BY <1>1, <2>1, Decoded
  <2> QED BY <1>3, <2>2 DEF code
\* no interrupt is taken behind the instruction either
<1>5. ASSUME Like(m, ran)
      PROVE  m'.A = ran.A /\ m'.status = ran.status
  <2>1. m' = ran \/ m' = Device(m, Looped(ran))
    BY <1>1 DEF Step
  <2> HIDE DEF ran
  <2>2. ~TakesNmi(ran) /\ ~TakesIrq(ran) /\ ~ran.illegalOpcode
    BY <1>2, <1>5 DEF Like, TakesNmi, TakesIrq
  <2> QED BY <1>3, <2>1, <2>2, LoopKeeps
<1> HIDE DEF ran
<1>6. ASSUME NEW w \in Machines, Like(m, w), w.A = m.A, NEW v \in Byte,
             ran = AddOf(w, v)
      PROVE  SumRight(m.A, v, Carry(w), m')
  <2>1. /\ Kept(w, ran)
        /\ "D" \notin w.status => ran.A + 256 * Carry(ran) = w.A + v + Carry(w)
        /\ "D" \in w.status /\ IsDecimal(w.A) /\ IsDecimal(v) =>
             /\ IsDecimal(ran.A)
             /\ Decimal(ran.A) + 100 * Carry(ran) = Decimal(w.A) + Decimal(v) + Carry(w)
    BY <1>6, AddExact
  <2>2. Like(m, ran)
    BY <1>6, <2>1 DEF Kept, Like
  <2>3. m'.A = ran.A /\ Carry(m') = Carry(ran)
    BY <1>5, <2>2 DEF Carry
  <2> QED BY <1>6, <2>1, <2>3 DEF Like, SumRight
<1>7. ASSUME NEW w \in Machines, Like(m, w), w.A = m.A, NEW v \in Byte,
             ran = SubtractOf(w, v)
      PROVE  DifferenceRight(m.A, v, Carry(w), m')
  <2>1. /\ Kept(w, ran)
        /\ "D" \notin w.status => ran.A = w.A - v - 1 + Carry(w) + 256 * (1 - Carry(ran))
        /\ "D" \in w.status /\ IsDecimal(w.A) /\ IsDecimal(v) =>
             /\ IsDecimal(ran.A)
             /\ Decimal(ran.A)
                   = Decimal(w.A) - Decimal(v) - 1 + Carry(w) + 100 * (1 - Carry(ran))
    BY <1>7, SubtractExact
  <2>2. Like(m, ran)
    BY <1>7, <2>1 DEF Kept, Like
  <2>3. m'.A = ran.A /\ Carry(m') = Carry(ran)
    BY <1>5, <2>2 DEF Carry
  <2> QED BY <1>7, <2>1, <2>3 DEF Like, DifferenceRight
<1>8. \A c, d : Same(c, d) => Like(c, d) /\ d.A = c.A /\ Carry(d) = Carry(c)
  BY DEF Same, Like, Carry
<1>9. Operand(m) \in Byte
  BY <1>1, Parts, ReadByte DEF Operand
<1>10. CASE Executed = "ADC"
  <2>1. PICK past \in Machines, src \in Addresses, mode \in InstrModes :
               ran = Op(past, "ADC", mode, src) /\ Same(m, past) /\ Read(past, src) = Operand(m)
    BY <1>4, <1>10
  <2>2. ran = AddOf(past, Operand(m))
    BY <2>1, Branches DEF Op, OpAdcToAsl
  <2> QED BY <1>6, <1>8, <1>9, <1>10, <2>1, <2>2 DEF Exact
<1>11. CASE Executed = "SBC"
  <2>1. PICK past \in Machines, src \in Addresses, mode \in InstrModes :
               ran = Op(past, "SBC", mode, src) /\ Same(m, past) /\ Read(past, src) = Operand(m)
    BY <1>4, <1>11
  <2>2. ran = SubtractOf(past, Operand(m))
    <3>1. Op(past, "SBC", mode, src) = OpRolToSbc(past, "SBC", mode, src)
      BY Branches DEF Op
    <3> QED BY <2>1, <3>1 DEF OpRolToSbc
  <2> QED BY <1>7, <1>8, <1>9, <1>11, <2>1, <2>2 DEF Exact
<1>12. CASE Executed = "ISC"
  <2>1. PICK past \in Machines, src \in Addresses, mode \in InstrModes :
               ran = Op(past, "ISC", mode, src) /\ Same(m, past) /\ Read(past, src) = Operand(m)
    BY <1>4, <1>12
  <2> DEFINE up == (Operand(m) + 1) % 256
             w == Write(past, src, up)
  <2>2. ran = SubtractOf(w, up)
    <3>1. Op(past, "ISC", mode, src) = OpAlrToLas(past, "ISC", src)
      BY Branches DEF Op
    <3> QED BY <2>1, <3>1 DEF OpAlrToLas
  <2>3. up \in Byte
    BY <1>1, OperandParts DEF Operand
  <2> HIDE DEF up
  <2>4. w \in Machines /\ Same(past, w)
    BY <2>3, Written, WriteKeeps
  <2>5. Like(m, w) /\ w.A = m.A /\ Carry(w) = Carry(m)
    BY <2>1, <2>4 DEF Same, Like, Carry
  <2> HIDE DEF w
  <2>6. DifferenceRight(m.A, up, Carry(m), m')
    BY <1>7, <2>2, <2>3, <2>4, <2>5
  <2> QED BY <1>12, <2>6 DEF Exact, up
<1>13. CASE Executed = "RRA"
  <2>1. PICK past \in Machines, src \in Addresses, mode \in InstrModes :
               ran = Op(past, "RRA", mode, src) /\ Same(m, past) /\ Read(past, src) = Operand(m)
    BY <1>4, <1>13
  <2> DEFINE v == Operand(m) \div 2 + 128 * Carry(m)
  <2>2. ran = OpLaxToTas(past, "RRA", src)
    BY <2>1, Branches DEF Op
  <2>3. Carry(past) = Carry(m) /\ Like(m, past) /\ past.A = m.A
    BY <1>8, <2>1
  <2>4. PICK w \in Machines :
            /\ Like(past, w) /\ w.A = past.A /\ Carry(w) = Operand(m) % 2 /\ v \in Byte
            /\ OpLaxToTas(past, "RRA", src) = AddOf(w, v)
    BY <2>1, <2>3, RotatedThenAdded
  <2>5. Like(m, w) /\ w.A = m.A
    BY <2>3, <2>4 DEF Like
  <2> HIDE DEF v
  <2>6. SumRight(m.A, v, Operand(m) % 2, m')
    BY <1>6, <2>2, <2>4, <2>5
  <2> QED BY <1>13, <2>6 DEF Exact, v
<1> QED BY <1>10, <1>11, <1>12, <1>13 DEF Exact

\* In every program, and wherever the lines are driven: ADC, SBC, ISC and RRA leave in A
\* and the carry exactly the sum or the difference, in binary, and in decimal mode on
\* decimal operands (Op_ADC, Op_SBC, Op_ISC, Op_RRA).
THEOREM ArithmeticIsExact == Spec => ArithmeticExact
<1>1. Counted /\ [Next]_vars => [Stepped /\ Serviced = m => Exact]_m
  <2> SUFFICES ASSUME Counted, Next, Stepped, Serviced = m
               PROVE  Exact
    BY DEF vars
  <2> QED BY StepExact
<1> QED BY <1>1, CountedAlways, PTL DEF Spec, ArithmeticExact, Exact
=============================================================================
