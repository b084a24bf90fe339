------------------------------- MODULE Machine -------------------------------
(***************************************************************************)
(* The machine the compiled code runs on: a software stack of bytes in     *)
(* memory with its frame and stack pointers, the pointer register ptr0,    *)
(* the result byte arg1 of the comparisons, and the hardware stack of the  *)
(* 6502.  An instruction stands for the group of 6502 instructions, and    *)
(* the call of the runtime library, that the compiler emits together.      *)
(***************************************************************************)
EXTENDS Integers, Sequences

CONSTANTS
  StackBase,  \* where the software stack starts; the data lie below it
  Top         \* the last byte of memory

VARIABLES code, pc, fp, sp, mem, ptr0, arg1, hw
machine == <<pc, fp, sp, mem, ptr0, arg1, hw>>

ByteAt(v, i) == (v \div 256^i) % 256
\* Beyond its end memory cannot be written and reads as zeros.
ByteIn(m, a) == IF a \in DOMAIN m THEN m[a] ELSE 0
RECURSIVE ValueIn(_, _, _)
ValueIn(m, a, n) == IF n = 0 THEN 0 ELSE ByteIn(m, a) + 256 * ValueIn(m, a + 1, n - 1)
AsSigned(v, n) == IF v >= 256^n \div 2 THEN v - 256^n ELSE v
Read(a, n, signed) ==
  LET v == ValueIn(mem, a, n) IN IF signed THEN AsSigned(v, n) ELSE v
Written(m, a, n, v) ==
  [i \in DOMAIN m |-> IF i \in a .. a + n - 1 THEN ByteAt(v, i - a) ELSE m[i]]

Place(mode, off) ==
  CASE mode = "fp" -> fp + off
    [] mode = "abs" -> off
    [] mode = "ptr" -> ptr0 + off

I == code[pc]
Running == pc \in DOMAIN code
Halted == Running /\ I.op = "halt"
At(op) == Running /\ I.op = op
Next1 == pc' = pc + 1

\* Quotient and remainder of the runtime library's division: towards zero.
Magnitude(v) == IF v < 0 THEN - v ELSE v
Quotient(a, b) ==
  LET q == Magnitude(a) \div Magnitude(b)
  IN  IF (a < 0) # (b < 0) THEN - q ELSE q
RECURSIVE Bits(_, _, _, _)
Bits(f, a, b, n) ==
  IF n = 0 THEN 0
  ELSE LET x == a % 2
           y == b % 2
           bit == CASE f = "&" -> x * y [] f = "|" -> x + y - x * y
                    [] f = "^" -> (x + y) % 2
       IN  bit + 2 * Bits(f, a \div 2, b \div 2, n - 1)
Outcome(f, a, b, n) ==
  CASE f = "+" -> a + b
    [] f = "-" -> a - b
    [] f = "*" -> a * b
    [] f = "/" -> Quotient(a, b)
    [] f = "%" -> a - Quotient(a, b) * b
    [] f = "<<" -> a * 2^b
    [] f = ">>" -> a \div 2^b
    [] f \in {"&", "|", "^"} -> Bits(f, a, b, 8 * n)
Holds(f, a, b) ==
  CASE f = "eq" -> a = b [] f = "lt" -> a < b [] f = "le" -> a <= b

(***************************************************************************)
(* The frame: pushN and popN move the stack pointer, a function starts by  *)
(* taking it as its frame pointer.                                         *)
(***************************************************************************)
Adjust ==
  /\ \/ At("push") /\ sp' = sp + I.n /\ fp' = fp
     \/ At("pop") /\ sp' = sp - I.n /\ fp' = fp
     \/ At("enter") /\ fp' = sp /\ sp' = sp
  /\ Next1
  /\ UNCHANGED <<mem, ptr0, arg1, hw, code>>

\* A copy of I.sn bytes into I.dn, extended by zeros or by the sign.
Copy ==
  /\ At("copy")
  /\ mem' = Written(mem, Place(I.dm, I.d), I.dn,
                    Read(Place(I.sm, I.s), I.sn, I.signed))
  /\ Next1
  /\ UNCHANGED <<fp, sp, ptr0, arg1, hw, code>>

Constant ==
  /\ At("imm")
  /\ mem' = Written(mem, fp + I.d, I.n, I.v)
  /\ Next1
  /\ UNCHANGED <<fp, sp, ptr0, arg1, hw, code>>

\* Arithmetic between slots of the frame; a product and a quotient with its
\* remainder are written twice as wide as their operands.
Arithmetic ==
  /\ At("arith")
  /\ LET a == Read(fp + I.a, I.n, I.signed)
         b == Read(fp + I.b, I.bn, I.signed /\ I.f \notin {"<<", ">>"})
     IN  mem' = IF I.f = "divmod"
                THEN Written(Written(mem, fp + I.to, I.n, Outcome("/", a, b, I.n)),
                             fp + I.to + I.n, I.n, Outcome("%", a, b, I.n))
                ELSE Written(mem, fp + I.to,
                             IF I.f = "*" THEN 2 * I.n ELSE I.n,
                             Outcome(I.f, a, b, I.n))
  /\ Next1
  /\ UNCHANGED <<fp, sp, ptr0, arg1, hw, code>>

\* A step of a constant, a complement or a negation in place.
InPlace ==
  /\ \/ /\ At("bump")
        /\ mem' = Written(mem, fp + I.d, I.n, Read(fp + I.d, I.n, FALSE) + I.v)
     \/ /\ At("invert")
        /\ mem' = Written(mem, fp + I.d, I.n, -1 - Read(fp + I.d, I.n, FALSE))
     \/ /\ At("negate")
        /\ mem' = Written(mem, fp + I.d, I.n, - Read(fp + I.d, I.n, FALSE))
  /\ Next1
  /\ UNCHANGED <<fp, sp, ptr0, arg1, hw, code>>

Test ==
  /\ \/ /\ At("compare")
        /\ arg1' = IF Holds(I.f, Read(fp + I.a, I.n, I.signed),
                            Read(fp + I.b, I.n, I.signed)) THEN 1 ELSE 0
     \/ /\ At("gather")
        /\ arg1' = IF Read(fp + I.d, I.n, FALSE) = 0 THEN 0 ELSE 1
  /\ Next1
  /\ UNCHANGED <<fp, sp, mem, ptr0, hw, code>>

Jump ==
  /\ \/ At("jmp") /\ pc' = I.to
     \/ At("jz") /\ pc' = IF arg1 = 0 THEN I.to ELSE pc + 1
     \/ At("jnz") /\ pc' = IF arg1 # 0 THEN I.to ELSE pc + 1
  /\ UNCHANGED <<fp, sp, mem, ptr0, arg1, hw, code>>

\* ptr0: the address of an object, a pointer it holds, a step along either,
\* and its value stored in the frame.
Point ==
  /\ \/ At("lea") /\ ptr0' = Place(I.m, I.off) /\ mem' = mem
     \/ At("ptrload") /\ ptr0' = Read(Place(I.m, I.off), 2, FALSE) /\ mem' = mem
     \/ At("deref") /\ ptr0' = Read(ptr0, 2, FALSE) /\ mem' = mem
     \/ At("padd") /\ ptr0' = ptr0 + I.v /\ mem' = mem
     \/ At("paddfp") /\ ptr0' = (ptr0 + Read(fp + I.d, 2, FALSE)) % 65536
                     /\ mem' = mem
     \/ At("ptrout") /\ ptr0' = ptr0 /\ mem' = Written(mem, fp + I.d, 2, ptr0)
  /\ Next1
  /\ UNCHANGED <<fp, sp, arg1, hw, code>>

\* A call saves the frame pointer on the hardware stack, the callee leaves
\* it there, and the caller takes it back.
Call ==
  /\ At("jsr") \/ At("jsrptr")
  /\ hw' = Append(hw, <<fp, pc + 1>>)
  /\ pc' = IF I.op = "jsr" THEN I.to ELSE ptr0
  /\ UNCHANGED <<fp, sp, mem, ptr0, arg1, code>>

Return ==
  /\ At("rts")
  /\ pc' = hw[Len(hw)][2]
  /\ UNCHANGED <<fp, sp, mem, ptr0, arg1, hw, code>>

Restore ==
  /\ At("restore")
  /\ fp' = hw[Len(hw)][1]
  /\ hw' = SubSeq(hw, 1, Len(hw) - 1)
  /\ Next1
  /\ UNCHANGED <<sp, mem, ptr0, arg1, code>>

Step == Adjust \/ Copy \/ Constant \/ Arithmetic \/ InPlace \/ Test \/ Jump
        \/ Point \/ Call \/ Return \/ Restore
=============================================================================
