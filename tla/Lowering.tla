------------------------------ MODULE Lowering ------------------------------
(***************************************************************************)
(* The code generator: what compile_expr_to_slot, compile_expr,            *)
(* compile_condition_branch_false, the calls and the statements emit, as   *)
(* sequences of the instructions of Machine.                               *)
(*                                                                         *)
(* A context c carries c.locals, the height of the frame above fp that is  *)
(* in use: pushed temporaries are addressed from it, and the code is right *)
(* only as long as the stack pointer agrees with it wherever a call is     *)
(* made.  c.path is where we are in the program, to name labels with.  A   *)
(* slot [off, n, sh] is the place of the frame that receives a value.      *)
(***************************************************************************)
EXTENDS Typing

Ins(r) == <<r>>
Push(n) == Ins([op |-> "push", n |-> n % 256])
Pop(n) == Ins([op |-> "pop", n |-> n % 256])
\* Raised(n, code): the code runs with n more bytes pushed.
Raised(n, body) == Push(n) \o body \o Pop(n)
Label(l) == Ins([op |-> "label", l |-> l])
Jmp(l) == Ins([op |-> "jmp", to |-> l])
BranchIfZero(l) == Ins([op |-> "jz", to |-> l])
BranchIfSet(l) == Ins([op |-> "jnz", to |-> l])
Imm(off, n, v) == Ins([op |-> "imm", d |-> off, n |-> n, v |-> v])
StoreLabel(dst, l) == Ins([op |-> "address", d |-> dst.off, n |-> dst.n, of |-> l])
Move(dm, d, dn, sm, s, sn, t) ==
  IF dn <= 0 \/ sn <= 0 \/ (dm = sm /\ d = s /\ dn = sn) THEN << >>
  ELSE Ins([op |-> "copy", dm |-> dm, d |-> d, dn |-> dn,
            sm |-> sm, s |-> s, sn |-> sn, signed |-> Signed(t)])
Convert(dst, off, n, t) == Move("fp", dst.off, dst.n, "fp", off, n, t)
CopyFp(to, from, n) == Move("fp", to, n, "fp", from, n, "u8")
FromSymbol(dst, a, n, t) == Move("fp", dst.off, dst.n, "abs", a, n, t)
ToSymbol(a, off, n) == Move("abs", a, n, "fp", off, n, "u8")

Arith(f, to, a, b, n, bn, t) ==
  Ins([op |-> "arith", f |-> f, to |-> to, a |-> a, b |-> b, n |-> n,
       bn |-> bn, signed |-> Signed(t)])
Compare(f, a, b, n, t) ==
  Ins([op |-> "compare", f |-> f, a |-> a, b |-> b, n |-> n,
       signed |-> Signed(t)])

Slot(off, n, sh) == [off |-> off, n |-> n, sh |-> sh]
\* Mutant: the height of the frame is not carried along.
WithStale(c, locals) == c
With(c, locals) == [c EXCEPT !.locals = locals]
Sub(c, i) == [c EXCEPT !.path = Append(@, i)]
L(c, kind) == <<c.fn, kind, c.path>>
UserLabel(c, x) == <<c.fn, "user", x>>
EntryOf(f) == <<f, "entry", << >> >>
FiniOf(f) == <<f, "fini", << >> >>

\* The code of an expression: its value into a slot, a branch to a label when
\* it is false, or its effect alone.
RECURSIVE Lower(_, _, _, _)
ToSlot(e, c, dst) == Lower(e, c, "value", dst)
Cond(e, c, false) == Lower(e, c, "condition", false)
Expr(e, c) == Lower(e, c, "effect", << >>)

(***************************************************************************)
(* Lvalues: ptr0 := the address, then bytes are copied through it.         *)
(***************************************************************************)
PtrStore(off) == Ins([op |-> "ptrout", d |-> off])
PtrLoad(m, off) == Ins([op |-> "ptrload", m |-> m, off |-> off])
Deref == Ins([op |-> "deref"])
PtrBase(t) ==
  IF t.deref > 0 \/ t.ref
  THEN PtrLoad(t.at, t.base)
       \o FlattenSeq([i \in 1 .. t.deref - (IF t.ref THEN 0 ELSE 1) |-> Deref])
  ELSE Ins([op |-> "lea", m |-> t.at, off |-> t.base])
\* The subscript: ptr0 is parked in the frame while the index is computed.
Index(t, c) ==
  LET e == t.sub[1]
      elem == ElemSize(t.bsh)
      i == c.locals
      factor == i + PtrSize
      scaled == factor + PtrSize
      save == IF elem = 1 THEN i + PtrSize ELSE scaled + 2 * PtrSize
      total == save + PtrSize - i
      step == IF elem = 1 THEN Ins([op |-> "paddfp", d |-> i])
              ELSE Imm(factor, PtrSize, elem)
                   \o Arith("*", scaled, i, factor, PtrSize, PtrSize, "u16")
                   \o PtrLoad("fp", save) \o Ins([op |-> "paddfp", d |-> scaled])
  IN  (IF t.bsh.d > 0 THEN Deref ELSE << >>)
      \o IF IsLit(e) THEN Ins([op |-> "padd", v |-> e.v * elem])
         ELSE Raised(total,
                PtrStore(save)
                \o ToSlot(e, Sub(With(c, i + total), 9),
                          Slot(i, PtrSize, Plain(e.sh.t)))
                \o PtrLoad("fp", save) \o step)
Prepare(t, c) == PtrBase(t) \o IF t.sub = << >> THEN << >> ELSE Index(t, c)

\* The temporaries of the address are taken above the slot in use.
AboveUnprotected(c, off, n) == c   \* mutant
Above(c, off, n) == With(c, Greatest(c.locals, off + n))
Fetch(t, c, off, n) ==
  LET k == Least(n, t.n)
  IN  Prepare(t, Above(c, off, k)) \o Move("fp", off, k, "ptr", 0, k, "u8")
Put(t, c, off, n) ==
  LET k == Least(n, t.n)
  IN  Prepare(t, Above(c, off, k)) \o Move("ptr", 0, k, "fp", off, k, "u8")

(***************************************************************************)
(* Reading a variable, an lvalue, and the value of x++ and its kin.        *)
(***************************************************************************)
\* An array read where a pointer is wanted gives its address.
Decays(e, dst) ==
  /\ dst.sh.d > 0 /\ e.k = "lv"
  /\ LET sh == e.sh IN sh.d = 0 /\ sh.n > 0
ReadVariable(e, c, dst) ==
  LET v == Entry(c, e.n) IN
  IF v.at = "fp" THEN Convert(dst, v.off, v.n, v.sh.t)
  ELSE FromSymbol(dst, v.off, v.n, v.sh.t)
ReadThrough(t, c, dst) ==
  LET k == Least(t.n, dst.n)
  IN  IF t.n = dst.n /\ t.sh = dst.sh THEN Fetch(t, c, dst.off, t.n)
      ELSE Fetch(t, c, dst.off, k) \o Convert(dst, dst.off, k, t.sh.t)
StepOf(sh) == IF sh.d > 0 THEN ElemSize(sh) ELSE 1
IncDec(e, c, dst) ==
  LET t == e.lv.pl
      tmp == c.locals
      by == IF e.up THEN StepOf(t.sh) ELSE - StepOf(t.sh)
      give == Convert(dst, tmp, t.n, t.sh.t)
  IN  Raised(t.n,
        Fetch(t, Sub(c, 1), tmp, t.n)
        \o (IF e.pre THEN << >> ELSE give)
        \o Ins([op |-> "bump", d |-> tmp, n |-> t.n, v |-> by])
        \o Put(t, Sub(c, 2), tmp, t.n)
        \o (IF e.pre THEN give ELSE << >>))

(***************************************************************************)
(* Arithmetic: both operands are computed into temporaries side by side,   *)
(* with room for the result of the runtime helper after them.  A layout    *)
(* says how wide they are and of which type, and by how much the right     *)
(* operand of a pointer is scaled.                                         *)
(***************************************************************************)
Wide(op) == op \in {"*", "/", "%"}
ExprLayout(e) ==
  LET l == e.l.sh
      w == e.sh.t
      rt == IF IsLit(e.r) THEN w ELSE e.r.sh.t
  IN  CASE e.op \in Shifts ->
             [w |-> w, n |-> SizeOf[w], rt |-> rt, rn |-> SizeOf[rt],
              scale |-> 1, lsh |-> Plain(w)]
        [] e.op \in {"+", "-"} /\ l.d > 0 ->
             [w |-> w, n |-> Size(l), rt |-> rt, rn |-> Size(l),
              scale |-> ElemSize(l), lsh |-> l]
        [] OTHER ->
             [w |-> w, n |-> SizeOf[w], rt |-> w, rn |-> SizeOf[w],
              scale |-> 1, lsh |-> Plain(w)]
CompoundLayout(op, t, r) ==
  LET w == t.sh.t
      rt == IF IsLit(r) THEN w ELSE r.sh.t
      k == CompoundType(w, r)
  IN  CASE op \in {"+", "-"} /\ t.sh.d > 0 ->
             [w |-> w, n |-> t.n, rt |-> rt, rn |-> SizeOf[rt],
              scale |-> ElemSize(t.sh), lsh |-> t.sh]
        [] op \in Shifts ->
             [w |-> w, n |-> SizeOf[w], rt |-> rt, rn |-> SizeOf[rt],
              scale |-> 1, lsh |-> Plain(w)]
        [] OTHER ->
             [w |-> k, n |-> SizeOf[k], rt |-> k, rn |-> SizeOf[k],
              scale |-> 1, lsh |-> Plain(k)]
Temps(op, y) ==
  y.n + y.rn + (IF Wide(op) \/ y.scale # 1 THEN 2 * y.n ELSE 0)
             + (IF op \in Shifts THEN y.n ELSE 0)
ResultAt(op, y, b) == IF op \in Shifts THEN b + y.n + y.rn ELSE b
Operate(op, y, b) ==
  LET r == b + y.n
      aux == r + y.rn
      value == IF y.scale = 1 THEN r ELSE aux + y.n
      scaling == IF y.scale = 1 THEN << >>
                 ELSE Imm(aux, y.n, y.scale)
                      \o Arith("*", aux + y.n, r, aux, y.n, y.n, y.rt)
  IN  scaling \o
      CASE op \in {"+", "-", "&", "|", "^"} ->
             Arith(op, b, b, value, y.n, y.n, y.w)
        [] op = "*" -> Arith("*", aux, b, r, y.n, y.n, y.w) \o CopyFp(b, aux, y.n)
        [] op \in {"/", "%"} ->
             Arith("divmod", aux, b, r, y.n, y.n, y.w)
             \o CopyFp(b, IF op = "/" THEN aux ELSE aux + y.n, y.n)
        [] op \in Shifts -> Arith(op, aux, b, r, y.n, y.rn, y.w)
Binary(e, c, dst) ==
  LET y == ExprLayout(e)
      b == c.locals
      total == Temps(e.op, y)
      up == With(c, b + total)
  IN  Raised(total,
        ToSlot(e.l, Sub(up, 1), Slot(b, y.n, y.lsh))
        \o ToSlot(e.r, Sub(up, 2), Slot(b + y.n, y.rn, Plain(y.rt)))
        \o Operate(e.op, y, b)
        \o Convert(dst, ResultAt(e.op, y, b), y.n, y.w))

(***************************************************************************)
(* Conditions: fall through if true, branch to the label if false.         *)
(***************************************************************************)
CompareAndBranch(e, c, false) ==
  LET t == OperandType(e.l, e.r)
      n == SizeOf[t]
      b == c.locals
      up == With(c, b + 2 * n)
      swapped == e.op \in {">", ">="}
      x == IF swapped THEN b + n ELSE b
      y == IF swapped THEN b ELSE b + n
      test == CASE e.op \in {"==", "!="} -> "eq"
                [] e.op \in {"<", ">"} -> "lt" [] e.op \in {"<=", ">="} -> "le"
  IN  Raised(2 * n,
        ToSlot(e.l, Sub(up, 1), Slot(b, n, Plain(t)))
        \o ToSlot(e.r, Sub(up, 2), Slot(b + n, n, Plain(t)))
        \o Compare(test, x, y, n, t))
      \o IF e.op = "!=" THEN BranchIfSet(false) ELSE BranchIfZero(false)
Truthy(e, c, false) ==
  LET n == ValueSize(e)
      b == c.locals
  IN  Raised(n, ToSlot(e, Sub(With(c, b + n), 1), Slot(b, n, Plain(e.sh.t)))
                \o Ins([op |-> "gather", d |-> b, n |-> n]))
      \o BranchIfZero(false)
Condition(e, c, false) ==
  CASE e.k = "un" /\ e.op = "!" ->
         Cond(e.e, Sub(c, 1), L(c, "not_cond_end")) \o Jmp(false)
         \o Label(L(c, "not_cond_end"))
    [] e.k = "bin" /\ e.op = "&&" ->
         Cond(e.l, Sub(c, 1), false) \o Cond(e.r, Sub(c, 2), false)
    [] e.k = "bin" /\ e.op = "||" ->
         Cond(e.l, Sub(c, 1), L(c, "or_rhs")) \o Jmp(L(c, "or_end"))
         \o Label(L(c, "or_rhs")) \o Cond(e.r, Sub(c, 2), false)
         \o Label(L(c, "or_end"))
    [] e.k = "lit" -> IF e.v = 0 THEN Jmp(false) ELSE << >>
    [] e.k = "bin" /\ e.op \in Comparisons -> CompareAndBranch(e, c, false)
    [] OTHER -> Truthy(e, c, false)

\* The value of a condition: 1 or 0.
Choose(cond, c, dst, yes, no) ==
  cond \o Imm(dst.off, dst.n, yes) \o Jmp(L(c, "value_end"))
  \o Label(L(c, "value_false")) \o Imm(dst.off, dst.n, no)
  \o Label(L(c, "value_end"))
Logical(e, c, dst) ==
  LET false == L(c, "value_false") IN
  CASE e.k = "un" -> Choose(Cond(e.e, Sub(c, 1), false), c, dst, 0, 1)
    [] e.op = "&&" -> Choose(Cond(e.l, Sub(c, 1), false)
                             \o Cond(e.r, Sub(c, 2), false), c, dst, 1, 0)
    [] e.op = "||" ->
         Choose(Cond(e.l, Sub(c, 1), L(c, "value_rhs"))
                \o Imm(dst.off, dst.n, 1) \o Jmp(L(c, "value_end"))
                \o Label(L(c, "value_rhs")) \o Cond(e.r, Sub(c, 2), false),
                c, dst, 1, 0)
    [] OTHER -> Choose(Cond(e, Sub(c, 1), false), c, dst, 1, 0)

(***************************************************************************)
(* Values.                                                                 *)
(***************************************************************************)
Cast(e, c, dst) ==
  LET n == Size(e.sh) IN
  Raised(n, ToSlot(e.e, Sub(With(c, c.locals + n), 1), Slot(c.locals, n, e.sh))
            \o Convert(dst, c.locals, n, e.sh.t))
Ternary(e, c, dst) ==
  Cond(e.c, Sub(c, 1), L(c, "ternary_false"))
  \o ToSlot(e.a, Sub(c, 2), dst) \o Jmp(L(c, "ternary_end"))
  \o Label(L(c, "ternary_false"))
  \o ToSlot(e.b, Sub(c, 3), dst) \o Label(L(c, "ternary_end"))
Unary(e, c, dst) ==
  IF e.op = "!" THEN Logical(e, c, dst)
  ELSE ToSlot(e.e, Sub(c, 1), dst)
       \o CASE e.op = "+" -> << >>
            [] e.op = "~" -> Ins([op |-> "invert", d |-> dst.off, n |-> dst.n])
            [] e.op = "-" -> Ins([op |-> "negate", d |-> dst.off, n |-> dst.n])
(***************************************************************************)
(* Calls.  The caller pushes the return slot with the arguments above it,  *)
(* the first argument highest, and fills them in order; an argument of a   *)
(* parameter with a symbol passes through a scratch above them all.        *)
(***************************************************************************)
Argument(a, par, c, off) ==
  IF par.ref THEN Prepare(a.pl, c) \o PtrStore(off)
  ELSE ToSlot(a, c, Slot(off, SlotSize(par), Decayed(par.sh)))
Arguments(e, params, c, first, scratch, f) ==
  FlattenSeq([i \in 1 .. Len(e.args) |->
    LET par == params[i]
        at == Sub(c, i)
    IN  IF par.sym
        THEN Argument(e.args[i], par, at, scratch)
             \o ToSymbol(AddressOf(c.prog, f, par.name), scratch, SlotSize(par))
        ELSE Argument(e.args[i], par, at, first - Below(params, i))])
Invoke(op, to, top) ==
  Ins([op |-> op, to |-> to, top |-> top]) \o Ins([op |-> "restore"])
Sized(n, body) == IF n = 0 THEN body ELSE Raised(n, body)
ScratchSize(params) ==
  FoldLeft(LAMBDA m, par : IF par.sym THEN Greatest(m, SlotSize(par)) ELSE m,
           0, params)
DirectCall(e, c, dst) ==
  LET fun == c.prog.funs[e.f]
      ret == Size(fun.ret)
      stacked == Below(fun.params, Len(fun.params))
      b == c.locals
      scratch == b + ret + stacked
      total == ret + stacked + ScratchSize(fun.params)
  IN  Sized(total,
        Arguments(e, fun.params, With(c, b + total), scratch, scratch, e.f)
        \o Invoke("jsr", EntryOf(e.f), b + total)
        \o IF dst = << >> THEN << >> ELSE Convert(dst[1], b, ret, fun.ret.t))
\* Through a pointer: the pointer itself lies below the return slot, and
\* there is no return slot when the value is not wanted.
IndirectCall(e, c, dst) ==
  LET fun == c.prog.funs[e.like]
      ret == IF dst = << >> THEN 0 ELSE Size(fun.ret)
      stacked == Below(fun.params, Len(fun.params))
      b == c.locals
      total == PtrSize + ret + stacked
      up == With(c, b + total)
  IN  Raised(total,
        Arguments(e, fun.params, up, b + total, 0, e.like)
        \o ToSlot(e.p, Sub(up, 0), Slot(b, PtrSize, Plain("u16")))
        \o PtrLoad("fp", b) \o Invoke("jsrptr", 0, b + total)
        \o IF dst = << >> THEN << >>
           ELSE Convert(dst[1], b + PtrSize, ret, fun.ret.t))
CallTo(e, c, dst) ==
  IF e.k = "call" THEN DirectCall(e, c, dst) ELSE IndirectCall(e, c, dst)

(***************************************************************************)
(* Assignments and expression statements.                                  *)
(***************************************************************************)
SimpleAssign(e, c) ==
  LET t == e.lv.pl
      b == c.locals
      tmp == Slot(b, t.n, Plain(t.sh.t))
      source == IF e.r.k = "lv" THEN e.r.pl
                ELSE IF e.r.k = "inc" THEN e.r.lv.pl ELSE t
  IN  CASE Direct(t) /\ t.at = "abs" ->
             IF e.r.k \in {"lv", "inc"} /\ source.n = t.n /\ source.sh.t = t.sh.t
             THEN Prepare(source, c) \o Move("abs", t.off, t.n, "ptr", 0, t.n, "u8")
             ELSE ToSlot(e.r, Sub(c, 2), tmp) \o ToSymbol(t.off, b, t.n)
        [] ~Direct(t) ->
             Raised(t.n, ToSlot(e.r, Sub(With(c, b + t.n), 2), tmp)
                         \o Put(t, Sub(c, 1), b, t.n))
        [] OTHER -> ToSlot(e.r, Sub(c, 2), Slot(t.off, t.n, t.sh))
CompoundAssign(e, c) ==
  LET t == e.lv.pl
      y == CompoundLayout(e.op, t, e.r)
      b == c.locals
      parts == Temps(e.op, y)
      symbol == Direct(t) /\ t.at = "abs"
      store == IF symbol \/ ~Direct(t) THEN t.n ELSE 0
      total == parts + store
      k == Least(t.n, y.n)
      lhs == Slot(b, y.n, y.lsh)
      load == CASE symbol -> FromSymbol(lhs, t.off, t.n, t.sh.t)
                [] ~Direct(t) -> Fetch(t, Sub(c, 1), b, k)
                                 \o Convert(lhs, b, k, t.sh.t)
                [] OTHER -> Convert(lhs, t.off, t.n, t.sh.t)
      save == IF store = 0 THEN Move("fp", t.off, t.n, "fp", b, y.n, y.w)
              ELSE Move("fp", b + parts, t.n, "fp", b, y.n, y.w)
                   \o IF symbol THEN ToSymbol(t.off, b + parts, t.n)
                      ELSE Put(t, Sub(c, 3), b + parts, t.n)
  IN  Raised(total,
        load
        \o ToSlot(e.r, Sub(With(c, b + total), 2),
                  Slot(b + y.n, y.rn, Plain(y.rt)))
        \o Operate(e.op, y, b) \o CopyFp(b, ResultAt(e.op, y, b), y.n)
        \o save)
Assign(e, c) == IF e.op = ":=" THEN SimpleAssign(e, c) ELSE CompoundAssign(e, c)

\* An assignment as a value: done first, then its target is read again.
AssignedValue(e, c, dst) ==
  LET t == e.lv.pl
      k == Least(t.n, dst.n)
  IN  Assign(e, Sub(c, 1)) \o Fetch(t, Sub(c, 2), dst.off, k)
      \o Convert(dst, dst.off, k, t.sh.t)
Value(e, c, dst) ==
  IF Decays(e, dst) THEN Prepare(e.pl, c) \o PtrStore(dst.off)
  ELSE CASE e.k = "lit" -> Imm(dst.off, dst.n, e.v)
         [] e.k = "lv" -> IF Bare(e) THEN ReadVariable(e, c, dst)
                          ELSE ReadThrough(e.pl, c, dst)
         [] e.k = "inc" -> IncDec(e, c, dst)
         [] e.k = "addr" -> Prepare(e.lv.pl, c) \o PtrStore(dst.off)
         [] e.k = "fun" -> StoreLabel(dst, EntryOf(e.f))
         [] e.k = "cast" -> Cast(e, c, dst)
         [] e.k \in {"call", "icall"} -> CallTo(e, c, <<dst>>)
         [] e.k = "asg" -> AssignedValue(e, c, dst)
         [] e.k = "comma" -> Expr(e.l, Sub(c, 1)) \o ToSlot(e.r, Sub(c, 2), dst)
         [] e.k = "tern" -> Ternary(e, c, dst)
         [] e.k = "un" -> Unary(e, c, dst)
         [] e.k = "bin" -> IF e.op \in Comparisons \cup {"&&", "||"}
                           THEN Logical(e, c, dst) ELSE Binary(e, c, dst)

\* The value of an expression statement that is neither a call nor an
\* assignment goes to a pushed temporary, with c.locals left as it was.
Effect(e, c) ==
  CASE e.k \in {"call", "icall"} -> CallTo(e, c, << >>)
    [] e.k = "asg" -> Assign(e, c)
    [] OTHER -> LET n == Greatest(1, ValueSize(e)) IN
                Raised(n, ToSlot(e, Sub(c, 1),
                                 Slot(c.locals, n, Plain(e.sh.t))))
Lower(e, c, want, to) ==
  CASE want = "value" -> Value(e, c, to)
    [] want = "condition" -> Condition(e, c, to)
    [] want = "effect" -> Effect(e, c)
=============================================================================
