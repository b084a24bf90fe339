------------------------------ MODULE Control ------------------------------
(***************************************************************************)
(* Statements, functions and the whole program: what compile_stmt.c emits  *)
(* around the expressions of Lowering, and the linked code.                *)
(*                                                                         *)
(* Programs declare nothing under a label and nothing inside a section of  *)
(* a switch: the compiler gives such locals no room in the prologue.       *)
(***************************************************************************)
EXTENDS Lowering

RECURSIVE Stmts(_, _), Stmt(_, _)

(***************************************************************************)
(* The targets of break and continue, innermost last.  A loop under a      *)
(* label also answers to its name.                                         *)
(***************************************************************************)
InLoop(c, brk, cont) ==
  [c EXCEPT !.loops = Append(@, <<brk, cont>>),
            !.named = IF c.pending = "" THEN @
                      ELSE Append(@, <<c.pending, brk, cont>>),
            !.pending = ""]
\* Which of the two targets: 1 break, 2 continue.  An unknown name is only
\* warned about, and nothing is emitted.
Targets(c, name, which) ==
  IF name = "" THEN <<Last(c.loops)[which]>>
  ELSE LET known == SelectSeq(c.named, LAMBDA x : x[1] = name)
       IN  IF known = << >> THEN << >> ELSE <<Last(known)[which + 1]>>
Leave(c, name, which) ==
  LET t == Targets(c, name, which) IN IF t = << >> THEN << >> ELSE Jmp(t[1])

If(s, c) ==
  LET false == L(c, "if_false")
      end == L(c, "if_end")
      else == IF s.b = << >> THEN Label(false)
              ELSE Jmp(end) \o Label(false) \o Stmts(s.b, Sub(c, 2)) \o Label(end)
  IN  Cond(s.e, Sub(c, 0), false) \o Stmts(s.a, Sub(c, 1)) \o else

While(s, c) ==
  LET start == L(c, "while_start")
      end == L(c, "while_end")
  IN  Label(start) \o Cond(s.e, Sub(c, 0), end)
      \o Stmts(s.a, Sub(InLoop(c, end, start), 1)) \o Jmp(start) \o Label(end)

DoWhile(s, c) ==
  LET start == L(c, "do_start")
      cond == L(c, "do_cond")
      end == L(c, "do_end")
  IN  Label(start) \o Stmts(s.a, Sub(InLoop(c, end, cond), 1))
      \o Label(cond) \o Cond(s.e, Sub(c, 0), end) \o Jmp(start) \o Label(end)

\* Mutant: continue goes to the test.
ForWithoutStep(s, c) ==
  LET start == L(c, "for_start")
      end == L(c, "for_end")
  IN  Stmts(s.i, Sub(c, 0)) \o Label(start)
      \o (IF s.e = << >> THEN << >> ELSE Cond(s.e[1], Sub(c, 1), end))
      \o Stmts(s.a, Sub(InLoop(c, end, start), 2))
      \o (IF s.step = << >> THEN << >> ELSE Expr(s.step[1], Sub(c, 3)))
      \o Jmp(start) \o Label(end)
\* continue goes to the step of a for.
For(s, c) ==
  LET start == L(c, "for_start")
      step == L(c, "for_step")
      end == L(c, "for_end")
      in == InLoop(c, end, step)
  IN  Stmts(s.i, Sub(c, 0)) \o Label(start)
      \o (IF s.e = << >> THEN << >> ELSE Cond(s.e[1], Sub(c, 1), end))
      \o Stmts(s.a, Sub(in, 2)) \o Label(step)
      \o (IF s.step = << >> THEN << >> ELSE Expr(s.step[1], Sub(c, 3)))
      \o Jmp(start) \o Label(end)

(***************************************************************************)
(* A switch keeps its value and the case being tried on the stack until    *)
(* its cleanup label.  The tests come first, in source order, then the     *)
(* bodies, each falling into the next.  continue inside a switch is the    *)
(* enclosing loop's.                                                       *)
(***************************************************************************)
CaseLabel(c, i) == L(Sub(c, i), "case")
CaseTest(s, i, c, b, n, t) ==
  LET bounds == s.secs[i].case
      try(v) == Imm(b + n, n, v)
      into == CaseLabel(c, i)
      skip == L(Sub(c, i), "case_skip")
      low == Least(bounds[1], Last(bounds))
      high == Greatest(bounds[1], Last(bounds))
  IN  CASE bounds = << >> -> << >>
        [] Len(bounds) = 1 ->
             try(bounds[1]) \o Compare("eq", b, b + n, n, t) \o BranchIfSet(into)
        [] Len(bounds) = 2 ->
             try(low) \o Compare("le", b + n, b, n, t) \o BranchIfZero(skip)
             \o try(high) \o Compare("le", b, b + n, n, t) \o BranchIfSet(into)
             \o Label(skip)
Defaults(s) == SelectSeq([i \in DOMAIN s.secs |-> i],
                         LAMBDA i : s.secs[i].case = << >>)
Switch(s, c) ==
  LET t == s.e.sh.t
      n == Greatest(1, ValueSize(s.e))
      b == c.locals
      cleanup == L(c, "switch_cleanup")
      outer == IF c.loops = << >> THEN << >> ELSE Last(c.loops)[2]
      up == With(c, b + 2 * n)
      in == InLoop(up, cleanup, outer)
      tests == FlattenSeq([i \in DOMAIN s.secs |-> CaseTest(s, i, c, b, n, t)])
      default == IF Defaults(s) = << >> THEN cleanup
                 ELSE CaseLabel(c, Last(Defaults(s)))
      bodies == FlattenSeq([i \in DOMAIN s.secs |->
                  Label(CaseLabel(c, i)) \o Stmts(s.secs[i].a, Sub(in, i))])
  IN  Push(2 * n) \o ToSlot(s.e, Sub(up, 0), Slot(b, n, Plain(t)))
      \o tests \o Jmp(default) \o bodies \o Label(cleanup) \o Pop(2 * n)

Labelled(s, c) ==
  Label(UserLabel(c, s.n))
  \o Stmt(s.a, Sub(IF s.a.s \in {"while", "for", "do", "switch"}
                   THEN [c EXCEPT !.pending = s.n] ELSE c, 1))

\* Mutant: the return skips the epilogue.
RetAtOnce(s, c) ==
  (IF s.e = << >> THEN << >>
   ELSE LET r == c.vars["$$"] IN ToSlot(s.e[1], Sub(c, 0), Slot(r.off, r.n, r.sh)))
  \o Ins([op |-> "rts"])
\* The value of a return goes straight to the slot the caller left for it.
Ret(s, c) ==
  (IF s.e = << >> THEN << >>
   ELSE LET r == c.vars["$$"] IN ToSlot(s.e[1], Sub(c, 0), Slot(r.off, r.n, r.sh)))
  \o Jmp(FiniOf(c.fn))

\* A static is given its initial value with the data, not here.
Declare(s, c) ==
  LET v == c.vars[s.n] IN
  IF v.at = "abs" \/ s.e = << >> THEN << >>
  ELSE ToSlot(s.e[1], Sub(c, 0), Slot(v.off, Size(s.sh), s.sh))

Stmt(s, c) ==
  CASE s.s = "ret" -> Ret(s, c)
    [] s.s = "expr" -> Expr(s.e, Sub(c, 0))
    [] s.s = "decl" -> Declare(s, c)
    [] s.s = "if" -> If(s, c)
    [] s.s = "while" -> While(s, c)
    [] s.s = "do" -> DoWhile(s, c)
    [] s.s = "for" -> For(s, c)
    [] s.s = "break" -> Leave(c, s.to, 1)
    [] s.s = "continue" -> Leave(c, s.to, 2)
    [] s.s = "label" -> Labelled(s, c)
    [] s.s = "goto" -> Jmp(UserLabel(c, s.to))
    [] s.s = "switch" -> Switch(s, c)
    [] s.s = "block" -> Stmts(s.a, c)
Stmts(body, c) == FlattenSeq([i \in DOMAIN body |-> Stmt(body[i], Sub(c, i))])

(***************************************************************************)
(* A function: the frame pointer is the stack pointer at entry, the locals *)
(* are pushed, and one epilogue pops them.                                 *)
(***************************************************************************)
Function(prog, f) ==
  LET c == Context(prog, f)
      held(op) == IF c.locals > 0 THEN op ELSE << >>
  IN  Label(EntryOf(f)) \o Ins([op |-> "enter"]) \o held(Push(c.locals))
      \o Stmts(prog.funs[f].body, c)
      \o Label(FiniOf(f)) \o held(Pop(c.locals)) \o Ins([op |-> "rts"])

\* The start-up code calls main; then the functions, in order.
Assembly(prog) ==
  Invoke("jsr", EntryOf("main"), 0) \o Ins([op |-> "halt"])
  \o FlattenSeq([i \in DOMAIN prog.order |-> Function(prog, prog.order[i])])

\* Labels become the indexes of the instructions they stand before.
Linked(asm) ==
  LET real(x) == x.op # "label"
      marks == {i \in DOMAIN asm : ~real(asm[i])}
      before(i) == Len(SelectSeq(SubSeq(asm, 1, i), real))
      address == [l \in {asm[i].l : i \in marks} |->
                    1 + before(CHOOSE i \in marks : asm[i].l = l)]
      resolved(x) ==
        IF x.op \in {"jmp", "jz", "jnz", "jsr"}
        THEN [x EXCEPT !.to = address[x.to]]
        ELSE IF x.op = "address"
        THEN [op |-> "imm", d |-> x.d, n |-> x.n, v |-> address[x.of]] ELSE x
      kept == SelectSeq(asm, real)
  IN  [i \in DOMAIN kept |-> resolved(kept[i])]
=============================================================================
