------------------------------- MODULE Typing -------------------------------
(***************************************************************************)
(* What the code generator knows of a program before it emits anything:    *)
(* the size of a type, where a name lives, the type of an expression, and  *)
(* the place an assignment target denotes.                                 *)
(*                                                                         *)
(* A shape is a declared type with its declarator: t is the base type, d   *)
(* the pointer depth, n the number of elements (0: no array).  Modelled    *)
(* are the little-endian integers of one and two bytes, bool, pointers to  *)
(* them and to functions, and one-dimensional arrays.                      *)
(*                                                                         *)
(* Expressions and statements are records: e.k and s.s name the node, and  *)
(* an optional part is a sequence of at most one element.  Typing fills in *)
(* e.sh, the shape of an expression, and e.pl, the place of an lvalue.     *)
(***************************************************************************)
EXTENDS Integers, Sequences, SequencesExt

PtrSize == 2
SizeOf == [void |-> 0, bool |-> 1, u8 |-> 1, s8 |-> 1, u16 |-> 2, int |-> 2]
Signed(t) == t \in {"s8", "int"}
Promotable(t) == t \notin {"void", "bool"}
NoType == "none"

Plain(t) == [t |-> t, d |-> 0, n |-> 0]
Size(sh) == (IF sh.d > 0 THEN PtrSize ELSE SizeOf[sh.t])
            * (IF sh.n = 0 THEN 1 ELSE sh.n)
ElemSize(sh) == IF sh.d > 1 THEN PtrSize ELSE SizeOf[sh.t]
Decayed(sh) == IF sh.n = 0 THEN sh ELSE [sh EXCEPT !.d = @ + 1, !.n = 0]

SumOf(f(_), seq) == FoldLeft(LAMBDA acc, x : acc + f(x), 0, seq)
Least(a, b) == IF a < b THEN a ELSE b
Greatest(a, b) == IF a < b THEN b ELSE a

\* Objects with a symbol lie one after the other from address 0 on, in the
\* order of prog.data; the locals and parameters of f that have one are named
\* by the pair of f and the name.
DataSize(o) == IF o.ref THEN PtrSize ELSE Size(o.sh)
AddressOf(prog, of, x) ==
  LET i == CHOOSE j \in DOMAIN prog.data :
             prog.data[j].of = of /\ prog.data[j].name = x
  IN  SumOf(DataSize, SubSeq(prog.data, 1, i - 1))
ShapeOfData(prog, of, x) ==
  (CHOOSE o \in Range(prog.data) : o.of = of /\ o.name = x).sh

(***************************************************************************)
(* The context of a function: each parameter takes the bytes below the     *)
(* frame pointer that its slot needs, the return slot $$ those below the   *)
(* last; locals take theirs above it, in the order of their declarations.  *)
(***************************************************************************)
SlotSize(par) == IF par.ref THEN PtrSize ELSE Size(Decayed(par.sh))
StackPart(par) == IF par.sym THEN 0 ELSE SlotSize(par)
Below(ps, i) == SumOf(StackPart, SubSeq(ps, 1, i))

Object(at, of, off, sh, n, ref) ==
  [at |-> at, of |-> of, off |-> off, sh |-> sh, n |-> n, ref |-> ref]
ParamEntry(prog, f, i) ==
  LET par == prog.funs[f].params[i] IN
  IF par.sym
  THEN Object("abs", f, AddressOf(prog, f, par.name), Decayed(par.sh),
              SlotSize(par), par.ref)
  ELSE Object("fp", f, - Below(prog.funs[f].params, i), Decayed(par.sh),
              Size(Decayed(par.sh)), par.ref)

RECURSIVE Declared(_)
DeclaredBy(s) ==
  CASE s.s = "decl" -> <<s>>
    [] s.s = "if" -> Declared(s.a) \o Declared(s.b)
    [] s.s \in {"while", "do", "block"} -> Declared(s.a)
    [] s.s = "for" -> Declared(s.i) \o Declared(s.a)
    [] OTHER -> << >>
Declared(stmts) == FlattenSeq([i \in DOMAIN stmts |-> DeclaredBy(stmts[i])])

\* The first declaration of a name makes its entry; a later one finds it.
Locals(body) ==
  LET all == Declared(body) IN
  SelectSeq([i \in DOMAIN all |->
               [decl |-> all[i],
                new |-> \A j \in 1 .. i - 1 : all[j].n # all[i].n]],
            LAMBDA x : x.new)
FrameSize(x) == IF x.decl.static THEN 0 ELSE Size(x.decl.sh)

Context(prog, f) ==
  LET fun == prog.funs[f]
      ls == Locals(fun.body)
      bytes(i) == SumOf(FrameSize, SubSeq(ls, 1, i))
      params == {fun.params[i].name : i \in DOMAIN fun.params}
      local(i) == LET l == ls[i].decl IN
        IF l.static THEN Object("abs", f, AddressOf(prog, f, l.n), l.sh,
                                Size(l.sh), FALSE)
        ELSE Object("fp", f, bytes(i - 1), l.sh, Size(l.sh), FALSE)
      names == {ls[i].decl.n : i \in DOMAIN ls}
  IN  [prog |-> prog, fn |-> f, locals |-> bytes(Len(ls)),
       loops |-> << >>, named |-> << >>, pending |-> "", path |-> << >>,
       vars |-> [x \in params \cup names \cup {"$$"} |->
          IF x = "$$"
          THEN Object("fp", f, - Below(fun.params, Len(fun.params))
                            - Size(fun.ret), fun.ret, Size(fun.ret), FALSE)
          ELSE IF x \in params
          THEN ParamEntry(prog, f, CHOOSE i \in DOMAIN fun.params :
                                     fun.params[i].name = x)
          ELSE local(CHOOSE i \in DOMAIN ls : ls[i].decl.n = x)]]

Entry(c, x) ==
  IF x \in DOMAIN c.vars THEN c.vars[x]
  ELSE LET sh == ShapeOfData(c.prog, "", x)
       IN  Object("abs", "", AddressOf(c.prog, "", x), sh, Size(sh), FALSE)

(***************************************************************************)
(* The place an lvalue denotes: the entry of its base name, then the       *)
(* dereferences, then the subscript.                                       *)
(***************************************************************************)
IsLit(e) == e.k = "lit"
Bare(e) == e.k = "lv" /\ e.deref = 0 /\ e.sub = << >>
Target(e, c) ==
  LET b == Entry(c, e.n)
      sh == [b.sh EXCEPT !.d = @ - e.deref]
      subscript == e.sub # << >>
      through == b.ref \/ e.deref > 0
      fixed == subscript /\ IsLit(e.sub[1])
      final == IF ~subscript THEN sh
               ELSE IF sh.d > 0 THEN [sh EXCEPT !.d = @ - 1]
               ELSE [sh EXCEPT !.n = 0]
  IN  [at |-> b.at, of |-> b.of, base |-> b.off, bsh |-> b.sh, ref |-> b.ref,
       deref |-> e.deref, sub |-> e.sub, sh |-> final,
       n |-> IF subscript \/ e.deref > 0 THEN Size(final) ELSE b.n,
       indirect |-> through \/ (subscript /\ sh.d > 0),
       runtime |-> subscript /\ ~fixed,
       off |-> IF fixed /\ sh.d = 0 /\ ~through
               THEN b.off + e.sub[1].v * ElemSize(sh) ELSE b.off]
Direct(t) == ~t.indirect /\ ~t.runtime

(***************************************************************************)
(* Types of expressions.                                                   *)
(***************************************************************************)
Comparisons == {"==", "!=", "<", ">", "<=", ">="}
Shifts == {"<<", ">>"}

\* The type two integer types meet in: none for a bool.  The compiler refuses
\* operands of different signs before it asks.
Promoted(a, b) == IF SizeOf[a] >= SizeOf[b] THEN a ELSE b
WorkType(l, r) ==
  CASE l.sh.d > 0 \/ r.sh.d > 0 -> NoType
    [] ~Promotable(l.sh.t) \/ ~Promotable(r.sh.t) -> NoType
    [] IsLit(l) /\ ~IsLit(r) -> r.sh.t
    [] IsLit(r) /\ ~IsLit(l) -> l.sh.t
    [] OTHER -> Promoted(l.sh.t, r.sh.t)
CompoundType(t, r) ==
  IF ~Promotable(t) \/ ~Promotable(r.sh.t) \/ IsLit(r) THEN t
  ELSE Promoted(t, r.sh.t)
OperandType(l, r) == IF WorkType(l, r) = NoType THEN l.sh.t ELSE WorkType(l, r)

BinaryType(op, l, r) ==
  CASE op \in Comparisons \cup {"&&", "||"} -> "bool"
    [] op \in {"+", "-"} /\ l.sh.d > 0 -> l.sh.t
    [] op = "+" /\ r.sh.d > 0 -> r.sh.t
    [] op \in Shifts -> IF IsLit(l) /\ Promotable(r.sh.t) THEN r.sh.t ELSE l.sh.t
    [] OTHER -> OperandType(l, r)

RECURSIVE Typed(_, _)
TypedAll(es, c) == [i \in DOMAIN es |-> Typed(es[i], c)]
TypedPlace(e, c) ==
  LET pl == Target(e, c) IN [e EXCEPT !.pl = pl, !.sh = pl.sh]
Typed(e, c) ==
  LET fst == CASE e.k = "bin" -> Typed(e.l, c)
               [] e.k = "asg" -> Typed(e.lv, c)
               [] e.k \in {"inc", "addr"} -> Typed(e.lv, c)
               [] e.k = "tern" -> Typed(e.a, c)
               [] e.k = "icall" -> Typed(e.p, c)
      rhs == Typed(e.r, c)
      arg == Typed(e.e, c)
  IN
  CASE e.k = "lit" -> [e EXCEPT !.sh = Plain("int")]
    [] e.k = "lv" -> TypedPlace([e EXCEPT !.sub = TypedAll(@, c)], c)
    [] e.k = "inc" -> [e EXCEPT !.lv = fst, !.sh = fst.sh]
    [] e.k = "addr" -> [e EXCEPT !.lv = fst, !.sh = [fst.sh EXCEPT !.d = @ + 1]]
    [] e.k = "fun" -> [e EXCEPT !.sh = [c.prog.funs[e.f].ret EXCEPT !.d = @ + 1]]
    [] e.k = "cast" -> [e EXCEPT !.e = arg]
    [] e.k = "call" -> [e EXCEPT !.args = TypedAll(@, c), !.sh = c.prog.funs[e.f].ret]
    [] e.k = "icall" ->
         [e EXCEPT !.p = fst, !.args = TypedAll(@, c), !.sh = Plain(fst.sh.t)]
    [] e.k = "comma" -> [e EXCEPT !.l = Typed(@, c), !.r = rhs, !.sh = rhs.sh]
    [] e.k = "tern" -> [e EXCEPT !.c = Typed(@, c), !.a = fst, !.b = Typed(@, c),
                                 !.sh = fst.sh]
    [] e.k = "asg" -> [e EXCEPT !.lv = fst, !.r = rhs, !.sh = Plain(fst.sh.t)]
    [] e.k = "un" -> [e EXCEPT !.e = arg,
                               !.sh = Plain(IF e.op = "!" THEN "bool" ELSE arg.sh.t)]
    [] e.k = "bin" -> [e EXCEPT !.l = fst, !.r = rhs,
                                !.sh = Plain(BinaryType(e.op, fst, rhs))]

ValueSize(e) ==
  IF IsLit(e) THEN (IF e.v <= 255 THEN 1 ELSE 2) ELSE Size(e.sh)

RECURSIVE TypedStmts(_, _)
TypedStmt(s, c) ==
  CASE s.s \in {"break", "continue", "goto"} -> s
    [] s.s \in {"ret", "decl"} -> [s EXCEPT !.e = TypedAll(@, c)]
    [] s.s = "expr" -> [s EXCEPT !.e = Typed(@, c)]
    [] s.s = "if" -> [s EXCEPT !.e = Typed(@, c), !.a = TypedStmts(@, c),
                               !.b = TypedStmts(@, c)]
    [] s.s \in {"while", "do"} ->
         [s EXCEPT !.e = Typed(@, c), !.a = TypedStmts(@, c)]
    [] s.s = "for" -> [s EXCEPT !.i = TypedStmts(@, c), !.e = TypedAll(@, c),
                                !.step = TypedAll(@, c), !.a = TypedStmts(@, c)]
    [] s.s = "switch" ->
         [s EXCEPT !.e = Typed(@, c),
                   !.secs = [i \in DOMAIN @ |->
                               [@[i] EXCEPT !.a = TypedStmts(@, c)]]]
    [] s.s = "label" -> [s EXCEPT !.a = TypedStmts(<<@>>, c)[1]]
    [] s.s = "block" -> [s EXCEPT !.a = TypedStmts(@, c)]
TypedStmts(body, c) == [i \in DOMAIN body |-> TypedStmt(body[i], c)]
TypedProgram(prog) ==
  [prog EXCEPT !.funs = [f \in DOMAIN @ |->
     [@[f] EXCEPT !.body = TypedStmts(@, Context(prog, f))]]]
=============================================================================
