------------------------------ MODULE Meaning ------------------------------
(***************************************************************************)
(* What a program means, without a stack, a frame or an address: the       *)
(* reference the compiled code is compared with.  An object is an activation *)
(* with a name (activation 0 holds the data), a place is an element of an  *)
(* object, and a pointer is a place.  An operation is carried out in the   *)
(* type its operands meet in; a value is reduced to a type where it is     *)
(* stored, returned or compared.                                           *)
(***************************************************************************)
EXTENDS Typing

LOCAL INSTANCE TLC

\* A state st: the values of the places written so far (others hold 0) and
\* the number of the next activation.  An evaluation gives [v, st], an
\* execution [sig, st], where sig says how the statement ended.
At0(st, pl) == IF pl \in DOMAIN st.mem THEN st.mem[pl] ELSE 0
Put0(st, pl, v) == [st EXCEPT !.mem = (pl :> v) @@ @]

Reduced(t, v) ==
  LET m == 256 ^ SizeOf[t]
      r == v % m
  IN  IF Signed(t) /\ r >= m \div 2 THEN r - m ELSE r
Fit(sh, v) == IF sh.d > 0 THEN v ELSE Reduced(sh.t, v)

\* The value of an expression, or the outcome of a list of statements.
RECURSIVE Mean(_, _, _, _)
Eval(e, st, env) == Mean("value", e, st, env)
Run(body, st, env) == Mean("run", body, st, env)

(***************************************************************************)
(* Places.                                                                 *)
(***************************************************************************)
ObjectOf(lv, env) ==
  IF lv.pl.at = "abs" THEN <<0, lv.pl.of, lv.n>> ELSE <<env.act, env.fn, lv.n>>
\* Follow n pointers from a place.
RECURSIVE Chase(_, _, _)
Chase(st, pl, n) == IF n = 0 THEN pl ELSE Chase(st, At0(st, pl), n - 1)
Base(lv, st, env) ==
  Chase(st, <<ObjectOf(lv, env), 0>>, lv.deref + (IF lv.pl.ref THEN 1 ELSE 0))
\* From the base, the element with the index i; a pointer is followed first.
Element(lv, base, i) ==
  LET at == IF lv.pl.bsh.d > lv.deref THEN At0(i.st, base) ELSE base
  IN  [v |-> <<at[1], at[2] + Reduced(lv.sub[1].sh.t, i.v)>>, st |-> i.st]
PlaceOf(lv, st, env) ==
  IF lv.sub = << >> THEN [v |-> Base(lv, st, env), st |-> st]
  ELSE Element(lv, Base(lv, st, env), Eval(lv.sub[1], st, env))

(***************************************************************************)
(* Operators.                                                              *)
(***************************************************************************)
Abs0(v) == IF v < 0 THEN - v ELSE v
Div0(a, b) == LET q == Abs0(a) \div Abs0(b)
              IN  IF (a < 0) # (b < 0) THEN - q ELSE q
RECURSIVE BitsOf(_, _, _, _)
BitsOf(op, a, b, n) ==
  IF n = 0 THEN 0
  ELSE LET x == a % 2
           y == b % 2
       IN  (CASE op = "&" -> Least(x, y) [] op = "|" -> Greatest(x, y)
              [] op = "^" -> IF x = y THEN 0 ELSE 1)
           + 2 * BitsOf(op, a \div 2, b \div 2, n - 1)
Apply(op, a, b) ==
  CASE op = "+" -> a + b [] op = "-" -> a - b [] op = "*" -> a * b
    [] op = "/" -> Div0(a, b) [] op = "%" -> a - b * Div0(a, b)
    [] op = "<<" -> a * 2 ^ b [] op = ">>" -> a \div 2 ^ b
    [] op \in {"&", "|", "^"} -> BitsOf(op, a, b, 16)
Compared(op, a, b) ==
  CASE op = "==" -> a = b [] op = "!=" -> a # b [] op = "<" -> a < b
    [] op = ">" -> a > b [] op = "<=" -> a <= b [] op = ">=" -> a >= b
Moved(pl, op, k) == <<pl[1], IF op = "+" THEN pl[2] + k ELSE pl[2] - k>>
\* a op b, both reduced to w first; lsh and rt are the operands' own types.
Combined(op, lsh, a, w, rt, b) ==
  IF lsh.d > 0 THEN Moved(a, op, Reduced(rt, b))
  ELSE Reduced(w, Apply(op, Reduced(w, a),
                        Reduced(IF op \in Shifts THEN rt ELSE w, b)))

IsTrue(e, v) == IF IsLit(e) THEN v # 0 ELSE e.sh.d > 0 \/ Reduced(e.sh.t, v) # 0
Decided(e, r) == [v |-> IsTrue(e, r.v), st |-> r.st]
Truth(e, st, env) == Decided(e, Eval(e, st, env))
Bit(b) == IF b THEN 1 ELSE 0

\* The right operand is looked at only when the left one does not decide.
LogicalValue(e, l, env) ==
  LET r == IF l.v = (e.op = "||") THEN l ELSE Truth(e.r, l.st, env)
  IN  [v |-> Bit(r.v), st |-> r.st]
ComparedValue(e, l, r) ==
  LET by(v) == IF e.l.sh.d > 0 THEN v ELSE Reduced(OperandType(e.l, e.r), v)
  IN  Bit(Compared(e.op, by(l), by(r)))
ComputedValue(e, l, r) ==
  Combined(e.op, e.l.sh, l, e.sh.t,
           IF ~IsLit(e.r) THEN e.r.sh.t ELSE IF e.l.sh.d > 0 THEN "int" ELSE e.sh.t,
           r)
OfBoth(e, l, r) ==
  [v |-> IF e.op \in Comparisons THEN ComparedValue(e, l.v, r.v)
         ELSE ComputedValue(e, l.v, r.v),
   st |-> r.st]
AfterLeft(e, l, env) == OfBoth(e, l, Eval(e.r, l.st, env))
BinaryValue(e, st, env) ==
  IF e.op \in {"&&", "||"} THEN LogicalValue(e, Truth(e.l, st, env), env)
  ELSE AfterLeft(e, Eval(e.l, st, env), env)

\* What is copied from an expression: an array gives the place it starts at.
IsArray(e) == e.k = "lv" /\ e.sh.d = 0 /\ e.sh.n > 0
Source(e, st, env) == IF IsArray(e) THEN PlaceOf(e, st, env) ELSE Eval(e, st, env)

(***************************************************************************)
(* Calls: a new activation, its parameters given in order.                 *)
(***************************************************************************)
Given(par, f, a, env) ==
  Put0(a.st, <<<<IF par.sym THEN 0 ELSE env.next, f, par.name>>, 0>>,
       IF par.ref THEN a.v ELSE Fit(Decayed(par.sh), a.v))
Actual(par, a, st, env) ==
  IF par.ref THEN PlaceOf(a, st, env) ELSE Source(a, st, env)
RECURSIVE Actuals(_, _, _, _, _)
Actuals(e, f, i, st, env) ==
  LET par == env.prog.funs[f].params[i]
  IN  IF i > Len(e.args) THEN st
      ELSE Actuals(e, f, i + 1, Given(par, f, Actual(par, e.args[i], st, env), env),
                   env)
Result(f, act, out) == [v |-> At0(out.st, <<<<act, f, "$$">>, 0>>), st |-> out.st]
Invoked(e, f, st, env) ==
  LET given == Actuals(e, f, 1, [st EXCEPT !.next = @ + 1],
                       [env EXCEPT !.next = st.next])
  IN  Result(f, st.next,
             Run(env.prog.funs[f].body, given,
                 [prog |-> env.prog, fn |-> f, act |-> st.next, next |-> 0]))

(***************************************************************************)
(* Assignments.                                                            *)
(***************************************************************************)
Kept(pl, v) == [v |-> v, st |-> Put0(pl.st, pl.v, v)]
NewValue(e, sh, old, r) ==
  Fit(sh, IF e.op = ":=" THEN r
          ELSE Combined(e.op, sh, old,
                        IF e.op \in Shifts THEN sh.t ELSE CompoundType(sh.t, e.r),
                        IF ~IsLit(e.r) THEN e.r.sh.t
                        ELSE IF sh.d > 0 THEN "int" ELSE sh.t, r))
Into(e, r, pl) == Kept(pl, NewValue(e, e.lv.sh, At0(pl.st, pl.v), r.v))
AssignedFrom(e, r, env) == Into(e, r, PlaceOf(e.lv, r.st, env))
Assigned(e, st, env) == AssignedFrom(e, Source(e.r, st, env), env)
NextValue(e, old) ==
  LET op == IF e.up THEN "+" ELSE "-"
  IN  IF e.sh.d > 0 THEN Moved(old, op, 1) ELSE Reduced(e.sh.t, Apply(op, old, 1))
SteppedAt(e, pl, old) ==
  [Kept(pl, NextValue(e, old)) EXCEPT !.v = IF e.pre THEN @ ELSE old]
AtPlace(e, pl) == SteppedAt(e, pl, At0(pl.st, pl.v))
Stepped(e, st, env) == AtPlace(e, PlaceOf(e.lv, st, env))

Loaded(pl) == [v |-> At0(pl.st, pl.v), st |-> pl.st]
ValueOf(e, st, env) ==
  CASE e.k = "lit" -> [v |-> e.v, st |-> st]
    [] e.k = "fun" -> [v |-> <<"function", e.f>>, st |-> st]
    [] e.k = "lv" -> Loaded(PlaceOf(e, st, env))
    [] e.k = "inc" -> Stepped(e, st, env)
    [] e.k = "addr" -> PlaceOf(e.lv, st, env)
    [] e.k = "cast" -> LET r == Eval(e.e, st, env)
                       IN  [r EXCEPT !.v = Fit(e.sh, r.v)]
    [] e.k = "call" -> Invoked(e, e.f, st, env)
    [] e.k = "icall" -> Invoked(e, Eval(e.p, st, env).v[2], st, env)
    [] e.k = "asg" -> Assigned(e, st, env)
    [] e.k = "comma" -> Eval(e.r, Eval(e.l, st, env).st, env)
    [] e.k = "tern" -> LET t == Truth(e.c, st, env)
                       IN  Eval(IF t.v THEN e.a ELSE e.b, t.st, env)
    [] e.k = "un" -> LET r == Eval(e.e, st, env) IN
         IF e.op = "!" THEN [r EXCEPT !.v = Bit(~IsTrue(e.e, @))]
         ELSE [r EXCEPT !.v = CASE e.op = "-" -> - r.v
                                [] e.op = "~" -> -1 - r.v [] e.op = "+" -> r.v]
    [] e.k = "bin" -> BinaryValue(e, st, env)

(***************************************************************************)
(* Statements.  me is the label a loop or switch stands under.             *)
(***************************************************************************)
Ended(k, to, st) == [sig |-> [k |-> k, to |-> to], st |-> st]
On(st) == Ended("on", "", st)
Ours(sig, k, me) == sig.k = k /\ sig.to \in {"", me}
LoopTest(s, st, env) ==
  IF s.s # "for" THEN Truth(s.e, st, env)
  ELSE IF s.e = << >> THEN [v |-> TRUE, st |-> st] ELSE Truth(s.e[1], st, env)
LoopStep(s, st, env) ==
  IF s.s = "for" /\ s.step # << >> THEN Eval(s.step[1], st, env).st ELSE st
\* One turn of the body, after a test that gave t (a do has none before the
\* first turn).
RECURSIVE Turn(_, _, _, _)
AfterTurn(s, me, out, env) ==
  LET st == LoopStep(s, out.st, env)
  IN  CASE out.sig.k = "on" \/ Ours(out.sig, "continue", me) ->
             Turn(s, me, LoopTest(s, st, env), env)
        [] Ours(out.sig, "break", me) -> On(out.st)
        [] OTHER -> out
Turn(s, me, t, env) ==
  IF t.v THEN AfterTurn(s, me, Run(s.a, t.st, env), env) ELSE On(t.st)
Loop(s, me, st, env) ==
  Turn(s, me, IF s.s = "do" THEN [v |-> TRUE, st |-> st] ELSE LoopTest(s, st, env),
       env)

Fits(b, v, t) ==
  \/ Len(b) = 1 /\ Reduced(t, b[1]) = v
  \/ Len(b) = 2 /\ v >= Least(b[1], b[2]) /\ v <= Greatest(b[1], b[2])
Chosen(secs, v, t) ==
  LET hits == {i \in DOMAIN secs : Fits(secs[i].case, v, t)}
      others == {i \in DOMAIN secs : secs[i].case = << >>}
  IN  IF hits # {} THEN CHOOSE i \in hits : \A j \in hits : i <= j
      ELSE IF others # {} THEN CHOOSE i \in others : \A j \in others : j <= i
      ELSE Len(secs) + 1
From(secs, i) ==
  FlattenSeq([j \in 1 .. Len(secs) - i + 1 |-> secs[i + j - 1].a])
Left(out, me) == IF Ours(out.sig, "break", me) THEN On(out.st) ELSE out
Selected(s, me, r, env) ==
  Left(Run(From(s.secs, Chosen(s.secs, Reduced(s.e.sh.t, r.v), s.e.sh.t)),
           r.st, env), me)

Stores(r, sh, x, env) == Put0(r.st, <<<<env.act, env.fn, x>>, 0>>, Fit(sh, r.v))
Branches(s, t, env) == Run(IF t.v THEN s.a ELSE s.b, t.st, env)
RECURSIVE Exec(_, _, _, _)
Exec(s, me, st, env) ==
  CASE s.s = "ret" ->
         Ended("return", "",
               IF s.e = << >> THEN st
               ELSE Stores(Eval(s.e[1], st, env), env.prog.funs[env.fn].ret, "$$",
                           env))
    [] s.s = "decl" ->
         On(IF s.static \/ s.e = << >> THEN st
            ELSE Stores(Source(s.e[1], st, env), s.sh, s.n, env))
    [] s.s = "expr" -> On(Eval(s.e, st, env).st)
    [] s.s = "if" -> Branches(s, Truth(s.e, st, env), env)
    [] s.s \in {"while", "do"} -> Loop(s, me, st, env)
    [] s.s = "for" -> Loop(s, me, Run(s.i, st, env).st, env)
    [] s.s = "switch" -> Selected(s, me, Eval(s.e, st, env), env)
    [] s.s \in {"break", "continue", "goto"} -> Ended(s.s, s.to, st)
    [] s.s = "label" -> Exec(s.a, s.n, st, env)
    [] s.s = "block" -> Run(s.a, st, env)
\* From the i-th statement of a list on; a goto to a label of the list goes
\* on from there.
Marks(body, sig) ==
  {j \in DOMAIN body : /\ sig.k = "goto"
                       /\ body[j].s = "label" /\ body[j].n = sig.to}
RECURSIVE RunFrom(_, _, _, _)
Proceed(body, i, out, env) ==
  IF out.sig.k = "on" THEN RunFrom(body, i + 1, out.st, env)
  ELSE IF Marks(body, out.sig) = {} THEN out
  ELSE RunFrom(body, CHOOSE j \in Marks(body, out.sig) : TRUE, out.st, env)
RunFrom(body, i, st, env) ==
  IF i > Len(body) THEN On(st)
  ELSE Proceed(body, i, Exec(body[i], "", st, env), env)
Mean(what, x, st, env) ==
  CASE what = "value" -> ValueOf(x, st, env)
    [] what = "run" -> RunFrom(x, 1, st, env)
=============================================================================
