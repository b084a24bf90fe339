------------------------------ MODULE Supported ------------------------------
(***************************************************************************)
(* The programs the code generator is right about, as far as Typing and    *)
(* Lowering can express them.  Each operator excludes one thing the        *)
(* generator does wrong, with the lines that do it; programs are typed.    *)
(***************************************************************************)
EXTENDS Typing

(***************************************************************************)
(* Parts of expressions and statements.                                    *)
(***************************************************************************)
\* The operands whose value is wanted, and the one evaluated for its effect.
Wanted(e) ==
  CASE e.k \in {"lit", "fun"} -> {}
    [] e.k = "lv" -> Range(e.sub)
    [] e.k \in {"inc", "addr"} -> {e.lv}
    [] e.k \in {"cast", "un"} -> {e.e}
    [] e.k = "call" -> Range(e.args)
    [] e.k = "icall" -> {e.p} \cup Range(e.args)
    [] e.k = "comma" -> {e.r}
    [] e.k = "bin" -> {e.l, e.r}
    [] e.k = "tern" -> {e.c, e.a, e.b}
    [] e.k = "asg" -> {e.lv, e.r}
Effected(e) == IF e.k = "comma" THEN {e.l} ELSE {}
RECURSIVE Within(_)
Within(e) == {e} \cup UNION {Within(x) : x \in Wanted(e) \cup Effected(e)}
Calls(e) == {x \in Within(e) : x.k \in {"call", "icall"}}
HasCall(e) == Calls(e) # {}

SectionsOf(s) == FlattenSeq([i \in DOMAIN s.secs |-> s.secs[i].a])
Under(s) ==
  CASE s.s = "if" -> s.a \o s.b
    [] s.s \in {"while", "do", "block"} -> s.a
    [] s.s = "for" -> s.i \o s.a
    [] s.s = "label" -> <<s.a>>
    [] s.s = "switch" -> SectionsOf(s)
    [] OTHER -> << >>
RECURSIVE All(_)
All(body) == FlattenSeq([i \in DOMAIN body |-> <<body[i]>> \o All(Under(body[i]))])
\* The expressions a statement wants the value of, and those it only carries out.
ValuesIn(s) ==
  CASE s.s \in {"ret", "decl", "for"} -> Range(s.e)
    [] s.s \in {"if", "while", "do", "switch"} -> {s.e}
    [] OTHER -> {}
DoneIn(s) == CASE s.s = "expr" -> {s.e} [] s.s = "for" -> Range(s.step)
               [] OTHER -> {}
InAll(body, of(_)) == LET all == All(body) IN UNION {of(all[i]) : i \in DOMAIN all}
Expressions(body) ==
  UNION {Within(e) : e \in InAll(body, ValuesIn) \cup InAll(body, DoneIn)}
InProgram(prog, of(_)) == UNION {of(prog.funs[f].body) : f \in DOMAIN prog.funs}
AllIn(prog) == InProgram(prog, Expressions)
Carried(prog) ==
  InProgram(prog, LAMBDA body : InAll(body, DoneIn))
  \cup UNION {Effected(e) : e \in AllIn(prog)}
AtRoot(prog) == InProgram(prog, LAMBDA body : InAll(body, ValuesIn))
Valued(prog) == AtRoot(prog) \cup UNION {Wanted(e) : e \in AllIn(prog)}

\* The expressions that write their value to the very place e is told to.
RECURSIVE Straight(_)
Straight(e) ==
  CASE e.k \in {"lv", "inc", "asg"} -> {e}
    [] e.k = "tern" -> Straight(e.a) \cup Straight(e.b)
    [] e.k = "comma" -> Straight(e.r)
    [] e.k = "un" /\ e.op # "!" -> Straight(e.e)
    [] OTHER -> {}

(***************************************************************************)
(* The frame.  compile_expr_flow.c:489-511: the value of an expression     *)
(* statement lies in bytes that are pushed but not counted in ctx->locals, *)
(* so that a call below it has its arguments in the wrong place; an        *)
(* element by itself (a[f(i)];) is right.                                  *)
(***************************************************************************)
RECURSIVE Loose(_)
Loose(e) ==
  CASE e.k = "lv" -> FALSE
    [] e.k = "tern" -> HasCall(e.c) \/ Loose(e.a) \/ Loose(e.b)
    [] e.k = "comma" -> HasCall(e.l) \/ Loose(e.r)
    [] e.k = "un" /\ e.op # "!" -> Loose(e.e)
    [] OTHER -> HasCall(e)
StatementsCounted(prog) ==
  \A e \in Carried(prog) : e.k \in {"call", "icall", "asg"} \/ ~Loose(e)

\* :926-936, 946-950: a compound assignment reads its target before the
\* temporaries it has pushed are counted.
CompoundCounted(prog) ==
  \A e \in AllIn(prog) : e.k = "asg" /\ e.op # ":=" => ~HasCall(e.lv)

\* :549-560: what is assigned to a symbol passes through bytes that are counted
\* by the copy from an lvalue but not pushed, and that ++ uses for its own
\* temporary; of two equal types it is copied without them, and x++ is x.
Verbatim(e, lv) == lv.pl.n = e.lv.pl.n /\ lv.pl.sh.t = e.lv.pl.sh.t
ToSymbolSafely(e) ==
  \/ e.r.k = "lv" /\ Verbatim(e, e.r)
  \/ /\ \A x \in Straight(e.r) :
          CASE x.k = "lv" -> ~HasCall(x)
            [] x.k = "asg" -> ~HasCall(x.lv)
            [] x.k = "inc" -> x.pre
     /\ e.r.k = "inc" => ~Verbatim(e, e.r.lv)
ToSymbol(e) == e.op = ":=" /\ Direct(e.lv.pl) /\ e.lv.pl.at = "abs"
SymbolsSafe(prog) ==
  \A e \in AllIn(prog) : e.k = "asg" /\ ToSymbol(e) => ToSymbolSafely(e)

(***************************************************************************)
(* The place of a target is computed once to read and once to write it     *)
(* (++, compound assignment), and again where an assignment is a value:    *)
(* its index must come out the same, with no effect.                       *)
(***************************************************************************)
Changes(e) == \E x \in Within(e) : x.k \in {"asg", "inc"}
Quiet(prog, f) ==
  \A e \in Expressions(prog.funs[f].body) : e.k \notin {"asg", "inc", "call", "icall"}
SameTwice(prog, lv) ==
  ~Changes(lv) /\ \A x \in Calls(lv) : x.k = "call" /\ Quiet(prog, x.f)
Reads(lv) == {x.n : x \in {y \in UNION {Within(i) : i \in Range(lv.sub)} : y.k = "lv"}}
SameAfter(prog, lv) ==
  SameTwice(prog, lv) /\ (lv.pl.indirect => Reads(lv) = {}) /\ lv.n \notin Reads(lv)
\* k := a[k]++ writes k before it computes the place again.
SameBehind(e) ==
  \A x \in Straight(e.r) : x.k = "inc" /\ ~x.pre => e.lv.n \notin Reads(x.lv)
TargetsSteady(prog) ==
  /\ \A e \in AllIn(prog) :
       e.k = "inc" \/ (e.k = "asg" /\ e.op # ":=") => SameTwice(prog, e.lv)
  /\ \A e \in Valued(prog) : e.k = "asg" => SameAfter(prog, e.lv)
  /\ \A e \in AllIn(prog) : e.k = "asg" /\ e.op = ":=" => SameBehind(e)

(***************************************************************************)
(* compile_call.c:359-361, ABI.txt:3,10-12: the scratch of a parameter     *)
(* with a symbol lies above the argument area, where the callee expects    *)
(* the end of it.                                                          *)
(***************************************************************************)
ScratchAlone(prog) ==
  \A f \in DOMAIN prog.funs :
    LET fun == prog.funs[f] IN
    (\E par \in Range(fun.params) : par.sym)
      => Size(fun.ret) = 0 /\ \A par \in Range(fun.params) : par.sym

\* compile_expr_slot.c:472: the name of a ref parameter gives its pointer.
RefsReadElsewhere(prog) ==
  LET read == AtRoot(prog)
              \cup UNION {IF e.k \in {"inc", "addr"} THEN {}
                          ELSE IF e.k = "asg"
                          THEN IF ToSymbol(e) /\ e.r.k = "lv" /\ Verbatim(e, e.r)
                               THEN {} ELSE {e.r}
                          ELSE IF e.k = "call"
                          THEN {e.args[i] : i \in {j \in DOMAIN e.args :
                                                     ~prog.funs[e.f].params[j].ref}}
                          ELSE Wanted(e) : e \in AllIn(prog)}
  IN  \A e \in read : ~(Bare(e) /\ e.pl.ref)

(***************************************************************************)
(* compile_stmt.c:1066-1070: only the end of a switch and a break of it    *)
(* give back what it pushed.  A way out (or in) is a return, a goto, a     *)
(* labelled break or a continue; in is TRUE in a switch, loop in a loop of *)
(* it, names and marks are the loops and labels to be had without leaving. *)
(***************************************************************************)
RECURSIVE MarksIn(_)
MarksIn(body) ==
  UNION {LET s == body[i] IN
         (IF s.s = "label" THEN {s.n} ELSE {})
         \cup (IF s.s = "switch" THEN {} ELSE MarksIn(Under(s))) : i \in DOMAIN body}
Loops == {"while", "do", "for"}
RECURSIVE Escapes(_, _)
EscapesBy(s, c) ==
  CASE s.s = "ret" -> c.in
    [] s.s = "goto" -> s.to \notin c.marks
    [] s.s = "break" -> s.to # "" /\ s.to \notin c.breaks
    [] s.s = "continue" -> IF s.to = "" THEN c.in /\ ~c.loop ELSE s.to \notin c.loops
    [] s.s = "label" ->
         Escapes(<<s.a>>,
                 IF s.a.s \in Loops
                 THEN [c EXCEPT !.breaks = @ \cup {s.n}, !.loops = @ \cup {s.n}]
                 ELSE IF s.a.s = "switch" THEN [c EXCEPT !.name = {s.n}] ELSE c)
    [] s.s = "switch" ->
         Escapes(SectionsOf(s), [in |-> TRUE, loop |-> FALSE, loops |-> {},
                                 breaks |-> c.name, name |-> {},
                                 marks |-> MarksIn(SectionsOf(s))])
    [] s.s \in Loops -> Escapes(Under(s), [c EXCEPT !.loop = TRUE])
    [] OTHER -> Escapes(Under(s), c)
Escapes(body, c) == \E i \in DOMAIN body : EscapesBy(body[i], c)
SwitchesEnd(prog) ==
  \A f \in DOMAIN prog.funs :
    LET body == prog.funs[f].body IN
    ~Escapes(body, [in |-> FALSE, loop |-> FALSE, loops |-> {}, breaks |-> {},
                    name |-> {}, marks |-> MarksIn(body)])

Right(prog) ==
  /\ StatementsCounted(prog) /\ CompoundCounted(prog) /\ SymbolsSafe(prog)
  /\ TargetsSteady(prog) /\ ScratchAlone(prog) /\ RefsReadElsewhere(prog)
  /\ SwitchesEnd(prog)
=============================================================================
