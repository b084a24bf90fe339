------------------------------ MODULE MCCodegen ------------------------------
(***************************************************************************)
(* Programs for the code generator.  Each declares the globals x and y,    *)
(* the input, and r, s and t, the results.                                 *)
(***************************************************************************)
EXTENDS Codegen

\* Expressions.
Ref(x, n, sub) ==
  [k |-> "lv", sh |-> NoType, pl |-> NoType, n |-> x, deref |-> n, sub |-> sub]
N(v) == [k |-> "lit", sh |-> NoType, v |-> v]
V(x) == Ref(x, 0, << >>)
El(x, i) == Ref(x, 0, <<i>>)
To(x) == Ref(x, 1, << >>)
B(l, op, r) == [k |-> "bin", sh |-> NoType, op |-> op, l |-> l, r |-> r]
U(op, e) == [k |-> "un", sh |-> NoType, op |-> op, e |-> e]
Fn(f) == [k |-> "fun", sh |-> NoType, f |-> f]
Cal(f, args) == [k |-> "call", sh |-> NoType, f |-> f, args |-> args]
Via(p, like, args) ==
  [k |-> "icall", sh |-> NoType, p |-> V(p), like |-> like, args |-> args]
As(lv, op, e) == [k |-> "asg", sh |-> NoType, op |-> op, lv |-> lv, r |-> e]   \* op or ":="
Step1(lv, pre, up) == [k |-> "inc", sh |-> NoType, lv |-> lv, pre |-> pre, up |-> up]
Adr(lv) == [k |-> "addr", sh |-> NoType, lv |-> lv]
As_(t, e) == [k |-> "cast", sh |-> Plain(t), e |-> e]
Comma(l, r) == [k |-> "comma", sh |-> NoType, l |-> l, r |-> r]
Tern(c, a, b) == [k |-> "tern", sh |-> NoType, c |-> c, a |-> a, b |-> b]

\* Statements.
X(e) == [s |-> "expr", e |-> e]
Set(x, e) == X(As(V(x), ":=", e))
R(e) == [s |-> "ret", e |-> <<e>>]
Local(t, x, e) == [s |-> "decl", n |-> x, sh |-> Plain(t), static |-> FALSE, e |-> <<e>>]
Array(t, x, n) == [s |-> "decl", n |-> x, sh |-> [t |-> t, d |-> 0, n |-> n],
                   static |-> FALSE, e |-> << >>]
Pointer(t, x, e) == [s |-> "decl", n |-> x, sh |-> [t |-> t, d |-> 1, n |-> 0],
                     static |-> FALSE, e |-> <<e>>]
Static(t, x) == [s |-> "decl", n |-> x, sh |-> Plain(t), static |-> TRUE, e |-> << >>]
IfElse(e, a, b) == [s |-> "if", e |-> e, a |-> a, b |-> b]
While_(e, a) == [s |-> "while", e |-> e, a |-> a]
Do(a, e) == [s |-> "do", e |-> e, a |-> a]
For_(i, e, step, a) == [s |-> "for", i |-> <<i>>, e |-> <<e>>, step |-> <<step>>, a |-> a]
Break(l) == [s |-> "break", to |-> l]
Continue(l) == [s |-> "continue", to |-> l]
Goto(l) == [s |-> "goto", to |-> l]
Lab(l, a) == [s |-> "label", n |-> l, a |-> a]
Switch_(e, secs) == [s |-> "switch", e |-> e, secs |-> secs]
Case_(b, a) == [case |-> b, a |-> a]

\* Functions and data.
P(t, x) == [name |-> x, sh |-> Plain(t), ref |-> FALSE, sym |-> FALSE]
PRef(t, x) == [P(t, x) EXCEPT !.ref = TRUE]
PSym(t, x) == [P(t, x) EXCEPT !.sym = TRUE]
PPtr(t, x) == [P(t, x) EXCEPT !.sh.d = 1]
F(t, params, body) == [ret |-> Plain(t), params |-> params, body |-> body]
Datum(of, t, x) == [of |-> of, name |-> x, sh |-> Plain(t), ref |-> FALSE]
Prog(t, more, order, funs) ==
  [data |-> [i \in 1 .. 5 |-> Datum("", t[i], <<"x", "y", "r", "s", "t">>[i])] \o more,
   order |-> order, funs |-> funs]
Bytes5 == <<"u8", "u8", "u8", "u8", "u8">>
Words5 == <<"u8", "u8", "u16", "u16", "u16">>
Signs5 == <<"s8", "s8", "int", "int", "int">>

Operators == Prog(Words5, << >>, <<"main">>, [main |-> F("void", << >>, <<
  Local("u16", "w", B(V("x"), "+", N(3))),
  Set("r", B(B(V("x"), "*", V("y")), "+", B(V("w"), "<<", N(2)))),
  Set("s", B(B(V("w"), "^", V("r")), "-", B(V("x"), "&", N(6)))),
  Set("t", B(B(V("r"), "/", B(V("y"), "|", N(1))), "%", N(7))),
  X(As(V("w"), "*", V("y"))), X(As(V("t"), "+", V("w"))),
  X(As(V("r"), "<<", N(1))), X(As(V("s"), "%", N(50)))
  >>)])

Signed_ == Prog(Signs5, << >>, <<"main">>, [main |-> F("void", << >>, <<
  Local("int", "w", V("x")),
  Set("r", B(B(V("w"), "*", V("y")), "/", N(3))),
  IfElse(B(V("x"), "<", V("y")), <<Set("s", U("-", V("w")))>>,
         <<Set("s", U("~", V("x")))>>),
  Set("t", Tern(B(V("w"), ">=", N(0)), B(V("w"), ">>", N(1)),
                As_("int", V("y")))),
  X(As(V("t"), "-", V("x")))
  >>)])

\* Nested calls with parameters and results of both widths.
Calls == Prog(Words5, << >>, <<"main", "mix", "gcd">>, [
  main |-> F("void", << >>, <<
    Local("u8", "k", N(9)),
    Set("r", Cal("mix", <<Cal("mix", <<V("x"), N(300)>>), Cal("gcd", <<V("x"), V("y")>>)>>)),
    Set("s", B(V("k"), "+", Cal("gcd", <<Cal("gcd", <<V("y"), N(6)>>), V("k")>>))),
    X(Cal("gcd", <<V("y"), V("x")>>)),
    Set("t", B(Cal("mix", <<V("k"), V("s")>>), "-", V("r"))) >>),
  mix |-> F("u16", <<P("u8", "a"), P("u16", "b")>>, <<
    Local("u16", "w", V("a")),
    R(B(B(V("w"), "*", N(3)), "+", V("b"))) >>),
  gcd |-> F("u8", <<P("u8", "a"), P("u8", "b")>>, <<
    IfElse(B(V("b"), "==", N(0)), <<R(V("a"))>>, << >>),
    R(Cal("gcd", <<V("b"), B(V("a"), "%", V("b"))>>)) >>)])

Loops == Prog(Bytes5, << >>, <<"main">>, [main |-> F("void", << >>, <<
  Local("u8", "i", N(7)), Local("u8", "j", N(7)),
  Lab("outer", For_(Set("i", N(0)), B(V("i"), "<", N(5)), Step1(V("i"), FALSE, TRUE), <<
    IfElse(B(V("i"), "==", V("x")), <<Continue("")>>, << >>),
    For_(Set("j", N(0)), B(V("j"), "<", N(3)), As(V("j"), "+", N(1)), <<
      IfElse(B(V("j"), ">", V("i")), <<Continue("outer")>>, << >>),
      IfElse(B(B(V("i"), "+", V("j")), "==", N(5)), <<Break("outer")>>, << >>),
      X(As(V("r"), "+", B(V("i"), "*", N(2)))) >>) >>)),
  While_(B(B(V("s"), "<", N(9)), "&&", U("!", B(V("s"), "==", V("y")))),
         <<X(Step1(V("s"), TRUE, TRUE))>>),
  Do(<<X(Step1(V("t"), FALSE, TRUE)),
       IfElse(B(V("t"), "==", N(2)), <<Continue("")>>, << >>),
       X(As(V("r"), "^", V("t")))>>,
     B(B(V("t"), "<", N(3)), "||", B(V("t"), "<", V("x"))))
  >>)])

Pointers == Prog(Words5, << >>, <<"main", "total">>, [
  main |-> F("void", << >>, <<
    Array("u16", "a", 3), Pointer("u16", "p", Adr(El("a", N(0)))),
    For_(Local("u8", "i", N(0)), B(V("i"), "<", N(3)), Step1(V("i"), FALSE, TRUE), <<
      X(As(El("a", V("i")), ":=", B(V("i"), "*", N(100)))),
      X(As(El("p", V("i")), "+", V("x"))) >>),
    X(Step1(V("p"), TRUE, TRUE)),
    X(As(To("p"), "-", V("y"))),
    Set("r", To("p")),
    X(As(V("p"), "+", N(1))),
    Set("s", B(To("p"), "+", El("a", B(V("x"), "&", N(1))))),
    X(Step1(El("a", B(V("y"), "%", N(3))), FALSE, TRUE)),
    Set("t", Cal("total", <<V("a"), N(3)>>)) >>),
  total |-> F("u16", <<PPtr("u16", "q"), P("u8", "n")>>, <<
    Local("u16", "w", N(0)), Pointer("u16", "e", B(V("q"), "+", N(1))),
    While_(V("n"), <<X(As(V("w"), "+", To("q"))), X(Step1(V("q"), FALSE, TRUE)),
                     X(Step1(V("n"), FALSE, FALSE))>>),
    X(As(V("w"), "^", To("e"))),
    R(V("w")) >>)])

\* References are written, stepped and passed on.
Refs == Prog(Bytes5, << >>, <<"main", "put", "bump">>, [
  main |-> F("void", << >>, <<
    Local("u8", "k", V("y")),
    X(Cal("put", <<V("k"), V("x")>>)), Set("r", V("k")),
    X(Cal("bump", <<V("s")>>)), X(Cal("bump", <<V("k")>>)), Set("t", V("k")) >>),
  put |-> F("void", <<PRef("u8", "a"), P("u8", "v")>>, <<
    X(As(V("a"), "+", B(V("v"), "+", N(1)))) >>),
  bump |-> F("void", <<PRef("u8", "a")>>, <<
    X(Step1(V("a"), TRUE, TRUE)), X(Cal("put", <<V("a"), N(4)>>)) >>)])

Switches == Prog(Bytes5, << >>, <<"main", "kind">>, [
  main |-> F("void", << >>, <<
    For_(Local("u8", "i", N(0)), B(V("i"), "<=", N(4)), Step1(V("i"), TRUE, TRUE), <<
      Lab("sel", Switch_(B(V("i"), "+", V("x")), <<
        Case_(<<1>>, <<X(As(V("r"), "+", N(1)))>>),
        Case_(<<2, 4>>, <<IfElse(B(V("y"), "==", V("i")), <<Break("sel")>>, << >>),
                          X(As(V("r"), "+", N(10))), Break("")>>),
        Case_(<< >>, <<X(As(V("s"), "+", N(1)))>>),
        Case_(<<6, 5>>, <<Set("t", B(Cal("kind", <<V("i")>>), "+", V("t")))>>) >>)) >>) >>),
  kind |-> F("u8", <<P("u8", "a")>>, <<
    IfElse(B(V("a"), ">", N(2)), <<R(N(3))>>, <<R(N(5))>>) >>)])

Indirect == Prog(Words5, << >>, <<"main", "inc", "dbl">>, [
  main |-> F("void", << >>, <<
    Pointer("u16", "f", Fn("inc")), Local("u16", "w", V("y")),
    IfElse(V("x"), <<Set("f", Fn("dbl"))>>, << >>),
    Set("r", B(Via("f", "inc", <<V("y"), V("w")>>), "+", V("w"))),
    X(Via("f", "inc", <<V("x"), N(5)>>)),
    Set("t", Cal("inc", <<V("y"), Via("f", "inc", <<N(1), V("r")>>)>>)) >>),
  inc |-> F("u16", <<P("u8", "a"), P("u16", "b")>>, <<
    X(As(V("s"), "+", V("b"))), R(B(V("b"), "+", V("a"))) >>),
  dbl |-> F("u16", <<P("u8", "a"), P("u16", "b")>>, <<
    Local("u16", "w", B(V("b"), "+", V("b"))),
    X(As(V("s"), "+", N(1))), R(B(V("w"), "-", V("a"))) >>)])

\* Statics keep their values; a parameter with a symbol of a void function.
Statics == Prog(Words5, <<Datum("count", "u16", "n"), Datum("give", "u8", "v")>>,
  <<"main", "count", "give">>, [
  main |-> F("void", << >>, <<
    Set("r", Cal("count", <<V("x")>>)), X(Cal("count", <<V("y")>>)),
    Set("s", Cal("count", <<N(1)>>)), X(Cal("give", <<B(V("x"), "+", N(2))>>)) >>),
  count |-> F("u16", <<P("u8", "a")>>, <<
    Static("u16", "n"), X(As(V("n"), "+", V("a"))), R(V("n")) >>),
  give |-> F("void", <<PSym("u8", "v")>>, <<Set("t", B(V("v"), "*", V("v")))>>)])

Values == Prog(Bytes5, << >>, <<"main", "noted">>, [
  main |-> F("void", << >>, <<
    Local("u8", "a", N(0)), Local("u8", "b", As(V("a"), ":=", B(V("x"), "+", N(1)))),
    Set("r", Comma(As(V("a"), "+", V("y")), B(V("a"), "-", V("b")))),
    Set("s", B(B(V("x"), "!=", V("y")), "+", U("!", V("x")))),
    IfElse(B(B(V("x"), "||", Cal("noted", <<V("y")>>)), "&&", Cal("noted", <<N(1)>>)),
           <<X(As(V("s"), "+", N(8)))>>, << >>),
    Local("u8", "i", N(0)),
    Lab("again", X(As(V("i"), "+", N(1)))),
    IfElse(B(V("i"), "<", V("b")), <<Goto("again")>>, << >>),
    X(As(V("t"), "+", V("i"))) >>),
  noted |-> F("u8", <<P("u8", "a")>>, <<
    X(As(V("t"), "+", N(16))), R(V("a")) >>)])

\* A ref parameter read by its name, and a switch left for the enclosing loop.
Swap == Prog(Signs5, << >>, <<"main", "swap">>, [
  main |-> F("void", << >>, <<
    Local("int", "a", V("x")), Local("int", "b", V("y")),
    X(Cal("swap", <<V("a"), V("b")>>)), Set("r", V("a")), Set("s", V("b")) >>),
  swap |-> F("void", <<PRef("int", "a"), PRef("int", "b")>>, <<
    Local("int", "t", V("a")), Set("a", V("b")), Set("b", V("t")) >>)])
Skipping == Prog(Bytes5, << >>, <<"main">>, [main |-> F("void", << >>, <<
  For_(Local("u8", "i", N(0)), B(V("i"), "<", N(5)), Step1(V("i"), TRUE, TRUE), <<
    Switch_(V("i"), << Case_(<<2>>, <<Continue("")>>) >>),
    X(As(V("r"), "+", V("i"))) >>) >>)])

(***************************************************************************)
(* A family: each use of an expression with each expression in it.  A call *)
(* of f is counted in s, h has no effect; indexes are 0 or 1; i and j are  *)
(* changed by the expression, k by its use.                                *)
(***************************************************************************)
CallF == Cal("f", <<V("k")>>)
CallH == Cal("h", <<V("k")>>)
InB(i) == El("b", i)
Held == <<
  V("k"), CallF, B(N(1), "-", CallF), B(CallF, "*", V("k")), InB(V("k")), InB(CallF),
  El("w", CallH), Step1(V("i"), FALSE, TRUE), Step1(V("j"), TRUE, TRUE), As(V("i"), ":=", N(1)),
  As(V("i"), "+", Cal("f", <<N(1)>>)), As(InB(CallH), ":=", N(1)), As(InB(CallH), "^", N(1)),
  U("!", CallF), U("+", InB(CallH)), CallH, Cal("f", <<CallF>>), Via("g", "f", <<V("k")>>),
  Comma(CallF, V("k")), Tern(V("x"), CallF, N(1)), Tern(V("x"), InB(CallH), V("k")) >>
Use(e) == <<
  <<Set("r", e)>>, <<Set("t", e)>>, <<Set("k", e)>>, <<Local("u16", "l", e), Set("r", V("l"))>>,
  <<Set("t", El("a", e))>>, <<Set("r", El("a", e))>>, <<Set("r", El("w", e))>>,
  <<X(As(El("a", e), ":=", N(5)))>>, <<X(As(El("w", e), ":=", N(555)))>>, <<X(As(El("p", e), ":=", N(5)))>>,
  <<X(As(El("a", e), "+", N(3)))>>, <<X(As(El("w", e), "+", N(300)))>>,
  <<X(Step1(El("a", e), FALSE, TRUE))>>, <<Set("k", Step1(El("w", e), FALSE, FALSE))>>,
  <<X(e)>>, <<X(El("a", e))>>, <<X(Comma(e, As(V("t"), ":=", N(4))))>>, <<Set("t", Comma(e, V("k")))>>,
  <<Set("t", As(V("k"), ":=", e))>>, <<Set("r", As(El("a", e), ":=", N(3)))>>,
  <<X(As(V("k"), "+", e))>>, <<X(As(El("a", N(1)), "+", e))>>, <<X(As(El("w", V("k")), ":=", e))>>,
  <<Set("t", Cal("two", <<e, V("k")>>))>>, <<Set("t", Cal("two", <<V("k"), e>>))>>, <<Set("r", Via("g", "f", <<e>>))>>,
  <<Set("r", B(V("k"), "*", e))>>, <<Set("t", B(e, "+", El("a", CallF)))>>, <<Set("r", B(El("w", CallF), "-", e))>>, <<Set("t", U("~", e))>>,
  <<Set("t", B(e, "&&", V("k")))>>, <<Set("t", B(V("k"), "==", e))>>, <<Set("r", Tern(e, N(300), N(1)))>>,
  <<IfElse(e, <<Set("t", N(9))>>, <<Set("t", N(8))>>)>>,
  <<While_(e, <<X(As(V("t"), "+", N(1))), Break("")>>)>>,
  <<For_(Set("k", N(0)), B(V("t"), "<", N(1)), e, <<X(Step1(V("t"), TRUE, TRUE))>>)>>,
  <<Switch_(e, <<Case_(<<1>>, <<Set("t", N(9)), Break("")>>), Case_(<<0>>, <<Set("t", N(4))>>)>>)>>,
  <<Set("t", Cal("give", <<V("k"), V("b"), V("w"), V("g")>>))>> >>
More(x) == Datum("", "u8", x)
Returned(u, e) == IF u = Len(Use(e)) THEN e ELSE V("k")
Used(e, u) == Prog(<<"u8", "u8", "u16", "u8", "u8">>,
  <<More("a0"), More("a1"), More("b0"), More("b1"), Datum("", "u16", "ws"), More("ijk")>>,
  <<"main", "f", "h", "two", "give">>, [
  main |-> F("void", << >>, <<
    Array("u8", "a", 2), Array("u8", "b", 2), Array("u16", "w", 2),
    Local("u8", "k", B(V("y"), "&", N(1))), Local("u8", "i", N(0)), Local("u8", "j", N(0)),
    Pointer("u8", "p", Adr(El("a", N(0)))), Pointer("u8", "g", Fn("f")),
    X(As(El("a", N(0)), ":=", N(1))), X(As(El("a", N(1)), ":=", N(0))),
    X(As(InB(N(0)), ":=", N(1))), X(As(InB(N(1)), ":=", N(0))),
    X(As(El("w", N(0)), ":=", N(1))), X(As(El("w", N(1)), ":=", N(0))) >>
    \o Use(e)[u] \o <<
    Set("a0", El("a", N(0))), Set("a1", El("a", N(1))), Set("b0", InB(N(0))), Set("b1", InB(N(1))),
    Set("ws", B(El("w", N(0)), "-", El("w", N(1)))),
    Set("ijk", B(B(V("i"), "<<", N(1)), "-", B(V("j"), "+", V("k")))) >>),
  f |-> F("u8", <<P("u8", "n")>>, <<X(As(V("s"), "+", N(1))), R(B(V("n"), "&", N(1)))>>),
  h |-> F("u8", <<P("u8", "n")>>, <<R(B(V("n"), "&", N(1)))>>),
  two |-> F("u8", <<P("u8", "n"), P("u8", "m")>>, <<Local("u8", "z", V("m")), R(B(V("n"), "-", V("z")))>>),
  give |-> F("u8", <<P("u8", "k"), PPtr("u8", "b"), PPtr("u16", "w"), PPtr("u8", "g")>>,
             <<Local("u8", "i", N(0)), Local("u8", "j", N(0)), R(Returned(u, e))>>)])
\* The ways out of a switch, and parameters with symbols beside other things.
Leave_(s) == Prog(Bytes5, << >>, <<"main", "do">>, [
  main |-> F("void", << >>, <<Set("r", Cal("do", <<V("y")>>)), Set("s", Cal("do", <<N(1)>>))>>),
  do |-> F("u8", <<P("u8", "n")>>, <<
    Local("u8", "i", N(0)), Local("u8", "k", N(0)),
    Lab("outer", For_(Set("i", N(0)), B(V("i"), "<", N(3)), Step1(V("i"), TRUE, TRUE), <<
      While_(B(V("k"), "<", V("n")), <<
        X(Step1(V("k"), TRUE, TRUE)),
        Lab("sel", Switch_(V("k"), <<
          Case_(<<2>>, <<IfElse(V("x"), <<s>>, << >>), Lab("in", X(As(V("t"), "+", N(1))))>>),
          Case_(<<3>>, <<X(As(V("t"), "+", N(5)))>>) >>)),
        X(As(V("t"), "+", N(16))) >>) >>)),
    Lab("done", X(As(V("t"), "+", V("k")))), R(V("i")) >>)])
Inner(s) == Lab("mine", While_(B(V("k"), "<", N(9)), <<X(As(V("k"), "+", N(3))), s>>))
Ways == <<Break(""), Break("sel"), Goto("in"), Inner(Break("")), Inner(Continue("mine")), Inner(Goto("in")),
          Break("outer"), Continue(""), Continue("outer"), Goto("done"), R(N(7)), Inner(R(N(7)))>>
Symbol(ret, params) == Prog(Words5, <<Datum("take", "u8", "v")>>, <<"main", "take">>, [
  main |-> F("void", << >>, <<Local("u8", "k", N(3)),
    IF ret = "void" THEN X(Cal("take", SubSeq(<<B(V("x"), "+", V("k")), V("y")>>, 1, Len(params))))
    ELSE Set("r", Cal("take", SubSeq(<<B(V("x"), "+", V("k")), V("y")>>, 1, Len(params))))>>),
  take |-> F(ret, params, <<
    Set("t", B(V("v"), "*", N(3))), X(As(V("t"), "+", V(params[Len(params)].name)))>>
    \o IF ret = "void" THEN << >> ELSE <<R(B(V("v"), "+", N(1)))>>)])
Symbols == <<Symbol("void", <<PSym("u8", "v")>>), Symbol("u8", <<PSym("u8", "v")>>),
             Symbol("void", <<PSym("u8", "v"), P("u8", "m")>>)>>

Uses == Len(Use(N(1)))
Family == Uses * Len(Held)
Others == <<Operators, Signed_, Calls, Loops, Pointers, Refs, Switches, Indirect, Statics, Values, Swap>>
          \o [i \in DOMAIN Ways |-> Leave_(Ways[i])] \o Symbols
MCPrograms == [n \in 1 .. Family + Len(Others) |->
  IF n > Family THEN Others[n - Family]
  ELSE Used(Held[1 + (n - 1) \div Uses], 1 + ((n - 1) % Uses))]
MCSwap == <<Swap>>
MCSkipping == <<Skipping>>
MCInputs == {<<0, 3>>, <<2, 1>>, <<3, 4>>}
=============================================================================
