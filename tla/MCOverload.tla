----------------------------- MODULE MCOverload ------------------------------
(* Overloads of one and two parameters over integers of one to eight bytes,  *)
(* a structure, pointers, arrays, refs and variadic lists.                   *)
EXTENDS Overload

Kind(size, sign, endian) == [size |-> size, sign |-> sign, endian |-> endian]
Types == [u1 |-> Kind(1, "unsigned", "little"), s1 |-> Kind(1, "signed", "little"),
          u2 |-> Kind(2, "unsigned", "little"), int |-> Kind(2, "signed", "little"),
          s2 |-> Kind(2, "signed", "little"), b2 |-> Kind(2, "signed", "big"),
          s4 |-> Kind(4, "signed", "little"), s8 |-> Kind(8, "signed", "little"),
          rec |-> Kind(3, "none", "none"), void |-> Kind(0, "none", "none")]

Value(t) == [type |-> t, depth |-> 0, dims |-> <<>>, ref |-> FALSE]
Pointer(t) == [Value(t) EXCEPT !.depth = 1]
Array(t, n, m) == [Value(t) EXCEPT !.dims = <<n, m>>]
Ref(t) == [Value(t) EXCEPT !.ref = TRUE]

Declared(ps, variadic, returns, body) ==
  [params |-> ps, variadic |-> variadic, returns |-> returns, static |-> FALSE, body |-> body]
Singles == {Value(t) : t \in {"u1", "int", "s2", "s4", "s8"}}
           \union {Pointer("u1"), Pointer("void"), Ref("u1"),
                   Array("u1", 2, 3), Array("u1", 2, 4)}
MCDeclarations ==
  {Declared(<<p>>, FALSE, "void", TRUE) : p \in Singles}
  \union {Declared(<<Value("u1")>>, TRUE, "void", TRUE),
          Declared(<<Value("int"), Value("u2")>>, FALSE, "void", TRUE),
          Declared(<<Value("s4"), Value("s4")>>, FALSE, "void", TRUE),
          Declared(<<Value("u1")>>, FALSE, "void", FALSE),
          Declared(<<Value("u1")>>, FALSE, "u1", FALSE)}

Holding(t, lvalue) ==
  [type |-> t, depth |-> 0, dims |-> <<>>, lvalue |-> lvalue, lit |-> <<>>]
Number(n) == [type |-> "int", depth |-> 0, dims |-> <<>>, lvalue |-> FALSE, lit |-> <<n>>]
Arguments ==
  {Holding(t, TRUE) : t \in {"u1", "s1", "u2", "b2", "int"}}
  \union {Holding("u1", FALSE), Number(0), Number(200), Number(100000)}
  \union {[Holding("u1", TRUE) EXCEPT !.depth = 1], [Holding("rec", TRUE) EXCEPT !.depth = 1],
          [Holding("u1", TRUE) EXCEPT !.dims = <<2, 3>>]}
MCCalls == {<<a>> : a \in Arguments}
           \union {<<Holding("u2", TRUE), Holding("u2", TRUE)>>, <<Number(0), Number(7)>>}
MCExpected == {[params |-> <<Value("u1")>>, variadic |-> FALSE, returns |-> r] : r \in {"void", "u1"}}
==============================================================================
