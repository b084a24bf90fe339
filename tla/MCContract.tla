------------------------------ MODULE MCContract -----------------------------
EXTENDS Agreement

MCTopAddress == 16
MCMemory == {[name |-> "RAM", start |-> 2, size |-> 6, type |-> "rw"],
             [name |-> "ROM", start |-> 8, size |-> 8, type |-> "ro"]}

Byte == [is |-> "scalar", size |-> 1, sign |-> "unsigned_int", endian |-> "little"]
Word == [is |-> "scalar", size |-> 2, sign |-> "unsigned_int", endian |-> "little"]
To(t) == [is |-> "ptr", to |-> t]
Agg(n) == [is |-> "agg", name |-> n]
Func(ret, modes, t) ==
  [is |-> "fn", ret |-> ret, variadic |-> FALSE,
   params |-> [k \in DOMAIN modes |-> [mode |-> modes[k], type |-> t]]]
Sig(marked) == Func(Byte, <<IF marked THEN "symbol_abs" ELSE "stack_value">>, Byte)

Calls(names, how) == [k \in DOMAIN names |-> [to |-> names[k], how |-> how]]
F(name, static, body, marked, calls) ==
  [name |-> name, static |-> static, body |-> body, marked |-> marked,
   sig |-> Sig(marked), calls |-> calls]
U(functions) == [functions |-> functions, objects |-> {}, types |-> <<>>, regions |-> {}]

(* Calls in every direction between two units.  f and g are defined in the *)
(* first, h in the second, which has a g of its own or calls the first's.  *)
Lists == {<<>>, <<"g">>, <<"h">>, <<"g", "h">>, <<"h", "f">>}
Recursions ==
  {<<U(<<F("f", FALSE, TRUE, a, Calls(cf, "name")), F("g", s, TRUE, b, Calls(cg, "name")),
         F("h", FALSE, FALSE, c, <<>>)>>),
     U(<<F("f", FALSE, FALSE, a, <<>>), F("g", s, s, b, <<>>),
         F("h", FALSE, TRUE, c, Calls(ch, "name"))>>)>> :
     a \in {TRUE}, b \in {FALSE}, c \in BOOLEAN, s \in BOOLEAN,
     cf \in Lists, cg \in Lists \ {<<"g", "h">>}, ch \in {<<>>, <<"f">>, <<"g">>, <<"g", "f">>, <<"h">>}}
\* Within one unit: every graph of three functions.
Subsets3 == {<<>>, <<"f">>, <<"g">>, <<"h">>, <<"f", "g">>, <<"g", "h">>, <<"h", "f">>, <<"h", "g", "f">>}
Single ==
  {<<U(<<F("f", FALSE, TRUE, a, Calls(cf, "name")), F("g", TRUE, TRUE, ~a, Calls(cg, "name")),
         F("h", FALSE, TRUE, FALSE, Calls(ch, "name"))>>)>> :
     a \in BOOLEAN, cf \in Subsets3, cg \in Subsets3, ch \in Subsets3}

(* Two units that declare one object, or one function, of these types.      *)
Struct(members) == [union |-> FALSE, members |-> members]
Member(t, b) == [type |-> t, bits |-> b]
Tables ==
  {[S |-> Struct(<<Member(To(Agg("S")), 0), Member(Byte, 3), Member(Byte, 5)>>), T |-> Struct(<<Member(Agg("S"), 0)>>)],
   [S |-> Struct(<<Member(To(Agg("T")), 0), Member(Byte, 0)>>), T |-> Struct(<<Member(Byte, 0), Member(To(Agg("S")), 0)>>)],
   [S |-> Struct(<<Member(To(Agg("T")), 0), Member(Byte, 0)>>), T |-> Struct(<<Member(Byte, 0), Member(To(Agg("T")), 0)>>)],
   [S |-> Struct(<<Member(Byte, 3), Member(Byte, 0), Member(Byte, 5)>>), T |-> Struct(<<Member(Agg("S"), 0), Member(Agg("S"), 0)>>)],
   [S |-> [union |-> TRUE, members |-> <<Member(Byte, 3), Member(Word, 0)>>],
    T |-> Struct(<<Member(Byte, 5), Member(Byte, 3), Member([is |-> "array", n |-> 2, of |-> Byte], 0)>>)]}
Shapes == {Byte, Word, To(Word), Agg("S"), Agg("T"), To(Agg("S")), [is |-> "enum", of |-> Byte],
           [is |-> "array", n |-> 2, of |-> Agg("S")], [is |-> "float", size |-> 2, style |-> "ieee"],
           Func(Byte, <<"stack_value">>, Agg("T")), Func(Word, <<"ref">>, Agg("T"))}
ObjectUnit(table, t, mode) == [U(<<>>) EXCEPT !.types = table, !.objects = {[name |-> "x", mode |-> mode, type |-> t]}]
FunctionUnit(table, t, mode, body) ==
  [U(<<[name |-> "f", static |-> FALSE, body |-> body, marked |-> FALSE,
        sig |-> Func(Byte, <<mode>>, t), calls |-> <<>>]>>) EXCEPT !.types = table]
Alikes == {<<ta, t, tb, t>> : ta \in Tables, tb \in Tables, t \in Shapes}
          \cup {<<ta, t, ta, s>> : ta \in Tables, t \in Shapes, s \in Shapes}
Objects == {<<ObjectUnit(q[1], q[2], "memory"), ObjectUnit(q[3], q[4], m)>> :
              q \in Alikes, m \in {"memory", "zeropage"}}
Signatures == {<<FunctionUnit(q[1], q[2], m, TRUE), FunctionUnit(q[3], q[4], n, FALSE)>> :
                 q \in {r \in Alikes : r[2] = r[4]},
                 m \in {"stack_value", "symbol_zp"}, n \in {"stack_value", "ref", "symbol_zp"}}

(* One unit that keeps an object in a region, right or wrong.               *)
RegionUses == {<<[U(<<>>) EXCEPT !.regions = {[name |-> n, start |-> s, flag |-> f, amount |-> a, type |-> t]}]>> :
                 n \in {"RAM", "ROM", "XRAM"}, s \in {2, 8}, f \in {"$size", "$end"}, a \in {6, 8, 16}, t \in {"rw", "ro"}}

(* f, with a symbol-backed parameter, calls itself or a function that calls *)
(* f, by name or through a pointer.                                         *)
Pointers == {<<U(<<F("f", FALSE, TRUE, TRUE, Calls(<<t>>, how)),
                   F("g", FALSE, TRUE, FALSE, Calls(<<"f">>, "name"))>>)>> :
               t \in {"f", "g"}, how \in {"name", "pointer"}}

MCPrograms == Recursions \cup Single \cup Objects \cup Signatures \cup RegionUses \cup Pointers
==============================================================================
