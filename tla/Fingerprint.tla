----------------------------- MODULE Fingerprint -----------------------------
(***************************************************************************)
(* What the compiler writes down of a type for the linker to compare       *)
(* (compiler/abi_meta.c).  The text of a fingerprint is a tree of tuples   *)
(* here.  A type is a record of its kind and what belongs to the kind:     *)
(*   [is |-> "scalar", size, sign, endian]   [is |-> "float", size, style] *)
(*   [is |-> "ptr", to]   [is |-> "array", n, of]   [is |-> "enum", of]    *)
(*   [is |-> "fn", ret, params, variadic]    [is |-> "agg", name]          *)
(* and "types" gives the declared struct or union of a name:               *)
(*   [union, members], a member being [type, bits], bits 0 for no field.   *)
(***************************************************************************)
EXTENDS Naturals, Sequences, SequencesExt

PointerMachine == <<"ptrmach", 2, "unsigned", "little">>

RECURSIVE SizeOf(_, _), BitsOf(_, _, _)
SizeOf(types, t) ==
  CASE t.is \in {"scalar", "float"} -> t.size
    [] t.is \in {"ptr", "fn"} -> PointerMachine[2]
    [] t.is = "array" -> t.n * SizeOf(types, t.of)
    [] t.is = "enum" -> SizeOf(types, t.of)
    [] t.is = "agg" /\ types[t.name].union ->
         FoldLeft(LAMBDA m, f : IF SizeOf(types, f.type) > m THEN SizeOf(types, f.type) ELSE m,
                  0, types[t.name].members)
    [] OTHER -> (BitsOf(types, types[t.name].members, Len(types[t.name].members)) + 7) \div 8

\* bit_cursor after the first n members of a struct.
RoundedUp(bits) == ((bits + 7) \div 8) * 8
BitsOf(types, members, n) ==
  IF n = 0 THEN 0
  ELSE LET before == BitsOf(types, members, n - 1) IN
       IF members[n].bits > 0 THEN before + members[n].bits
       ELSE RoundedUp(before) + 8 * SizeOf(types, members[n].type)

\* Where member n of an aggregate lies: byte, bit, and the bytes it takes.
Place(types, agg, n) ==
  LET m == agg.members[n]
      bits == IF agg.union THEN 0 ELSE BitsOf(types, agg.members, n - 1)
      at == IF m.bits > 0 THEN bits ELSE RoundedUp(bits) IN
  IF m.bits > 0 THEN <<at \div 8, at % 8, m.bits, ((at % 8) + m.bits + 7) \div 8>>
  ELSE <<at \div 8, SizeOf(types, m.type)>>

\* append_type_fingerprint, append_callable_signature and
\* append_base_type_fingerprint.  "seen" is FingerprintCtx: the aggregates in the
\* order met, numbered so; "active" those whose members are being written.
\* The result is the tree and "seen" after it.
RECURSIVE Tree(_, _, _, _), Trees(_, _, _, _)
Trees(types, ts, seen, active) ==
  FoldLeft(LAMBDA acc, t : LET r == Tree(types, t, acc.seen, active) IN
                           [tree |-> Append(acc.tree, r.tree), seen |-> r.seen],
           [tree |-> <<>>, seen |-> seen], ts)
Id(seen, name) == CHOOSE i \in DOMAIN seen : seen[i] = name

Tree(types, t, seen, active) ==
  CASE t.is = "scalar" -> [tree |-> <<"scalar", t.size, t.sign, t.endian>>, seen |-> seen]
    [] t.is = "float" -> [tree |-> <<"float", t.size, t.style>>, seen |-> seen]
    [] t.is = "enum" -> Tree(types, t.of, seen, active)
    [] t.is = "ptr" ->
         LET r == Tree(types, t.to, seen, active) IN
         [tree |-> <<"ptr", PointerMachine, r.tree>>, seen |-> r.seen]
    [] t.is = "array" ->
         LET r == Tree(types, t.of, seen, active) IN
         [tree |-> <<"array", t.n, r.tree>>, seen |-> r.seen]
    [] t.is = "fn" ->
         LET ret == Tree(types, t.ret, seen, active)
             ps == Trees(types, [k \in DOMAIN t.params |-> t.params[k].type], ret.seen, active) IN
         [tree |-> <<"fnptr", PointerMachine, ret.tree, t.variadic,
                     [k \in DOMAIN t.params |-> <<t.params[k].mode, ps.tree[k]>>]>>,
          seen |-> ps.seen]
    [] OTHER ->
         LET agg == types[t.name]
             met == IF t.name \in Range(seen) THEN seen ELSE Append(seen, t.name)
             ms == Trees(types, [k \in DOMAIN agg.members |-> agg.members[k].type],
                         met, active \cup {t.name}) IN
         IF t.name \in active THEN [tree |-> <<"ref", Id(met, t.name)>>, seen |-> met]
         ELSE [tree |-> <<IF agg.union THEN "union" ELSE "struct", Id(met, t.name), SizeOf(types, t),
                          [k \in DOMAIN agg.members |-> <<Place(types, agg, k), ms.tree[k]>>]>>,
               seen |-> ms.seen]

\* emit_type_record: the storage mode in front of the type.
Digest(types, mode, t) == <<mode, Tree(types, t, <<>>, {}).tree>>

\* The records of a function (emit_function_abi_metadata) or of a global object
\* (emit_global_abi_metadata): role and fingerprint.
FunctionRecords(types, fn) ==
  {<<<<"summary">>, <<Len(fn.params), fn.variadic>>>>,
   <<<<"return">>, Digest(types, "return_value", fn.ret)>>}
  \cup {<<<<"param", k>>, Digest(types, fn.params[k].mode, fn.params[k].type)>> : k \in DOMAIN fn.params}
GlobalRecords(types, mode, t) == {<<<<"object">>, Digest(types, mode, t)>>}

-----------------------------------------------------------------------------
(* What the fingerprints are to tell: the same bytes, to a depth of d       *)
(* aggregates and pointers, whatever the names.                            *)

RECURSIVE Alike(_, _, _, _, _)
Alike(ts, s, tt, t, d) ==
  IF s.is = "enum" THEN Alike(ts, s.of, tt, t, d)
  ELSE IF t.is = "enum" THEN Alike(ts, s, tt, t.of, d)
  ELSE d = 0 \/
  /\ s.is = t.is
  /\ CASE s.is \in {"scalar", "float"} -> s = t
       [] s.is = "ptr" -> Alike(ts, s.to, tt, t.to, d - 1)
       [] s.is = "array" -> s.n = t.n /\ Alike(ts, s.of, tt, t.of, d)
       [] s.is = "fn" ->
            /\ s.variadic = t.variadic /\ Len(s.params) = Len(t.params)
            /\ Alike(ts, s.ret, tt, t.ret, d)
            /\ \A k \in DOMAIN s.params : /\ s.params[k].mode = t.params[k].mode
                                          /\ Alike(ts, s.params[k].type, tt, t.params[k].type, d)
       [] OTHER ->
            LET a == ts[s.name] b == tt[t.name] IN
            /\ a.union = b.union /\ Len(a.members) = Len(b.members)
            /\ \A k \in DOMAIN a.members :
                 /\ a.members[k].bits = b.members[k].bits
                 /\ Alike(ts, a.members[k].type, tt, b.members[k].type, d - 1)
==============================================================================
