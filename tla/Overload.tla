------------------------------ MODULE Overload -------------------------------
(***************************************************************************)
(* The overloads of one name (compiler/compile_overload.c): how            *)
(* declarations are remembered, what a call costs with each of them, the   *)
(* scan for the least cost, and the symbol each overload gets.             *)
(*                                                                         *)
(* A parameter is [type, depth, dims, ref] and an argument                 *)
(* [type, depth, dims, lvalue, lit]: a base type, the pointer depth, the   *)
(* bounds of its arrays, and for an untyped literal the value in lit, a    *)
(* sequence of at most one number.  A function is                          *)
(* [params, variadic, returns, static, body].                              *)
(***************************************************************************)
EXTENDS Integers, Sequences, FiniteSets, SequencesExt

CONSTANTS
  TypeOf,        \* base type -> [size, sign, endian]
  Declarations,  \* the declarations a unit may hold for the name
  Calls,         \* the argument lists it may be called with
  Expected,      \* the [params, variadic, returns] a function pointer may ask for
  MaxOverloads   \* bound: distinct overloads remembered

Parameter == [type : DOMAIN TypeOf, depth : Nat, dims : Seq(Nat), ref : BOOLEAN]
ASSUME DeclarationsAssumption == \A f \in Declarations : f.params \in Seq(Parameter)

VARIABLES
  kind,          \* whether the name is an operator or an ordinary function
  table,         \* the entries of the name, in the order they were remembered
  verdict,       \* of the declarations: "fine", "conflict" or "defined twice"
  args,          \* the call being resolved
  next,          \* the candidate looked at next; 0 while no call is resolved
  best, least, tie,   \* best (0 for NULL), best_cost, ambiguous
  answer         \* "open", or what became of the call

resolutionVars == <<kind, table, verdict, args, next, best, least, tie, answer>>

Size(t) == TypeOf[t].size
Signed(t) == TypeOf[t].sign = "signed"
Promotable(t) == TypeOf[t].sign \in {"signed", "unsigned"}

-----------------------------------------------------------------------------
(* The cost of one argument *)

\* An array is passed as a pointer to its first element; a parameter is
\* adjusted in the same way unless it is a ref.
Decayed(x) == IF x.depth = 0 /\ x.dims # <<>>
              THEN [x EXCEPT !.depth = 1, !.dims = Tail(@)] ELSE x
Adjusted(p) == IF p.ref THEN p ELSE Decayed(p)
Plain(x) == x.depth = 0 /\ x.dims = <<>>
SameShape(x, y) == x.depth = y.depth /\ x.dims = y.dims
Literal(a) == a.lit # <<>>

\* integer_literal_fits_plain_integer_type.  Types of four bytes and more hold
\* every literal of the model.
Limit(t) == IF Size(t) >= 4 THEN 2147483647
            ELSE IF Signed(t) THEN 2 ^ (8 * Size(t) - 1) - 1 ELSE 2 ^ (8 * Size(t)) - 1
LiteralFits(a, p) == Plain(p) /\ Promotable(p.type) /\ a.lit[1] <= Limit(p.type)

Represents(to, from) ==
  /\ Promotable(to) /\ Promotable(from)
  /\ \/ Signed(to) = Signed(from) /\ Size(to) >= Size(from)
     \/ Signed(to) /\ ~Signed(from) /\ Size(to) >= Size(from) + 1

If(condition, cost) == IF condition THEN cost ELSE 0
SignCost(to, from) == If(Signed(to) # Signed(from), 4)
EndianCost(to, from) ==
  If({TypeOf[to].endian, TypeOf[from].endian} = {"big", "little"}, 1)

LiteralCost(t) == 16 + (Size(t) - 1) * 4 + If(Signed(t), 1)
PromotionCost(to, from) ==
  (Size(to) - Size(from)) * 16 + SignCost(to, from) + If(Size(to) > 1, EndianCost(to, from))

\* Mutant: promotions rank with what needs no conversion.
NoBase == 0
PromotionBase == 32

\* parameter_argument_conversion_cost: -1 when there is no conversion.
Converted(p, a) ==
  CASE Literal(a) /\ p.depth > 0 /\ a.lit[1] = 0 -> 8 + p.depth - 1
    [] Literal(a) /\ LiteralFits(a, p) -> LiteralCost(p.type)
    [] p.type = a.type /\ SameShape(a, p) -> 1
    [] p.type = "void" /\ p.depth = 1 /\ a.depth = 1 -> 12
    [] Plain(p) /\ Plain(a) /\ Represents(p.type, a.type) ->
         PromotionBase + PromotionCost(p.type, a.type)
    [] Plain(p) /\ Plain(a) /\ Promotable(p.type) /\ Promotable(a.type)
         /\ Size(p.type) = Size(a.type) ->
         96 + SignCost(p.type, a.type) + EndianCost(p.type, a.type)
    [] OTHER -> -1
ArgumentCost(param, arg) ==
  LET p == Adjusted(param)
      a == Decayed(arg) IN
  IF ~p.ref THEN Converted(p, a)
  ELSE IF p.type = a.type /\ SameShape(a, p) /\ a.lvalue THEN 0 ELSE -1

\* function_signature_match_cost
CountFits(f, as) == IF f.variadic THEN Len(as) >= Len(f.params) ELSE Len(as) = Len(f.params)
Costs(f, as) == [i \in DOMAIN f.params |-> ArgumentCost(f.params[i], as[i])]
Cost(f, as) ==
  IF ~CountFits(f, as) \/ \E i \in DOMAIN f.params : ArgumentCost(f.params[i], as[i]) < 0
  THEN -1
  ELSE FoldLeft(+, If(f.variadic, 1024 + Len(as) - Len(f.params)), Costs(f, as))

ASSUME CostAssumption == \A f \in Declarations, as \in Calls : Cost(f, as) \in Int

-----------------------------------------------------------------------------
(* Remembering *)

\* function_same_signature and function_same_declaration
Signature(f) == <<f.variadic, f.params>>
Same(f, g) == Signature(f) = Signature(g)
SameDeclaration(f, g) == f.returns = g.returns /\ f.static = g.static
EntryOf(f) == {i \in DOMAIN table : Same(table[i], f)}

\* remember_function and remember_operator_overload: a definition takes the
\* place of a declaration, whatever else repeats one is dropped or refused.
Remember(f) ==
  /\ next = 0 /\ answer = "open" /\ verdict = "fine"
  /\ IF EntryOf(f) = {}
     THEN Len(table) < MaxOverloads /\ table' = Append(table, f) /\ UNCHANGED verdict
     ELSE LET i == CHOOSE i \in EntryOf(f) : TRUE IN
          IF ~SameDeclaration(table[i], f)
          THEN verdict' = "conflict" /\ UNCHANGED table
          ELSE IF table[i].body /\ f.body
          THEN verdict' = "defined twice" /\ UNCHANGED table
          ELSE /\ table' = IF f.body THEN [table EXCEPT ![i] = f] ELSE table
               /\ UNCHANGED verdict
  /\ UNCHANGED <<kind, args, next, best, least, tie, answer>>

\* ordinary_function_name_is_overloaded and function_symbol_name.  The symbol
\* is a tuple here: alone, an ordinary function has its own name.
\* Mutant: the name does not tell a ref parameter from a value.
MangledWithoutRef(f) ==
  <<[i \in DOMAIN f.params |->
       <<f.params[i].type, f.params[i].depth, Len(f.params[i].dims)>>], f.variadic>>
Mangled(f) ==
  <<[i \in DOMAIN f.params |->
       <<f.params[i].type, f.params[i].ref, f.params[i].depth, Len(f.params[i].dims)>>],
    f.variadic>>
Symbol(f) == IF kind = "function" /\ Len(table) <= 1 THEN <<>> ELSE Mangled(f)

-----------------------------------------------------------------------------
(* Resolving *)

\* resolve_function_call_target: the scan starts.
Ask(as) ==
  /\ next = 0 /\ answer = "open" /\ verdict = "fine" /\ table # <<>>
  /\ args' = as /\ next' = 1
  /\ UNCHANGED <<kind, table, verdict, best, least, tie, answer>>

\* One turn of the loop of lookup_ordinary_function_overload and
\* lookup_operator_overload.
\* Mutant: a better candidate does not end a tie.
TieKept(c) == tie \/ (best # 0 /\ c = least)
Tied(c) == IF best = 0 \/ c < least THEN FALSE ELSE tie \/ c = least
Consider ==
  /\ next \in DOMAIN table
  /\ LET c == Cost(table[next], args) IN
     IF c < 0 THEN UNCHANGED <<best, least, tie>>
     ELSE /\ tie' = Tied(c)
          /\ IF best = 0 \/ c < least THEN best' = next /\ least' = c
             ELSE UNCHANGED <<best, least>>
  /\ next' = next + 1
  /\ UNCHANGED <<kind, table, verdict, args, answer>>

\* The end of both lookups: an ordinary call without a viable overload is an
\* error, an operator without one is the built-in operator.
Outcome == IF tie THEN "ambiguous"
           ELSE IF best # 0 THEN "chosen"
           ELSE IF kind = "operator" THEN "builtin" ELSE "no viable overload"
Answer ==
  /\ next = Len(table) + 1 /\ answer = "open"
  /\ answer' = Outcome
  /\ UNCHANGED <<kind, table, verdict, args, next, best, least, tie>>

\* resolve_function_designator_target: the name without a call, as a value for
\* a function pointer that may or may not have a known type.
Matches(e) == {i \in DOMAIN table : Signature(table[i]) = <<e.variadic, e.params>>
                                     /\ table[i].returns = e.returns}
Designate(wanted) ==
  /\ next = 0 /\ answer = "open" /\ verdict = "fine" /\ kind = "function" /\ table # <<>>
  /\ LET M == UNION {Matches(wanted[k]) : k \in DOMAIN wanted}
         lone == wanted = <<>> /\ Len(table) = 1 IN
     /\ best' = IF lone THEN 1 ELSE IF M = {} THEN 0 ELSE CHOOSE i \in M : TRUE
     /\ answer' = IF lone \/ M # {} THEN "designated"
                  ELSE IF wanted = <<>> \/ Len(table) = 1 THEN "not a designator"
                  ELSE "no overload matches"
  /\ UNCHANGED <<kind, table, verdict, args, next, least, tie>>

ResolutionInit ==
  /\ kind \in {"function", "operator"}
  /\ table = <<>> /\ verdict = "fine" /\ args = <<>> /\ next = 0
  /\ best = 0 /\ least = 0 /\ tie = FALSE /\ answer = "open"

ResolutionNext ==
  \/ \E f \in Declarations : Remember(f)
  \/ \E as \in Calls : Ask(as)
  \/ Consider
  \/ Answer
  \/ Designate(<<>>)
  \/ \E e \in Expected : Designate(<<e>>)
ResolutionSpec == ResolutionInit /\ [][ResolutionNext]_resolutionVars

-----------------------------------------------------------------------------
(* Properties *)

Viable == {i \in DOMAIN table : Cost(table[i], args) >= 0}
Cheapest == {i \in Viable : \A j \in Viable : Cost(table[i], args) <= Cost(table[j], args)}

\* A call is bound to the overload of least cost if there is exactly one, is
\* ambiguous if there are more, and has none if no overload is viable: what is
\* called does not depend on the order of the declarations
\* (compile_overload.c, lookup_ordinary_function_overload).
AnswerIsLeast ==
  /\ answer = "chosen" => Cheapest = {best}
  /\ answer = "ambiguous" => \E i, j \in Cheapest : i # j
  /\ answer \in {"builtin", "no viable overload"} => Viable = {}

\* What the conversion of an argument keeps: all, its value, or neither.
ExactArgument(param, arg) ==
  LET p == Adjusted(param)
      a == Decayed(arg) IN
  ~Literal(a) /\ p.type = a.type /\ SameShape(p, a) /\ (p.ref => a.lvalue)
KeepsValue(param, arg) ==
  LET p == Adjusted(param)
      a == Decayed(arg) IN
  \/ ExactArgument(param, arg)
  \/ Literal(a) /\ (p.depth > 0 \/ LiteralFits(a, p))
  \/ ~Literal(a) /\ (p.depth = 1 \/ Represents(p.type, a.type))
Exact(i) == \A k \in DOMAIN args : k \in DOMAIN table[i].params
                                   /\ ExactArgument(table[i].params[k], args[k])
Safe(i) == \A k \in DOMAIN table[i].params : KeepsValue(table[i].params[k], args[k])
\* A literal is an int to the compiler even where no int holds it, and a type that
\* holds every int takes it, whatever is lost.
Overflows(i) ==
  \E k \in DOMAIN table[i].params :
    LET p == Adjusted(table[i].params[k]) IN
    /\ Literal(args[k]) /\ ~LiteralFits(args[k], p)
    /\ Plain(p) /\ Represents(p.type, args[k].type)
\* The costs of an overload's conversions are added up, and those of several, or
\* of one to a much wider type, come to more than a change of sign.
ChangeOfSign == 100
Far(i) == Cost(table[i], args) - If(table[i].variadic, 1024) > ChangeOfSign

\* The order compiler/README.md gives, among the overloads whose parameter lists
\* end (or else those that take more): one that takes every argument as it is wins
\* over any other, and one that may change a value is called only if there is no
\* other, or if all others are far.  It may also be called for a literal that is too
\* large for an int.
BestKindFirst ==
  answer = "chosen" =>
    /\ table[best].variadic => \A i \in Viable : table[i].variadic
    /\ \A i \in Viable :
         table[i].variadic = table[best].variadic =>
           /\ Exact(i) => Exact(best)
           /\ Safe(i) /\ ~Safe(best) => Far(i) \/ Overflows(best)

\* Two overloads of a name have different symbols, unless they differ in the
\* bounds of an array only, which the symbol does not tell.
OneSymbolEach ==
  \A i, j \in DOMAIN table :
    i # j /\ Symbol(table[i]) = Symbol(table[j]) =>
      /\ Len(table[i].params) = Len(table[j].params)
      /\ \E k \in DOMAIN table[i].params :
           table[i].params[k].dims # table[j].params[k].dims
==============================================================================
