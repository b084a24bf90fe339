------------------------------ MODULE Contract -------------------------------
(***************************************************************************)
(* What the compiler leaves in an object for the linker to check, and the  *)
(* checks: compile.c, do_compile after compile(); compile_function.c,      *)
(* record_call_graph_edge and emit_symbol_backed_call_graph_metadata;      *)
(* abi_meta.c; compile_support.c, emit_mem_region_metadata_for_modifiers;  *)
(* n65ld.c and n65ld_abi.c, validate_abi_metadata,                         *)
(* validate_mem_region_metadata and enforce_symbol_backed_call_graph, in   *)
(* the order of the linker's main.  All objects are linked.                *)
(*                                                                         *)
(* A unit: "functions", by name after remember_function has let            *)
(* definitions take the place of declarations: [name, static, body,        *)
(* marked, sig, calls], sig the type of the function, "marked" that a      *)
(* parameter is symbol-backed, calls the functions its body calls, each    *)
(* with how: by "name" (an overloaded operator is one) or a "pointer".     *)
(* "objects": its extern and own objects, [name, mode, type].  "types":    *)
(* its aggregates.  "regions": the mem regions it keeps objects in,        *)
(* [name, start, flag, amount, type], flag $size or $end.                  *)
(***************************************************************************)
EXTENDS CallGraph, Integers, SequencesExt

CONSTANTS
  Programs,                  \* what is compiled and linked: see WellFormed
  Memory, TopAddress,        \* the MEMORY areas of the linker's configuration
  RecordsOfFunction(_, _),   \* role and fingerprint of what a function's type, or an
  RecordsOfGlobal(_, _, _)   \* object's mode and type, is made of: see Fingerprint

\* Functions have a name each in their unit and call functions of their unit.
IsSequence(s) == s \in Seq({s[k] : k \in DOMAIN s})
WellFormed(p) ==
  /\ p # <<>> /\ IsSequence(p)
  /\ \A u \in DOMAIN p :
       LET fs == p[u].functions IN
       /\ IsSequence(fs)
       /\ \A j, k \in DOMAIN fs : fs[j].name = fs[k].name => j = k
       /\ \A k \in DOMAIN fs :
            /\ {fs[k].static, fs[k].body, fs[k].marked} \subseteq BOOLEAN
            /\ IsSequence(fs[k].calls)
            /\ \A c \in DOMAIN fs[k].calls : \E j \in DOMAIN fs : fs[j].name = fs[k].calls[c].to

ASSUME ProgramsAssumption == \A p \in Programs : WellFormed(p)
ASSUME MemoryAssumption == \A m \in Memory : m.start + m.size <= TopAddress

VARIABLES
  program, phase,
  unit,      \* the unit that is compiled, then the object that is read
  at, call,  \* how far: the function and its call, or the symbol of the object
  exports    \* what the objects say

linkVars == <<program, phase, unit, at, call, exports>>
vars == <<linkVars, graphVars, walkVars>>

Functions(u) == program[u].functions
Fun(u, name) == LET k == CHOOSE k \in DOMAIN Functions(u) : Functions(u)[k].name = name
                IN  Functions(u)[k]

-----------------------------------------------------------------------------
(* Compiling a unit *)

Current == Functions(unit)[at]
Compiling == phase = "compile" /\ at <= Len(Functions(unit))

\* A function with a body becomes a node before its body is compiled.
CompileFunction ==
  /\ Compiling /\ call = 0
  /\ IF Current.body
     THEN nodes' = WithNode(nodes, Current.name, Current.marked) /\ call' = 1 /\ at' = at
     ELSE at' = at + 1 /\ UNCHANGED <<nodes, call>>
  /\ UNCHANGED <<program, phase, unit, exports, edges, walkVars>>

\* record_call_graph_edge: both functions become nodes.
Record(from, to) ==
  LET ns == WithNode(WithNode(nodes, from.name, from.marked), to.name, to.marked) IN
  /\ nodes' = ns
  /\ edges' = WithEdge(edges, PositionIn(ns, from.name), PositionIn(ns, to.name))

\* A call is recorded where it passes through the jsr by name of
\* compile_call_expr_to_slot; behind the last one the function ends.
CompileCall ==
  /\ Compiling /\ call > 0
  /\ IF call > Len(Current.calls)
     THEN at' = at + 1 /\ call' = 0 /\ UNCHANGED graphVars
     ELSE /\ at' = at /\ call' = call + 1
          /\ IF Current.calls[call].how = "name"
             THEN Record(Current, Fun(unit, Current.calls[call].to))
             ELSE UNCHANGED graphVars
  /\ UNCHANGED <<program, phase, unit, exports, walkVars>>

BeginAnalysis ==
  /\ phase = "compile" /\ at > Len(Functions(unit))
  /\ StartWalk
  /\ phase' = "analyze"
  /\ UNCHANGED <<program, unit, at, call, exports>>

\* emit_symbol_backed_call_graph_metadata: a symbol for a node, then one for an edge;
\* where none is written, any other symbol of the object stands.
\* Mutant: only calls of functions with symbol-backed parameters are written.
NoRecord == <<"other">>
NodeMark(n) == IF n.marked /\ Fun(unit, n.name).body THEN <<"F", n.name>> ELSE NoRecord
EdgeMarkOfMarked(e) ==
  IF nodes[e[2]].marked THEN <<"E", nodes[e[1]].name, nodes[e[2]].name>> ELSE NoRecord
EdgeMark(e) ==
  IF Fun(unit, nodes[e[1]].name).body
  THEN <<"E", nodes[e[1]].name, nodes[e[2]].name>> ELSE NoRecord
GraphMarks == [k \in 1..Len(nodes) |-> NodeMark(nodes[k])]
              \o [k \in 1..Len(edges) |-> EdgeMark(edges[k])]

AbiMarks(u) ==
  UNION {{<<"function", f.name, r[1], r[2]>> :
            r \in RecordsOfFunction(program[u].types, f.sig)} :
         f \in {g \in Range(Functions(u)) : ~g.static}}
  \cup
  UNION {{<<"global", o.name, r[1], r[2]>> :
            r \in RecordsOfGlobal(program[u].types, o.mode, o.type)} :
         o \in program[u].objects}

\* The declared size: $size, or the distance of $end from $start; the size is
\* written with 16 bits.
Extent(r) == IF r.flag = "$size" THEN r.amount ELSE r.amount - r.start
RegionMarks(u) ==
  {<<r.name, r.start, Extent(r) % TopAddress, r.type>> : r \in program[u].regions}
RegionsFit(u) ==
  \A r \in program[u].regions : Extent(r) >= 0 /\ r.start + Extent(r) <= TopAddress

Refuse(why) == phase' = why /\ UNCHANGED <<program, unit, at, call, exports, graphVars, walkVars>>

Analyze ==
  /\ phase = "analyze" /\ Walk
  /\ UNCHANGED linkVars

\* The compiler that is started for the next unit knows no function.
EmitUnit ==
  /\ phase = "analyze" /\ Walked
  /\ IF ~RegionsFit(unit) THEN Refuse("bad region")
     ELSE IF Refused THEN Refuse("unit refused")
     ELSE /\ exports' = Append(exports, [graph |-> GraphMarks, abi |-> AbiMarks(unit),
                                         regions |-> RegionMarks(unit)])
          /\ unit' = unit + 1 /\ at' = 1 /\ call' = 0
          /\ phase' = IF unit = Len(program) THEN "abi" ELSE "compile"
          /\ nodes' = <<>> /\ edges' = <<>>
          /\ UNCHANGED <<program, walkVars>>

-----------------------------------------------------------------------------
(* The linker *)

AbiRecords == UNION {exports[u].abi : u \in DOMAIN exports}
RegionRecords == UNION {exports[u].regions : u \in DOMAIN exports}

\* validate_abi_metadata: same kind, symbol and role, another fingerprint.
\* Mutant: only records of one role are compared.
SameGroupByReturn(a, b) == a[1] = b[1] /\ a[2] = b[2] /\ a[3] = b[3] /\ a[3] = <<"return">>
SameGroup(a, b) == a[1] = b[1] /\ a[2] = b[2] /\ a[3] = b[3]
ValidateAbi ==
  /\ phase = "abi"
  /\ IF \E a, b \in AbiRecords : SameGroup(a, b) /\ a[4] # b[4]
     THEN Refuse("abi refused")
     ELSE /\ phase' = "regions"
          /\ UNCHANGED <<program, unit, at, call, exports, graphVars, walkVars>>

\* validate_mem_region_metadata.
RegionAgrees(x) == \E m \in Memory : /\ m.name = x[1] /\ m.start = x[2]
                                     /\ m.size = x[3] /\ m.type = x[4]
ValidateRegions ==
  /\ phase = "regions"
  /\ IF \E x \in RegionRecords : ~RegionAgrees(x)
     THEN Refuse("region refused")
     ELSE /\ phase' = "collect" /\ unit' = 1
          /\ UNCHANGED <<program, at, call, exports, graphVars, walkVars>>

\* call_graph_collect_from_object: functions are known by name, whatever unit they are
\* of; other symbols are passed over.
TakeRecord(x) ==
  CASE x[1] = "F" ->
         LET ns == WithNode(nodes, x[2], FALSE) IN
         /\ nodes' = [ns EXCEPT ![PositionIn(ns, x[2])].marked = TRUE]
         /\ UNCHANGED edges
    [] x[1] = "E" ->
         LET ns == WithNode(WithNode(nodes, x[2], FALSE), x[3], FALSE) IN
         /\ nodes' = ns
         /\ edges' = WithEdge(edges, PositionIn(ns, x[2]), PositionIn(ns, x[3]))
    [] OTHER -> UNCHANGED graphVars

Collect ==
  /\ phase = "collect" /\ unit <= Len(exports)
  /\ IF at > Len(exports[unit].graph)
     THEN unit' = unit + 1 /\ at' = 1 /\ UNCHANGED graphVars
     ELSE unit' = unit /\ at' = at + 1 /\ TakeRecord(exports[unit].graph[at])
  /\ UNCHANGED <<program, phase, call, exports, walkVars>>

BeginEnforcement ==
  /\ phase = "collect" /\ unit > Len(exports)
  /\ StartWalk
  /\ phase' = "enforce"
  /\ UNCHANGED <<program, unit, at, call, exports>>

Enforce ==
  /\ phase = "enforce" /\ Walk
  /\ UNCHANGED linkVars

Judge ==
  /\ phase = "enforce" /\ Walked
  /\ Refuse(IF Refused THEN "link refused" ELSE "linked")

Init ==
  /\ program \in Programs
  /\ phase = "compile" /\ unit = 1 /\ at = 1 /\ call = 0 /\ exports = <<>>
  /\ NoGraph /\ NoWalk

Ended == phase \in {"linked", "bad region", "unit refused", "abi refused",
                    "region refused", "link refused"}

\* The program has ended; a deadlock would be a check that does not.
Done == Ended /\ UNCHANGED vars

Next == \/ CompileFunction \/ CompileCall \/ BeginAnalysis \/ Analyze \/ EmitUnit
        \/ ValidateAbi \/ ValidateRegions
        \/ Collect \/ BeginEnforcement \/ Enforce \/ Judge
        \/ Done

Spec == Init /\ [][Next]_vars

-----------------------------------------------------------------------------
(* Properties *)

(* The records of a walk stay in step: positions name nodes, a node that is *)
(* on the stack is in no component, and low never exceeds index.            *)
TypeOK ==
  /\ phase \in {"compile", "analyze", "abi", "regions", "collect", "enforce"} \/ Ended
  /\ unit \in 1..(Len(program) + 1) /\ Len(exports) <= Len(program)
  /\ at \in Nat \ {0} /\ call \in Nat
  /\ Edges \subseteq Nodes \X Nodes
  /\ phase \in {"analyze", "enforce"} =>
       /\ \A i \in Nodes : /\ low[i] <= index[i] /\ component[i] <= count
                           /\ OnStack(i) <=> (index[i] # 0 /\ component[i] = 0)
       /\ \A k \in DOMAIN frames : frames[k].node \in Nodes

\* A function as the source means it: a static one is another in each unit.
Identity(u, name) == IF Fun(u, name).static THEN <<u, name>> ELSE <<0, name>>
Bodies(u) == {f \in Range(Functions(u)) : f.body}
CallsOf(f, hows) == {c \in Range(f.calls) : c.how \in hows}
CallRelation(hows) ==
  UNION {UNION {{<<Identity(u, f.name), Identity(u, c.to)>> : c \in CallsOf(f, hows)} :
                f \in Bodies(u)} : u \in DOMAIN program}
NameRelation(us) ==
  UNION {UNION {{<<f.name, c.to>> : c \in CallsOf(f, {"name"})} : f \in Bodies(u)} : u \in us}
SymbolBacked ==
  UNION {{Identity(u, f.name) : f \in {g \in Bodies(u) : g.marked}} : u \in DOMAIN program}

(* The components the walk finds are the strongly connected ones: two       *)
(* functions share one exactly if each reaches the other.                   *)
ComponentsRight ==
  phase \in {"analyze", "enforce"} /\ Walked =>
    \A i, j \in Nodes :
      (component[i] = component[j]) <=> (j \in From(Edges, {i}) /\ i \in From(Edges, {j}))

(* A linked program has no function with symbol-backed parameters that can  *)
(* be entered again through calls by name while it is active, wherever the  *)
(* functions between are compiled (compiler/README.md:548, 702).            *)
AcceptedAcyclic ==
  phase = "linked" => \A f \in SymbolBacked : ~Recursive(CallRelation({"name"}), f)

(* The recursion check refuses a unit or a program only for a reason: a     *)
(* cycle of calls, among functions of those names, through one that is      *)
(* compiled there and has symbol-backed parameters.                         *)
RefusedForCause ==
  /\ phase = "unit refused" =>
       \E f \in Range(Functions(unit)) : f.marked /\ Recursive(NameRelation({unit}), f.name)
  /\ phase = "link refused" =>
       \E f \in SymbolBacked : Recursive(NameRelation(DOMAIN program), f[2])

(* In a linked program the linker's configuration has each region as the    *)
(* units that keep objects in it declare it.                                *)
RegionsAgree ==
  phase = "linked" =>
    \A u \in DOMAIN program : \A r \in program[u].regions : \E m \in Memory :
      /\ m.name = r.name /\ m.start = r.start /\ m.type = r.type
      /\ m.size = Extent(r) % TopAddress
==============================================================================
