------------------------------ MODULE CallGraph ------------------------------
(***************************************************************************)
(* The search for recursion through functions whose parameters live in     *)
(* storage of their own.  Compiler and linker hold the same program twice: *)
(* compile_function.c, call_graph_tarjan_visit and                         *)
(* analyze_static_parameter_call_graph, for the functions of a unit;       *)
(* n65ld.c, call_graph_tarjan_visit and enforce_symbol_backed_call_graph,  *)
(* for the functions of all objects.  The C code recurses; here "frames"   *)
(* is its call stack, a step looks at one edge or ends one call.           *)
(***************************************************************************)
EXTENDS Naturals, Sequences, FiniteSets

VARIABLES
  nodes,      \* the functions: name, and whether it has symbol-backed parameters
  edges,      \* the recorded calls, pairs of positions in nodes
  index,      \* indices: 0 for the -1 of a node not reached yet
  low,        \* lowlink
  stack,      \* the nodes not in a component yet, in the order reached
  component,  \* component: 0 for none
  count,      \* component_count
  frames      \* calls of call_graph_tarjan_visit: the node and the next edge

graphVars == <<nodes, edges>>
walkVars == <<index, low, stack, component, count, frames>>

Nodes == DOMAIN nodes
Edges == {edges[k] : k \in DOMAIN edges}
Least(a, b) == IF a < b THEN a ELSE b
Lowest(S) == CHOOSE i \in S : \A j \in S : i <= j

\* call_graph_find_or_add_node: the position of a name, added at the end.
PositionIn(ns, name) ==
  IF \E i \in DOMAIN ns : ns[i].name = name
  THEN CHOOSE i \in DOMAIN ns : ns[i].name = name
  ELSE Len(ns) + 1
WithNode(ns, name, marked) ==
  IF PositionIn(ns, name) \in DOMAIN ns THEN ns
  ELSE Append(ns, [name |-> name, marked |-> marked])

\* call_graph_add_edge and the end of record_call_graph_edge.
WithEdge(es, from, to) ==
  IF \E k \in DOMAIN es : es[k] = <<from, to>> THEN es ELSE Append(es, <<from, to>>)

-----------------------------------------------------------------------------
(* The walk *)

\* Another program: no function and no call is recorded yet.
NoGraph == nodes = <<>> /\ edges = <<>>
NoWalk ==
  /\ index = <<>> /\ low = <<>> /\ component = <<>>
  /\ stack = <<>> /\ count = 0 /\ frames = <<>>

StartWalk ==
  /\ index' = [i \in Nodes |-> 0] /\ low' = [i \in Nodes |-> 0]
  /\ component' = [i \in Nodes |-> 0]
  /\ stack' = <<>> /\ count' = 0 /\ frames' = <<>>
  /\ UNCHANGED graphVars

Reached == {i \in Nodes : index[i] # 0}
OnStack(w) == \E k \in DOMAIN stack : stack[k] = w
Top == frames[Len(frames)]
Beneath == SubSeq(frames, 1, Len(frames) - 1)
Advanced(fs) == [fs EXCEPT ![Len(fs)].edge = @ + 1]

Enter(v, fs) ==
  /\ index' = [index EXCEPT ![v] = Cardinality(Reached) + 1]
  /\ low' = [low EXCEPT ![v] = Cardinality(Reached) + 1]
  /\ stack' = Append(stack, v)
  /\ frames' = Append(fs, [node |-> v, edge |-> 1])

\* The loop over all nodes starts a call for the first one not reached.
VisitRoot ==
  /\ frames = <<>> /\ Reached # Nodes
  /\ Enter(Lowest(Nodes \ Reached), frames)
  /\ UNCHANGED <<graphVars, component, count>>

Target == edges[Top.edge][2]
AtEdge == frames # <<>> /\ Top.edge <= Len(edges)
Own == edges[Top.edge][1] = Top.node

SkipEdge ==
  /\ AtEdge /\ ~Own
  /\ frames' = Advanced(frames)
  /\ UNCHANGED <<graphVars, index, low, stack, component, count>>

Descend ==
  /\ AtEdge /\ Own /\ index[Target] = 0
  /\ Enter(Target, frames)
  /\ UNCHANGED <<graphVars, component, count>>

\* Mutant: an edge into a finished component counts like one onto the stack.
JoinsFinished(w) == TRUE
Joins(w) == OnStack(w)
SeenEdge ==
  /\ AtEdge /\ Own /\ index[Target] # 0
  /\ low' = [low EXCEPT ![Top.node] = IF Joins(Target) THEN Least(@, index[Target]) ELSE @]
  /\ frames' = Advanced(frames)
  /\ UNCHANGED <<graphVars, index, stack, component, count>>

\* The end of a call: the root of a component takes it off the stack, and the
\* caller takes over the lowlink.
Bottom(v) == CHOOSE k \in DOMAIN stack : stack[k] = v
Popped(v) == {stack[k] : k \in Bottom(v)..Len(stack)}
Return ==
  /\ frames # <<>> /\ Top.edge > Len(edges)
  /\ LET v == Top.node IN
     /\ IF low[v] = index[v]
        THEN /\ component' = [i \in Nodes |->
                                IF i \in Popped(v) THEN count + 1 ELSE component[i]]
             /\ stack' = SubSeq(stack, 1, Bottom(v) - 1)
             /\ count' = count + 1
        ELSE UNCHANGED <<component, stack, count>>
     /\ IF Beneath = <<>>
        THEN frames' = <<>> /\ UNCHANGED low
        ELSE /\ frames' = Advanced(Beneath)
             /\ low' = [low EXCEPT ![Beneath[Len(Beneath)].node] = Least(@, low[v])]
  /\ UNCHANGED <<graphVars, index>>

Walk == VisitRoot \/ SkipEdge \/ Descend \/ SeenEdge \/ Return
Walked == frames = <<>> /\ Reached = Nodes

-----------------------------------------------------------------------------
(* The verdict *)

Members(c) == {i \in Nodes : component[i] = c}
\* Mutant: any call makes a cycle.
CyclicByCall(c) == \E e \in Edges : component[e[1]] = c
Cyclic(c) == \/ Cardinality(Members(c)) > 1
             \/ \E e \in Edges : component[e[1]] = c /\ component[e[2]] = c
Marked == {i \in Nodes : nodes[i].marked}
Refused == \E c \in 1..count : Cyclic(c) /\ Members(c) \cap Marked # {}

-----------------------------------------------------------------------------
(* What the walk is to find *)

Field(R) == {e[1] : e \in R} \cup {e[2] : e \in R}
Closed(R, S) == \A e \in R : e[1] \in S => e[2] \in S

\* What can be reached from X by any number of steps of R.
From(R, X) == {y \in X \cup Field(R) :
                 \A S \in SUBSET (X \cup Field(R)) : X \subseteq S /\ Closed(R, S) => y \in S}
Recursive(R, x) == x \in From(R, {e[2] : e \in {d \in R : d[1] = x}})
==============================================================================
