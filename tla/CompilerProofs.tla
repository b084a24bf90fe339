--------------------------- MODULE CompilerProofs ----------------------------
(***************************************************************************)
(* What the compiler and the linker accept and refuse, for every program.  *)
(*                                                                         *)
(* First the walk of call_graph_tarjan_visit, for every graph: WalkInv     *)
(* says of the nodes on the stack that each reaches a nested call and is   *)
(* reached by those before it, and that a lowlink is a number on the stack *)
(* that is reached and not above any that an edge looked at leads to.      *)
(* Then compiler, objects and linker, for every program: LinkInv says      *)
(* which calls and which marks the graph has at every stage, so that the   *)
(* verdict of the walk is one about the program.                           *)
(*                                                                         *)
(* Last the overloads of a name, for every set of declarations and calls:  *)
(* the scan keeps one candidate and one flag; that the flag is right needs *)
(* an invariant that says of all candidates behind the scan what they      *)
(* cost.  No two entries of the table have the same signature, and a       *)
(* symbol leaves nothing of a signature out but the bounds of the arrays.  *)
(***************************************************************************)
EXTENDS Contract, Overload, FiniteSetTheorems, SequenceTheorems, WellFoundedInduction, TLAPS

-----------------------------------------------------------------------------
(* Reaching *)

\* From(R, X) is the least set that has X and is closed under R.
LEMMA FromHas ==
  ASSUME NEW R, NEW X
  PROVE  X \subseteq From(R, X) /\ Closed(R, From(R, X))
<1>1. X \subseteq From(R, X)
  BY DEF From
<1>2. ASSUME NEW e \in R, e[1] \in From(R, X)
      PROVE  e[2] \in From(R, X)
  <2>1. e[2] \in X \cup Field(R)
    BY DEF Field
  <2>2. ASSUME NEW S \in SUBSET (X \cup Field(R)), X \subseteq S, Closed(R, S)
        PROVE  e[2] \in S
    BY <1>2, <2>2 DEF From, Closed
  <2> QED BY <2>1, <2>2 DEF From
<1> QED BY <1>1, <1>2 DEF Closed

LEMMA FromLeast ==
  ASSUME NEW R, NEW X, NEW S, X \subseteq S, Closed(R, S)
  PROVE  From(R, X) \subseteq S
<1> DEFINE T == S \cap (X \cup Field(R))
<1>1. T \in SUBSET (X \cup Field(R)) /\ X \subseteq T
  OBVIOUS
<1>2. Closed(R, T)
  BY DEF Closed, Field
<1> QED BY <1>1, <1>2 DEF From

LEMMA FromWithin ==
  ASSUME NEW R, NEW X, NEW Y, X \subseteq From(R, Y)
  PROVE  From(R, X) \subseteq From(R, Y)
BY FromHas, FromLeast

-----------------------------------------------------------------------------
(* The walk *)


\* The least of some numbers is one of them.
LEMMA LowestIn ==
  ASSUME NEW S, S # {}, S \subseteq Nat
  PROVE  Lowest(S) \in S
<1> DEFINE R == {ss \in Nat \X Nat : ss[1] < ss[2]}
<1>1. IsWellFoundedOn(R, Nat)
  BY NatLessThanWellFounded DEF OpToRel
<1>2. \A i, j \in Nat : ~ (<<j, i>> \in R) => i <= j
  OBVIOUS
<1> HIDE DEF R
<1>3. \E i \in S : \A j \in S : ~ (<<j, i>> \in R)
  BY <1>1, WFMin
<1>4. \E i \in S : \A j \in S : i <= j
  BY <1>2, <1>3
<1> QED BY <1>4 DEF Lowest
\* y can be reached from x over the recorded calls.
Reach(x, y) == y \in From(Edges, {x})

\* The function whose call is the k-th of the nested ones, and whether the loop of the call
\* of its source has looked at edge e.
Gray(k) == frames[k].node
Looked(e) == /\ index[edges[e][1]] # 0
             /\ \A k \in DOMAIN frames : Gray(k) = edges[e][1] => e < frames[k].edge

GraphTyped ==
  /\ nodes \in Seq({nodes[i] : i \in Nodes})
  /\ edges \in Seq(Nodes \X Nodes)
WalkTyped ==
  /\ index \in [Nodes -> Nat] /\ low \in [Nodes -> Nat] /\ component \in [Nodes -> Nat]
  /\ count \in Nat /\ stack \in Seq(Nodes)
  /\ frames \in Seq([node : Nodes, edge : Nat \ {0}])
  /\ \A i \in Nodes : component[i] <= count

\* The numbers are given in the order in which the functions are reached.
Numbered ==
  /\ \A i \in Nodes : index[i] <= Cardinality(Reached)
  /\ \A i, j \in Reached : index[i] = index[j] => i = j

\* The stack has what is reached and in no component, in that order.
Stacked ==
  /\ \A j, k \in DOMAIN stack : j < k => index[stack[j]] < index[stack[k]]
  /\ \A i \in Nodes : OnStack(i) <=> index[i] # 0 /\ component[i] = 0
  /\ \A i \in Nodes : component[i] # 0 => index[i] # 0

\* The nested calls follow the edges they have come to.
Nested ==
  /\ \A j, k \in DOMAIN frames : j < k => index[Gray(j)] < index[Gray(k)]
  /\ \A k \in DOMAIN frames : OnStack(Gray(k)) /\ frames[k].edge <= Len(edges) + 1
  /\ \A k \in DOMAIN frames : k < Len(frames) =>
       frames[k].edge <= Len(edges) /\ edges[frames[k].edge] = <<Gray(k), Gray(k + 1)>>

\* What has been looked at is reached; what is in a component is left to earlier ones only.
Explored ==
  /\ \A e \in DOMAIN edges : Looked(e) => index[edges[e][2]] # 0
  /\ \A e \in DOMAIN edges : component[edges[e][1]] # 0 =>
       component[edges[e][2]] # 0 /\ component[edges[e][2]] <= component[edges[e][1]]

\* A nested call reaches what is behind it on the stack, which reaches a nested call.
Connected ==
  /\ \A k \in DOMAIN frames, w \in Nodes :
       OnStack(w) /\ index[Gray(k)] <= index[w] => Reach(Gray(k), w)
  /\ \A w \in Nodes : OnStack(w) =>
       \E k \in DOMAIN frames : index[Gray(k)] <= index[w] /\ Reach(w, Gray(k))

\* A lowlink is the number of a function on the stack that is reached, and not above that of
\* any an edge between here and the next nested call leads to.
LowReached ==
  \A k \in DOMAIN frames :
    /\ low[Gray(k)] <= index[Gray(k)]
    /\ \E u \in Nodes : OnStack(u) /\ low[Gray(k)] = index[u] /\ Reach(Gray(k), u)
Between(k, w) == /\ OnStack(w) /\ index[Gray(k)] <= index[w]
                 /\ k < Len(frames) => index[w] < index[Gray(k + 1)]
LowBounds ==
  \A k \in DOMAIN frames, e \in DOMAIN edges :
    Looked(e) /\ Between(k, edges[e][1]) /\ OnStack(edges[e][2]) =>
      low[Gray(k)] <= index[edges[e][2]]

\* Functions of a component reach each other.
Mutual == \A i, j \in Nodes : component[i] = component[j] /\ component[i] # 0 => Reach(i, j)

WalkInv == /\ GraphTyped /\ WalkTyped /\ Numbered /\ Stacked /\ Nested /\ Explored
           /\ Connected /\ LowReached /\ LowBounds /\ Mutual

LEMMA ReachSelf ==
  ASSUME NEW x
  PROVE  Reach(x, x)
BY FromHas DEF Reach

LEMMA ReachEdge ==
  ASSUME NEW e \in DOMAIN edges
  PROVE  Reach(edges[e][1], edges[e][2])
<1>1. edges[e] \in Edges
  BY DEF Edges
<1> QED BY <1>1, FromHas DEF Reach, Closed

LEMMA ReachOver ==
  ASSUME NEW x, NEW y, NEW z, Reach(x, y), Reach(y, z)
  PROVE  Reach(x, z)
<1>1. From(Edges, {y}) \subseteq From(Edges, {x})
  BY FromWithin DEF Reach
<1> QED BY <1>1 DEF Reach

\* The graph stays as it is while it is walked.
LEMMA GraphStays ==
  ASSUME UNCHANGED graphVars
  PROVE  /\ Nodes' = Nodes /\ edges' = edges /\ Edges' = Edges /\ nodes' = nodes
         /\ \A x, y : Reach(x, y)' <=> Reach(x, y)
         /\ GraphTyped => GraphTyped'
<1>1. Nodes' = Nodes /\ edges' = edges /\ nodes' = nodes
  BY DEF graphVars, Nodes
<1>2. Edges' = Edges
  BY <1>1 DEF Edges
<1>3. \A x, y : Reach(x, y)' <=> Reach(x, y)
  BY <1>2 DEF Reach
<1> QED BY <1>1, <1>2, <1>3 DEF GraphTyped

\* What the types say of the nested calls, and of those reached.
LEMMA Shape ==
  ASSUME WalkInv
  PROVE  /\ Nodes = 1 .. Len(nodes) /\ Len(nodes) \in Nat /\ IsFiniteSet(Nodes)
         /\ IsFiniteSet(Reached) /\ Cardinality(Reached) \in Nat
         /\ Len(edges) \in Nat /\ DOMAIN edges = 1 .. Len(edges)
         /\ \A e \in DOMAIN edges : edges[e][1] \in Nodes /\ edges[e][2] \in Nodes
         /\ Len(frames) \in Nat /\ DOMAIN frames = 1 .. Len(frames)
         /\ \A k \in DOMAIN frames : Gray(k) \in Nodes /\ frames[k].edge \in Nat \ {0}
         /\ Len(stack) \in Nat /\ DOMAIN stack = 1 .. Len(stack)
         /\ \A k \in DOMAIN stack : stack[k] \in Nodes
         /\ \A i \in Nodes : index[i] \in Nat /\ low[i] \in Nat /\ component[i] \in Nat
<1>1. Nodes = 1 .. Len(nodes) /\ Len(nodes) \in Nat
  BY DEF WalkInv, GraphTyped, Nodes
<1>2. IsFiniteSet(Nodes)
  BY <1>1, FS_Interval
<1>3. IsFiniteSet(Reached) /\ Cardinality(Reached) \in Nat
  BY <1>2, FS_Subset, FS_CardinalityType DEF Reached
<1>4. /\ Len(edges) \in Nat /\ DOMAIN edges = 1 .. Len(edges)
      /\ \A e \in DOMAIN edges : edges[e][1] \in Nodes /\ edges[e][2] \in Nodes
  BY DEF WalkInv, GraphTyped
<1>5. /\ Len(frames) \in Nat /\ DOMAIN frames = 1 .. Len(frames)
      /\ \A k \in DOMAIN frames : Gray(k) \in Nodes /\ frames[k].edge \in Nat \ {0}
  <2> DEFINE Frames == [node : Nodes, edge : Nat \ {0}]
  <2>1. frames \in Seq(Frames)
    BY DEF WalkInv, WalkTyped
  <2>2. \A k \in DOMAIN frames : frames[k] \in Frames
    <3> HIDE DEF Frames
    <3> QED BY <2>1
  <2> QED BY <2>1, <2>2 DEF Gray
<1>6. /\ Len(stack) \in Nat /\ DOMAIN stack = 1 .. Len(stack)
      /\ \A k \in DOMAIN stack : stack[k] \in Nodes
  BY DEF WalkInv, WalkTyped
<1>7. \A i \in Nodes : index[i] \in Nat /\ low[i] \in Nat /\ component[i] \in Nat
  BY DEF WalkInv, WalkTyped
<1> QED BY <1>1, <1>2, <1>3, <1>4, <1>5, <1>6, <1>7

LEMMA Numeric ==
  ASSUME WalkInv
  PROVE  /\ \A i \in Nodes : index[i] \in Nat /\ low[i] \in Nat /\ component[i] \in Nat
         /\ \A k \in DOMAIN frames : /\ Gray(k) \in Nodes /\ index[Gray(k)] \in Nat
                                    /\ low[Gray(k)] \in Nat
         /\ \A e \in DOMAIN edges :
              /\ edges[e][1] \in Nodes /\ index[edges[e][1]] \in Nat
              /\ edges[e][2] \in Nodes /\ index[edges[e][2]] \in Nat
BY Shape
LEMMA Positions ==
  ASSUME WalkInv
  PROVE  /\ Len(edges) \in Nat /\ DOMAIN edges = 1 .. Len(edges)
         /\ Len(frames) \in Nat /\ DOMAIN frames = 1 .. Len(frames)
         /\ \A k \in DOMAIN frames : frames[k].edge \in Nat \ {0}
         /\ Len(stack) \in Nat /\ DOMAIN stack = 1 .. Len(stack)
BY Shape

\* With no nested call the stack is empty.
LEMMA NothingLeft ==
  ASSUME WalkInv, frames = <<>>, NEW w \in Nodes
  PROVE  ~OnStack(w)
BY DEF WalkInv, Connected

\* A call of call_graph_tarjan_visit for a function not reached yet: from the loop over all
\* functions, or over an edge of the innermost call.
Entering(v) ==
  /\ Enter(v, frames) /\ v \in Nodes /\ index[v] = 0
  /\ UNCHANGED <<graphVars, component, count>>
  /\ frames = <<>> \/ (AtEdge /\ Own /\ Target = v)

\* What such a call does to the numbers, to the stack and to the nested calls.
PushedNumbers(v) ==
  /\ v \in Nodes /\ index[v] = 0
  /\ index' \in [Nodes -> Nat] /\ low' \in [Nodes -> Nat]
  /\ index'[v] = Cardinality(Reached') /\ low'[v] = index'[v]
  /\ index'[v] \in Nat /\ index'[v] # 0
  /\ \A i \in Nodes : index[i] < index'[v]
  /\ \A i \in Nodes : i # v => index'[i] = index[i] /\ low'[i] = low[i]
  /\ \A i \in Reached' : i \in Reached \/ i = v
PushedStack(v) ==
  /\ stack' = Append(stack, v) /\ stack' \in Seq(Nodes) /\ ~OnStack(v)
  /\ \A w : OnStack(w)' <=> OnStack(w) \/ w = v
  /\ component' = component /\ count' = count /\ component[v] = 0
PushedCalls(v) ==
  /\ frames' \in Seq([node : Nodes, edge : Nat \ {0}])
  /\ Len(frames') = Len(frames) + 1 /\ DOMAIN frames' = 1 .. Len(frames')
  /\ \A k \in DOMAIN frames : /\ frames'[k] = frames[k] /\ frames[k].node # v
                             /\ k \in DOMAIN frames' /\ k < Len(frames')
  /\ \A k \in DOMAIN frames' : k \in DOMAIN frames \/ k = Len(frames')
  /\ frames'[Len(frames')].node = v /\ frames'[Len(frames')].edge = 1
PushedLooked(v) ==
  /\ \A k \in DOMAIN frames : Reach(Gray(k), v)
  /\ \A e \in DOMAIN edges : Looked(e)' <=> Looked(e) /\ edges[e][1] # v

LEMMA Entered ==
  ASSUME WalkInv, NEW v, Entering(v)
  PROVE  PushedNumbers(v) /\ PushedStack(v) /\ PushedCalls(v) /\ PushedLooked(v)
<1> USE Shape
<1>1. /\ index' = [index EXCEPT ![v] = Cardinality(Reached) + 1]
      /\ low' = [low EXCEPT ![v] = Cardinality(Reached) + 1]
      /\ stack' = Append(stack, v) /\ component' = component /\ count' = count
      /\ frames' = Append(frames, [node |-> v, edge |-> 1])
      /\ v \in Nodes /\ index[v] = 0 /\ Nodes' = Nodes
  BY GraphStays DEF Entering, Enter
<1>2. Reached' = Reached \cup {v} /\ v \notin Reached
  <2>1. index \in [Nodes -> Nat] /\ Cardinality(Reached) \in Nat
    BY DEF WalkInv, WalkTyped
  <2>2. \A i \in Nodes : index'[i] = IF i = v THEN Cardinality(Reached) + 1 ELSE index[i]
    BY <1>1, <2>1
  <2>3. \A i : i \in Reached' <=> i \in Nodes /\ index'[i] # 0
    BY <1>1 DEF Reached
  <2>4. \A i : i \in Reached <=> i \in Nodes /\ index[i] # 0
    BY DEF Reached
  <2>5. Cardinality(Reached) + 1 # 0
    OBVIOUS
  <2> QED BY <1>1, <2>2, <2>3, <2>4, <2>5
<1>3. Cardinality(Reached') = Cardinality(Reached) + 1
  BY <1>2, FS_AddElement
<1>4. component[v] = 0 /\ ~OnStack(v)
  BY <1>1 DEF WalkInv, Stacked
<1>5. \A w : OnStack(w)' <=> OnStack(w) \/ w = v
  <2>1. /\ Len(stack') = Len(stack) + 1 /\ DOMAIN stack' = 1 .. Len(stack) + 1
        /\ \A k \in DOMAIN stack : stack'[k] = stack[k]
        /\ stack'[Len(stack) + 1] = v
    <3>1. stack \in Seq(Nodes)
      BY DEF WalkInv, WalkTyped
    <3> QED BY <1>1, <3>1
  <2>2. \A k : k \in DOMAIN stack' <=> k \in DOMAIN stack \/ k = Len(stack) + 1
    BY <2>1
  <2> QED BY <2>1, <2>2 DEF OnStack
<1>6. /\ Len(frames') = Len(frames) + 1 /\ DOMAIN frames' = 1 .. Len(frames) + 1
      /\ frames' \in Seq([node : Nodes, edge : Nat \ {0}])
      /\ \A k \in DOMAIN frames : frames'[k] = frames[k]
      /\ frames'[Len(frames) + 1] = [node |-> v, edge |-> 1]
  <2> DEFINE Frames == [node : Nodes, edge : Nat \ {0}]
             new == [node |-> v, edge |-> 1]
  <2>1. frames \in Seq(Frames) /\ new \in Frames
    BY <1>1 DEF WalkInv, WalkTyped
  <2>2. frames' = Append(frames, new)
    BY <1>1
  <2> HIDE DEF Frames, new
  <2>3. /\ Len(frames') = Len(frames) + 1 /\ DOMAIN frames' = 1 .. Len(frames) + 1
        /\ frames' \in Seq(Frames)
        /\ \A k \in DOMAIN frames : frames'[k] = frames[k]
        /\ frames'[Len(frames) + 1] = new
    BY <2>1, <2>2
  <2> QED BY <2>3 DEF Frames, new
<1>7. PushedNumbers(v)
  <2>1. /\ index \in [Nodes -> Nat] /\ low \in [Nodes -> Nat] /\ Cardinality(Reached) \in Nat
        /\ v \in Nodes
    BY <1>1 DEF WalkInv, WalkTyped
  <2>2. index' \in [Nodes -> Nat] /\ low' \in [Nodes -> Nat]
    BY <1>1, <2>1
  <2>3. \A i \in Nodes : /\ index'[i] = IF i = v THEN Cardinality(Reached') ELSE index[i]
                         /\ low'[i] = IF i = v THEN Cardinality(Reached') ELSE low[i]
    BY <1>1, <1>3, <2>1
  <2>4. \A i \in Nodes : index[i] < Cardinality(Reached')
    BY <1>3, <2>1 DEF WalkInv, Numbered
  <2>5. /\ index'[v] = Cardinality(Reached') /\ low'[v] = index'[v]
        /\ index'[v] # 0 /\ index'[v] \in Nat
    BY <1>3, <2>1, <2>3
  <2>6. \A i \in Nodes : i # v => index'[i] = index[i] /\ low'[i] = low[i]
    BY <2>3
  <2>7. \A i \in Reached' : i \in Reached \/ i = v
    BY <1>2
  <2> QED BY <1>1, <2>2, <2>4, <2>5, <2>6, <2>7 DEF PushedNumbers
<1>8. PushedStack(v)
  <2>1. stack' \in Seq(Nodes)
    BY <1>1 DEF WalkInv, WalkTyped
  <2> QED BY <1>1, <1>4, <1>5, <2>1 DEF PushedStack
<1>9. PushedCalls(v)
  <2>1. \A k \in DOMAIN frames : frames[k].node # v
    BY <1>4 DEF WalkInv, Nested, Gray
  <2> QED BY <1>6, <2>1, SMTT(60) DEF PushedCalls
<1>10. ASSUME NEW k \in DOMAIN frames
       PROVE  Reach(Gray(k), v)
  <2>1. AtEdge /\ Own /\ Target = v /\ Len(frames) \in DOMAIN frames
    BY <1>10 DEF Entering
  <2>2. OnStack(Gray(Len(frames))) /\ index[Gray(k)] <= index[Gray(Len(frames))]
    <3>1. k < Len(frames) \/ k = Len(frames)
      BY <1>10
    <3> QED BY <2>1, <3>1 DEF WalkInv, Nested
  <2>3. Reach(Gray(k), Gray(Len(frames)))
    BY <2>1, <2>2 DEF WalkInv, Connected
  <2>4. /\ Top.edge \in DOMAIN edges
        /\ edges[Top.edge][1] = Gray(Len(frames)) /\ edges[Top.edge][2] = v
    BY <2>1 DEF AtEdge, Own, Target, Top, Gray
  <2> QED BY <2>3, <2>4, ReachEdge, ReachOver
<1>11. ASSUME NEW e \in DOMAIN edges
       PROVE  Looked(e)' <=> Looked(e) /\ edges[e][1] # v
  <2>1. edges' = edges
    BY GraphStays DEF Entering
  <2>2. CASE edges[e][1] = v
    <3>1. Len(frames') \in DOMAIN frames' /\ ~(e < frames'[Len(frames')].edge)
      BY <1>9 DEF PushedCalls
    <3> QED BY <1>9, <2>1, <2>2, <3>1 DEF Looked, Gray, PushedCalls
  <2>3. CASE edges[e][1] # v
    <3>1. index'[edges[e][1]] = index[edges[e][1]]
      BY <1>7, <2>3 DEF PushedNumbers
    <3>2. (\A k \in DOMAIN frames' : frames'[k].node = edges[e][1] => e < frames'[k].edge)
          <=> \A k \in DOMAIN frames : frames[k].node = edges[e][1] => e < frames[k].edge
      BY <1>9, <2>3 DEF PushedCalls
    <3> QED BY <2>1, <2>3, <3>1, <3>2 DEF Looked, Gray
  <2> QED BY <2>2, <2>3
<1> QED BY <1>7, <1>8, <1>9, <1>10, <1>11 DEF PushedLooked

LEMMA EnteringKeeps ==
  ASSUME WalkInv, NEW v, Entering(v)
  PROVE  WalkInv'
<1> USE Shape
<1>a. PushedNumbers(v) /\ PushedStack(v) /\ PushedCalls(v) /\ PushedLooked(v)
  BY Entered
<1>b. /\ Nodes' = Nodes /\ edges' = edges /\ GraphTyped'
      /\ \A x, y : Reach(x, y)' <=> Reach(x, y)
  BY GraphStays DEF Entering, WalkInv
<1>1. WalkTyped'
  BY <1>a, <1>b DEF WalkInv, WalkTyped, PushedNumbers, PushedStack, PushedCalls
<1>2. Numbered'
  <2>1. ASSUME NEW i \in Nodes
        PROVE  index'[i] <= Cardinality(Reached')
    <3>1. CASE i = v
      BY <1>a, <3>1 DEF PushedNumbers
    <3>2. CASE i # v
      BY <1>a, <3>2 DEF PushedNumbers
    <3> QED BY <3>1, <3>2
  <2>2. ASSUME NEW i \in Reached', NEW j \in Reached', index'[i] = index'[j]
        PROVE  i = j
    <3>1. (i \in Reached \/ i = v) /\ (j \in Reached \/ j = v) /\ i \in Nodes /\ j \in Nodes
      BY <1>a, <1>b, <2>2 DEF Reached, PushedNumbers
    <3>2. CASE i # v /\ j # v
      <4>1. index[i] = index[j]
        BY <1>a, <2>2, <3>1, <3>2 DEF PushedNumbers
      <4> QED BY <3>1, <3>2, <4>1 DEF WalkInv, Numbered
    <3>3. \A x \in Nodes : x # v => index'[x] # index'[v]
      BY <1>a DEF PushedNumbers
    <3> QED BY <2>2, <3>1, <3>2, <3>3
  <2> QED BY <1>b, <2>1, <2>2 DEF Numbered
<1>3. Stacked'
  <2>1. ASSUME NEW j \in DOMAIN stack', NEW k \in DOMAIN stack', j < k
        PROVE  index'[stack'[j]] < index'[stack'[k]]
    <3>1. stack \in Seq(Nodes) /\ stack' = Append(stack, v)
      BY <1>a DEF WalkInv, WalkTyped, PushedStack
    <3>2. j \in DOMAIN stack /\ stack'[j] = stack[j] /\ stack[j] \in Nodes /\ stack[j] # v
      BY <1>a, <2>1, <3>1 DEF OnStack, PushedStack
    <3>3. CASE k \in DOMAIN stack
      <4>1. stack'[k] = stack[k] /\ stack[k] \in Nodes /\ stack[k] # v
        BY <1>a, <3>1, <3>3 DEF OnStack, PushedStack
      <4>2. index[stack[j]] < index[stack[k]]
        BY <2>1, <3>2, <3>3 DEF WalkInv, Stacked
      <4> QED BY <1>a, <3>2, <4>1, <4>2 DEF PushedNumbers
    <3>4. CASE k \notin DOMAIN stack
      <4>1. stack'[k] = v
        BY <2>1, <3>1, <3>4
      <4> QED BY <1>a, <3>2, <4>1 DEF PushedNumbers
    <3> QED BY <3>3, <3>4
  <2>2. ASSUME NEW i \in Nodes
        PROVE  OnStack(i)' <=> index'[i] # 0 /\ component'[i] = 0
    <3>1. CASE i = v
      BY <1>a, <3>1 DEF PushedNumbers, PushedStack
    <3>2. CASE i # v
      BY <1>a, <3>2 DEF WalkInv, Stacked, PushedNumbers, PushedStack
    <3> QED BY <3>1, <3>2
  <2>3. ASSUME NEW i \in Nodes, component'[i] # 0
        PROVE  index'[i] # 0
    BY <1>a, <2>3 DEF WalkInv, Stacked, PushedNumbers, PushedStack
  <2> QED BY <1>b, <2>1, <2>2, <2>3 DEF Stacked
<1>4. Nested'
  <2>1. ASSUME NEW j \in DOMAIN frames', NEW k \in DOMAIN frames', j < k
        PROVE  index'[frames'[j].node] < index'[frames'[k].node]
    <3>1. /\ j \in DOMAIN frames /\ frames'[j] = frames[j]
          /\ frames[j].node \in Nodes /\ frames[j].node # v
      BY <1>a, <2>1, SMTT(60) DEF PushedCalls, Gray
    <3>2. CASE k \in DOMAIN frames
      <4>1. frames'[k] = frames[k] /\ frames[k].node \in Nodes /\ frames[k].node # v
        BY <1>a, <3>2 DEF PushedCalls, Gray
      <4>2. index[frames[j].node] < index[frames[k].node]
        BY <2>1, <3>1, <3>2 DEF WalkInv, Nested, Gray
      <4> QED BY <1>a, <3>1, <4>1, <4>2 DEF PushedNumbers
    <3>3. CASE k = Len(frames')
      <4>1. frames'[k].node = v
        BY <1>a, <3>3 DEF PushedCalls
      <4> QED BY <1>a, <3>1, <4>1 DEF PushedNumbers
    <3> QED BY <1>a, <3>2, <3>3 DEF PushedCalls
  <2>2. ASSUME NEW k \in DOMAIN frames', NEW x, x = frames'[k].node
        PROVE  OnStack(x)' /\ frames'[k].edge <= Len(edges) + 1
    <3>1. CASE k \in DOMAIN frames
      <4>1. OnStack(frames[k].node) /\ frames[k].edge <= Len(edges) + 1
        BY <3>1 DEF WalkInv, Nested, Gray
      <4>2. frames'[k] = frames[k]
        BY <1>a, <3>1 DEF PushedCalls
      <4> QED BY <1>a, <2>2, <4>1, <4>2 DEF PushedStack
    <3>2. CASE k = Len(frames')
      <4>1. frames'[k].node = v /\ frames'[k].edge = 1
        BY <1>a, <3>2 DEF PushedCalls
      <4> QED BY <1>a, <2>2, <4>1 DEF PushedStack
    <3> QED BY <1>a, <3>1, <3>2 DEF PushedCalls
  <2>3. ASSUME NEW k \in DOMAIN frames', k < Len(frames')
        PROVE  /\ frames'[k].edge <= Len(edges)
               /\ edges[frames'[k].edge] = <<frames'[k].node, frames'[k + 1].node>>
    <3>1. k \in DOMAIN frames /\ frames'[k] = frames[k]
      BY <1>a, <2>3 DEF PushedCalls
    <3>2. CASE k < Len(frames)
      <4>1. k + 1 \in DOMAIN frames
        BY <3>1, <3>2
      <4>2. frames'[k + 1] = frames[k + 1]
        BY <1>a, <4>1 DEF PushedCalls
      <4> QED BY <3>1, <3>2, <4>2 DEF WalkInv, Nested, Gray
    <3>3. CASE k = Len(frames)
      <4>1. AtEdge /\ Own /\ Target = v
        BY <3>1 DEF Entering
      <4>2. frames[k].edge \in DOMAIN edges /\ frames[k].edge <= Len(edges)
        BY <3>1, <3>3, <4>1 DEF AtEdge, Top
      <4>3. edges[frames[k].edge][1] = frames[k].node /\ edges[frames[k].edge][2] = v
        BY <3>3, <4>1 DEF Own, Target, Top
      <4>4. edges[frames[k].edge] \in Nodes \X Nodes
        BY <4>2, SMTT(60) DEF WalkInv, GraphTyped
      <4>5. frames'[k + 1].node = v
        BY <1>a, <3>3 DEF PushedCalls
      <4> QED BY <3>1, <4>2, <4>3, <4>4, <4>5
    <3> QED BY <3>1, <3>2, <3>3
  <2>4. \A k \in DOMAIN frames' : OnStack(Gray(k))' /\ frames'[k].edge <= Len(edges) + 1
    BY <2>2 DEF Gray, OnStack
  <2> QED BY <1>b, <2>1, <2>3, <2>4 DEF Nested, Gray
<1>5. Explored'
  <2>1. ASSUME NEW e \in DOMAIN edges, Looked(e)'
        PROVE  index'[edges[e][2]] # 0
    <3>1. index[edges[e][2]] # 0 /\ edges[e][2] \in Nodes
      BY <1>a, <2>1 DEF WalkInv, Explored, PushedLooked
    <3> QED BY <1>a, <3>1 DEF PushedNumbers
  <2>2. component' = component
    BY <1>a DEF PushedStack
  <2> QED BY <1>b, <2>1, <2>2 DEF WalkInv, Explored
<1>6. Connected'
  <2>1. ASSUME NEW k \in DOMAIN frames', NEW w \in Nodes, OnStack(w)',
               index'[frames'[k].node] <= index'[w]
        PROVE  Reach(frames'[k].node, w)
    <3>1. CASE k \in DOMAIN frames
      <4>1. frames'[k].node = Gray(k) /\ Gray(k) # v /\ Gray(k) \in Nodes
        BY <1>a, <3>1 DEF Gray, PushedCalls
      <4>2. CASE w = v
        BY <1>a, <3>1, <4>1, <4>2 DEF PushedLooked
      <4>3. CASE w # v
        <5>1. OnStack(w) /\ index[Gray(k)] <= index[w]
          BY <1>a, <2>1, <4>1, <4>3 DEF PushedStack, PushedNumbers
        <5> QED BY <3>1, <4>1, <5>1 DEF WalkInv, Connected
      <4> QED BY <4>2, <4>3
    <3>2. CASE k = Len(frames')
      <4>1. frames'[k].node = v
        BY <1>a, <3>2 DEF PushedCalls
      <4>2. w # v => index'[w] < index'[v]
        BY <1>a DEF PushedNumbers
      <4>3. index'[w] \in Nat /\ index'[v] \in Nat
        BY <1>a DEF PushedNumbers
      <4> QED BY <2>1, <4>1, <4>2, <4>3, ReachSelf
    <3> QED BY <1>a, <3>1, <3>2 DEF PushedCalls
  <2>2. ASSUME NEW w \in Nodes, OnStack(w)'
        PROVE  \E k \in DOMAIN frames' : /\ index'[frames'[k].node] <= index'[w]
                                         /\ Reach(w, frames'[k].node)
    <3>1. CASE w = v
      <4>1. Len(frames') \in DOMAIN frames' /\ frames'[Len(frames')].node = v
        BY <1>a DEF PushedCalls
      <4>2. index'[v] <= index'[v]
        BY <1>a DEF PushedNumbers
      <4> QED BY <3>1, <4>1, <4>2, ReachSelf
    <3>2. CASE w # v
      <4>1. OnStack(w)
        BY <1>a, <2>2, <3>2 DEF PushedStack
      <4>2. PICK k \in DOMAIN frames : index[Gray(k)] <= index[w] /\ Reach(w, Gray(k))
        BY <4>1 DEF WalkInv, Connected
      <4>3. k \in DOMAIN frames' /\ frames'[k].node = Gray(k) /\ Gray(k) # v /\ Gray(k) \in Nodes
        BY <1>a, <4>2 DEF Gray, PushedCalls
      <4>4. index'[Gray(k)] <= index'[w]
        BY <1>a, <3>2, <4>2, <4>3 DEF PushedNumbers
      <4> QED BY <4>2, <4>3, <4>4
    <3> QED BY <3>1, <3>2
  <2> QED BY <1>b, <2>1, <2>2 DEF Connected, Gray
<1>7. LowReached'
  <2>1. ASSUME NEW k \in DOMAIN frames'
        PROVE  /\ low'[frames'[k].node] <= index'[frames'[k].node]
               /\ \E u \in Nodes : /\ OnStack(u)' /\ low'[frames'[k].node] = index'[u]
                                   /\ Reach(frames'[k].node, u)
    <3>1. CASE k \in DOMAIN frames
      <4>1. frames'[k].node = Gray(k) /\ Gray(k) # v /\ Gray(k) \in Nodes
        BY <1>a, <3>1 DEF Gray, PushedCalls
      <4>2. low[Gray(k)] <= index[Gray(k)]
        BY <3>1 DEF WalkInv, LowReached
      <4>3. PICK u \in Nodes : OnStack(u) /\ low[Gray(k)] = index[u] /\ Reach(Gray(k), u)
        BY <3>1 DEF WalkInv, LowReached
      <4>4. u # v /\ OnStack(u)'
        BY <1>a, <4>3 DEF PushedStack
      <4>5. /\ low'[Gray(k)] = low[Gray(k)] /\ index'[Gray(k)] = index[Gray(k)]
            /\ index'[u] = index[u]
        BY <1>a, <4>1, <4>4 DEF PushedNumbers
      <4> QED BY <4>1, <4>2, <4>3, <4>4, <4>5
    <3>2. CASE k = Len(frames')
      <4>1. frames'[k].node = v /\ v \in Nodes /\ OnStack(v)'
        BY <1>a, <3>2 DEF PushedCalls, PushedStack, PushedNumbers
      <4>2. low'[v] = index'[v] /\ low'[v] <= index'[v]
        BY <1>a DEF PushedNumbers
      <4> QED BY <4>1, <4>2, ReachSelf
    <3> QED BY <1>a, <3>1, <3>2 DEF PushedCalls
  <2> QED BY <1>b, <2>1 DEF LowReached, Gray
<1>8. LowBounds'
  <2>1. ASSUME NEW k \in DOMAIN frames', NEW x \in Nodes, NEW y \in Nodes,
               NEW e \in DOMAIN edges, edges[e][1] = x, edges[e][2] = y,
               Looked(e)', Between(k, x)', OnStack(y)'
        PROVE  low'[frames'[k].node] <= index'[y]
    <3>1. Looked(e) /\ x # v
      BY <1>a, <2>1 DEF PushedLooked
    <3>2. /\ OnStack(x) /\ index'[frames'[k].node] <= index[x]
          /\ k < Len(frames') => index[x] < index'[frames'[k + 1].node]
      BY <1>a, <2>1, <3>1 DEF Between, Gray, PushedStack, PushedNumbers
    <3>3. OnStack(y) \/ y = v
      BY <1>a, <2>1 DEF PushedStack
    <3>4. CASE k \in DOMAIN frames
      <4>1. frames'[k].node = Gray(k) /\ Gray(k) # v /\ Gray(k) \in Nodes
        BY <1>a, <3>4 DEF Gray, PushedCalls
      <4>2. Between(k, x)
        <5>1. ASSUME k < Len(frames)
              PROVE  index[x] < index[Gray(k + 1)]
          <6>1. k + 1 \in DOMAIN frames
            BY <3>4, <5>1
          <6>2. frames'[k + 1].node = Gray(k + 1) /\ Gray(k + 1) # v /\ Gray(k + 1) \in Nodes
            BY <1>a, <6>1 DEF Gray, PushedCalls
          <6>3. k < Len(frames')
            BY <1>a, <5>1, <3>4 DEF PushedCalls
          <6> QED BY <1>a, <3>2, <6>2, <6>3 DEF PushedNumbers
        <5>2. index[Gray(k)] <= index[x]
          BY <1>a, <3>2, <4>1 DEF PushedNumbers
        <5> QED BY <3>2, <5>1, <5>2 DEF Between
      <4>3. low'[Gray(k)] = low[Gray(k)]
        BY <1>a, <4>1 DEF PushedNumbers
      <4>4. CASE OnStack(y)
        <5>1. y # v /\ index'[y] = index[y]
          BY <1>a, <4>4 DEF PushedStack, PushedNumbers
        <5>2. low[Gray(k)] <= index[y]
          BY <2>1, <3>1, <3>4, <4>2, <4>4 DEF WalkInv, LowBounds
        <5> QED BY <4>1, <4>3, <5>1, <5>2
      <4>5. CASE y = v
        <5>1. low[Gray(k)] <= index[Gray(k)]
          BY <3>4 DEF WalkInv, LowReached
        <5>2. index[Gray(k)] < index'[y]
          BY <1>a, <4>1, <4>5 DEF PushedNumbers
        <5> QED BY <1>a, <4>1, <4>3, <5>1, <5>2, SMTT(60) DEF PushedNumbers
      <4> QED BY <3>3, <4>4, <4>5
    <3>5. CASE k = Len(frames')
      <4>1. frames'[k].node = v
        BY <1>a, <3>5 DEF PushedCalls
      <4> QED BY <1>a, <3>2, <4>1, SMTT(60) DEF PushedNumbers
    <3> QED BY <1>a, <3>4, <3>5 DEF PushedCalls
  <2>2. ASSUME NEW k \in DOMAIN frames', NEW e \in DOMAIN edges,
               Looked(e)', Between(k, edges[e][1])', OnStack(edges[e][2])'
        PROVE  low'[frames'[k].node] <= index'[edges[e][2]]
    BY <1>b, <2>1, <2>2 DEF Between, OnStack
  <2> QED BY <1>b, <2>2 DEF LowBounds, Gray
<1>9. Mutual'
  <2>1. component' = component
    BY <1>a DEF PushedStack
  <2> QED BY <1>b, <2>1 DEF WalkInv, Mutual
<1> QED BY <1>b, <1>1, <1>2, <1>3, <1>4, <1>5, <1>6, <1>7, <1>8, <1>9 DEF WalkInv

\* The order of the nested calls is that of the numbers.
LEMMA GrayOrder ==
  ASSUME WalkInv, NEW j \in DOMAIN frames, NEW k \in DOMAIN frames
  PROVE  /\ j < k <=> index[Gray(j)] < index[Gray(k)]
         /\ Gray(j) = Gray(k) => j = k
         /\ j <= k => index[Gray(j)] <= index[Gray(k)]
         /\ index[Gray(j)] # 0 /\ index[Gray(j)] \in Nat /\ OnStack(Gray(j)) /\ Gray(j) \in Nodes
<1> USE Shape
<1>1. Gray(j) \in Nodes /\ Gray(k) \in Nodes /\ index[Gray(j)] \in Nat /\ index[Gray(k)] \in Nat
  OBVIOUS
<1>2. /\ j < k => index[Gray(j)] < index[Gray(k)]
      /\ k < j => index[Gray(k)] < index[Gray(j)]
  BY DEF WalkInv, Nested
<1>3. OnStack(Gray(j)) /\ index[Gray(j)] # 0
  BY <1>1 DEF WalkInv, Nested, Stacked
<1> QED BY <1>1, <1>2, <1>3

\* The innermost call has come past an edge.
AdvancedCalls ==
  /\ frames' \in Seq([node : Nodes, edge : Nat \ {0}])
  /\ Len(frames') = Len(frames) /\ DOMAIN frames' = DOMAIN frames
  /\ Len(frames) \in DOMAIN frames
  /\ \A k \in DOMAIN frames : frames'[k].node = frames[k].node
  /\ \A k \in DOMAIN frames : k # Len(frames) => frames'[k].edge = frames[k].edge
  /\ frames'[Len(frames)].edge = Top.edge + 1
AdvancedLooked ==
  \A e \in DOMAIN edges : Looked(e)' <=> Looked(e) \/ (e = Top.edge /\ Own)

LEMMA AdvancedTop ==
  ASSUME WalkInv, AtEdge, frames' = Advanced(frames)
  PROVE  AdvancedCalls
<1> USE Shape
<1> DEFINE Frames == [node : Nodes, edge : Nat \ {0}]
           m == Len(frames)
           top == [frames[m] EXCEPT !.edge = @ + 1]
<1>1. frames \in Seq(Frames) /\ m \in DOMAIN frames
  BY DEF WalkInv, WalkTyped, AtEdge
<1>2. frames[m] \in Frames
  <2> HIDE DEF Frames
  <2> QED BY <1>1
<1>3. top \in Frames /\ top.node = frames[m].node /\ top.edge = frames[m].edge + 1
  <2>1. frames[m].node \in Nodes /\ frames[m].edge \in Nat /\ frames[m].edge + 1 \in Nat \ {0}
    BY <1>2
  <2>2. top = [node |-> frames[m].node, edge |-> frames[m].edge + 1]
    BY <1>2
  <2> QED BY <2>1, <2>2
<1>4. frames' = [frames EXCEPT ![m] = top]
  BY DEF Advanced
<1>5. /\ frames' \in Seq(Frames) /\ Len(frames') = m /\ DOMAIN frames' = DOMAIN frames
      /\ frames'[m] = top
      /\ \A k \in DOMAIN frames : k # m => frames'[k] = frames[k]
  <2> HIDE DEF Frames, top
  <2> QED BY <1>1, <1>3, <1>4
<1> QED BY <1>1, <1>3, <1>5 DEF AdvancedCalls, Top

LEMMA AdvancedOver ==
  ASSUME WalkInv, AtEdge, frames' = Advanced(frames), UNCHANGED <<graphVars, index>>
  PROVE  AdvancedLooked
<1> USE Shape
<1> DEFINE m == Len(frames)
<1>1. AdvancedCalls /\ edges' = edges /\ index' = index /\ m \in DOMAIN frames
  BY AdvancedTop DEF graphVars, AdvancedCalls
<1>2. SUFFICES ASSUME NEW e \in DOMAIN edges
               PROVE  Looked(e)' <=> Looked(e) \/ (e = Top.edge /\ Own)
  BY DEF AdvancedLooked
<1>3. \A k \in DOMAIN frames : Gray(k) = Gray(m) => k = m
  BY <1>1, GrayOrder
<1>4. CASE edges[e][1] = Gray(m)
  <2>1. index[edges[e][1]] # 0
    BY <1>1, <1>4, GrayOrder
  <2>2. Looked(e) <=> e < frames[m].edge
    BY <1>1, <1>3, <1>4, <2>1 DEF Looked
  <2>3. Looked(e)' <=> e < frames[m].edge + 1
    BY <1>1, <1>3, <1>4, <2>1 DEF Looked, AdvancedCalls, Gray, Top
  <2>4. e = frames[m].edge => Own
    BY <1>4 DEF Own, Top, Gray
  <2>5. e \in Nat /\ frames[m].edge \in Nat
    BY <1>1, Positions
  <2> QED BY <2>2, <2>3, <2>4, <2>5 DEF Top
<1>5. CASE edges[e][1] # Gray(m)
  <2>1. Looked(e)' <=> Looked(e)
    BY <1>1, <1>5 DEF Looked, AdvancedCalls, Gray
  <2>2. ~(e = Top.edge /\ Own)
    BY <1>5 DEF Own, Top, Gray
  <2> QED BY <2>1, <2>2
<1> QED BY <1>4, <1>5

\* The innermost call has come past an edge: one of another function, or one to a function that
\* was reached before, whose number the lowlink does not exceed then if it is on the stack.
Passing ==
  /\ AtEdge /\ frames' = Advanced(frames)
  /\ UNCHANGED <<graphVars, index, stack, component, count>>
  /\ Own => index[Target] # 0
  /\ low' \in [Nodes -> Nat]
  /\ \A i \in Nodes : i # Top.node => low'[i] = low[i]
  /\ low'[Top.node] <= low[Top.node]
  /\ \/ low'[Top.node] = low[Top.node]
     \/ Own /\ OnStack(Target) /\ low'[Top.node] = index[Target]
  /\ Own /\ OnStack(Target) => low'[Top.node] <= index[Target]

LEMMA PassingOver ==
  ASSUME WalkInv, SkipEdge \/ SeenEdge
  PROVE  Passing
<1> USE Shape
<1>1. /\ AtEdge /\ frames' = Advanced(frames)
      /\ UNCHANGED <<graphVars, index, stack, component, count>>
      /\ Own => index[Target] # 0
  BY DEF SkipEdge, SeenEdge
<1>2. Top.node \in Nodes /\ low \in [Nodes -> Nat] /\ low[Top.node] \in Nat
  <2>1. Len(frames) \in DOMAIN frames
    BY <1>1 DEF AtEdge
  <2> QED BY <2>1 DEF WalkInv, WalkTyped, Top, Gray
<1>3. CASE SkipEdge
  BY <1>1, <1>2, <1>3 DEF SkipEdge, Passing
<1>4. CASE SeenEdge
  <2>1. Own /\ index[Target] # 0
        /\ low' = [low EXCEPT ![Top.node] = IF Joins(Target) THEN Least(@, index[Target]) ELSE @]
    BY <1>4 DEF SeenEdge
  <2>2. Target \in Nodes /\ index[Target] \in Nat
    <3>1. Top.edge \in DOMAIN edges
      <4>1. Len(frames) \in DOMAIN frames
        BY <1>1 DEF AtEdge
      <4> QED BY <1>1, <4>1 DEF AtEdge, Top
    <3> QED BY <3>1 DEF Target
  <2>3. /\ low' \in [Nodes -> Nat]
        /\ \A i \in Nodes : i # Top.node => low'[i] = low[i]
        /\ low'[Top.node] = IF Joins(Target) THEN Least(low[Top.node], index[Target])
                            ELSE low[Top.node]
    BY <1>2, <2>1, <2>2 DEF Least
  <2> QED BY <1>1, <1>2, <2>1, <2>2, <2>3 DEF Joins, Least, Passing
<1> QED BY <1>3, <1>4

LEMMA PassingKeeps ==
  ASSUME WalkInv, Passing
  PROVE  WalkInv'
<1> USE Numeric
<1> DEFINE m == Len(frames)
<1>a. AdvancedCalls /\ AdvancedLooked /\ m \in DOMAIN frames /\ Top.node = Gray(m)
  BY AdvancedTop, AdvancedOver DEF Passing, AdvancedCalls, Top, Gray
<1>b. /\ Nodes' = Nodes /\ edges' = edges /\ GraphTyped'
      /\ \A x, y : Reach(x, y)' <=> Reach(x, y)
  BY GraphStays DEF Passing, WalkInv
<1>c. /\ index' = index /\ stack' = stack /\ component' = component /\ count' = count
      /\ Reached' = Reached /\ \A w : OnStack(w)' <=> OnStack(w)
  BY <1>b DEF Passing, Reached, OnStack
<1>d. ASSUME NEW k \in DOMAIN frames
      PROVE  frames'[k].node = Gray(k)
  BY <1>a DEF AdvancedCalls, Gray
<1>e. ASSUME NEW k \in DOMAIN frames
      PROVE  low'[Gray(k)] \in Nat /\ low'[Gray(k)] <= low[Gray(k)]
  <2>1. \A i \in Nodes : low'[i] \in Nat
    BY DEF Passing
  <2>2. CASE Gray(k) = Gray(m)
    BY <1>a, <2>1, <2>2 DEF Passing
  <2>3. CASE Gray(k) # Gray(m)
    BY <1>a, <2>1, <2>3 DEF Passing
  <2> QED BY <2>2, <2>3
<1>f. ASSUME NEW k \in DOMAIN frames, k # m
      PROVE  low'[Gray(k)] = low[Gray(k)]
  <2>1. Gray(k) # Gray(m) /\ Gray(k) \in Nodes
    BY <1>a, <1>f, GrayOrder
  <2> QED BY <1>a, <2>1 DEF Passing
<1>1. WalkTyped'
  BY <1>a, <1>b, <1>c DEF Passing, WalkInv, WalkTyped, AdvancedCalls
<1>2. Numbered' /\ Stacked' /\ Mutual'
  BY <1>b, <1>c DEF WalkInv, Numbered, Stacked, Mutual
<1>3. Nested'
  <2>1. \A j, k \in DOMAIN frames' : j < k => index'[Gray(j)'] < index'[Gray(k)']
    BY <1>a, <1>c DEF WalkInv, Nested, AdvancedCalls, Gray
  <2>2. ASSUME NEW k \in DOMAIN frames'
        PROVE  OnStack(Gray(k))'
    <3>1. k \in DOMAIN frames /\ OnStack(Gray(k))
      BY <1>a, <2>2 DEF WalkInv, Nested, AdvancedCalls
    <3>2. OnStack(frames[k].node) <=> \E j \in DOMAIN stack : stack[j] = frames[k].node
      BY DEF OnStack
    <3>3. frames'[k].node = frames[k].node
      BY <1>a, <3>1 DEF AdvancedCalls
    <3> QED BY <1>c, <3>1, <3>2, <3>3 DEF Gray, OnStack
  <2>3. ASSUME NEW k \in DOMAIN frames'
        PROVE  frames'[k].edge <= Len(edges) + 1
    <3>1. k \in DOMAIN frames
      BY <1>a, <2>3 DEF AdvancedCalls
    <3>2. CASE k = m
      <4>1. Top.edge <= Len(edges) /\ Top.edge \in Nat /\ Len(edges) \in Nat
        BY <1>a, Positions DEF Passing, AtEdge, Top
      <4> QED BY <1>a, <3>2, <4>1 DEF AdvancedCalls
    <3>3. CASE k # m
      BY <1>a, <3>1, <3>3 DEF WalkInv, Nested, AdvancedCalls
    <3> QED BY <3>2, <3>3
  <2>4. ASSUME NEW k \in DOMAIN frames', k < Len(frames')
        PROVE  /\ frames'[k].edge <= Len(edges)
               /\ edges[frames'[k].edge] = <<frames'[k].node, frames'[k + 1].node>>
    <3>1. k \in DOMAIN frames /\ k < Len(frames) /\ k + 1 \in DOMAIN frames /\ k # m
      BY <1>a, <2>4, Positions DEF AdvancedCalls
    <3> QED BY <1>a, <3>1 DEF WalkInv, Nested, AdvancedCalls, Gray
  <2> QED BY <1>b, <2>1, <2>2, <2>3, <2>4 DEF Nested, Gray
<1>4. Explored'
  <2>1. ASSUME NEW e \in DOMAIN edges, Looked(e)'
        PROVE  index[edges[e][2]] # 0
    <3>1. CASE Looked(e)
      BY <3>1 DEF WalkInv, Explored
    <3>2. CASE e = Top.edge /\ Own
      BY <3>2 DEF Passing, Target
    <3> QED BY <1>a, <2>1, <3>1, <3>2 DEF AdvancedLooked
  <2> QED BY <1>b, <1>c, <2>1 DEF WalkInv, Explored
<1>5. Connected'
  <2>1. DOMAIN frames' = DOMAIN frames
    BY <1>a DEF AdvancedCalls
  <2> QED BY <1>b, <1>c, <1>d, <2>1 DEF WalkInv, Connected, Gray
<1>6. LowReached'
  <2>1. ASSUME NEW k \in DOMAIN frames
        PROVE  /\ low'[Gray(k)] <= index[Gray(k)]
               /\ \E u \in Nodes : /\ OnStack(u) /\ low'[Gray(k)] = index[u]
                                   /\ Reach(Gray(k), u)
    <3>1. low'[Gray(k)] <= index[Gray(k)]
      BY <1>e DEF WalkInv, LowReached
    <3>2. CASE low'[Gray(k)] = low[Gray(k)]
      BY <3>1, <3>2 DEF WalkInv, LowReached
    <3>3. CASE low'[Gray(k)] # low[Gray(k)]
      <4>1. k = m
        BY <1>f, <3>3
      <4>2. Own /\ OnStack(Target) /\ low'[Gray(m)] = index[Target]
        BY <1>a, <3>3, <4>1 DEF Passing
      <4>3. Top.edge \in DOMAIN edges
        BY <1>a, Positions DEF Passing, AtEdge, Top
      <4>4. edges[Top.edge][1] = Gray(m) /\ edges[Top.edge][2] = Target /\ Target \in Nodes
        BY <4>2, <4>3 DEF Own, Target, Top, Gray
      <4>5. Reach(Gray(m), Target)
        BY <4>3, <4>4, ReachEdge
      <4> QED BY <3>1, <4>1, <4>2, <4>4, <4>5
    <3> QED BY <3>2, <3>3
  <2>2. DOMAIN frames' = DOMAIN frames
    BY <1>a DEF AdvancedCalls
  <2> QED BY <1>b, <1>c, <1>d, <2>1, <2>2 DEF LowReached, Gray
<1>7. LowBounds'
  <2>1. ASSUME NEW k \in DOMAIN frames, NEW e \in DOMAIN edges,
               Looked(e)', Between(k, edges[e][1]), OnStack(edges[e][2])
        PROVE  low'[Gray(k)] <= index[edges[e][2]]
    <3>1. CASE Looked(e)
      <4>1. low[Gray(k)] <= index[edges[e][2]]
        BY <2>1, <3>1 DEF WalkInv, LowBounds
      <4> QED BY <1>e, <4>1
    <3>2. CASE e = Top.edge /\ Own
      <4>1. edges[e][1] = Gray(m) /\ edges[e][2] = Target
        BY <3>2 DEF Own, Target, Top, Gray
      <4>2. k = m
        <5>1. ASSUME k < m
              PROVE  FALSE
          <6>1. k + 1 \in DOMAIN frames /\ k + 1 <= m
            BY <5>1, Positions
          <6>2. index[Gray(k + 1)] <= index[Gray(m)]
            BY <1>a, <6>1, GrayOrder
          <6>3. index[Gray(m)] < index[Gray(k + 1)]
            BY <2>1, <4>1, <5>1 DEF Between
          <6> QED BY <1>a, <6>1, <6>2, <6>3
        <5> QED BY <5>1
      <4> QED BY <1>a, <2>1, <3>2, <4>1, <4>2 DEF Passing
    <3> QED BY <1>a, <2>1, <3>1, <3>2 DEF AdvancedLooked
  <2>2. DOMAIN frames' = DOMAIN frames /\ Len(frames') = Len(frames)
    BY <1>a DEF AdvancedCalls
  <2>3. ASSUME NEW k \in DOMAIN frames', NEW e \in DOMAIN edges,
               Between(k, edges[e][1])', OnStack(edges[e][2])'
        PROVE  Between(k, edges[e][1]) /\ OnStack(edges[e][2])
    <3>1. OnStack(edges[e][1]) /\ OnStack(edges[e][2]) /\ index[Gray(k)] <= index[edges[e][1]]
      BY <1>b, <1>c, <1>d, <2>2, <2>3 DEF Between, OnStack, Gray
    <3>2. ASSUME k < m
          PROVE  index[edges[e][1]] < index[Gray(k + 1)]
      <4>1. k + 1 \in DOMAIN frames
        BY <2>2, <2>3, <3>2, Positions
      <4>2. frames'[k + 1].node = Gray(k + 1)
        BY <1>d, <4>1
      <4> QED BY <1>b, <1>c, <2>2, <2>3, <3>2, <4>2 DEF Between, Gray
    <3> QED BY <3>1, <3>2 DEF Between
  <2> QED BY <1>b, <1>c, <1>d, <2>1, <2>2, <2>3 DEF LowBounds, Gray
<1> QED BY <1>b, <1>1, <1>2, <1>3, <1>4, <1>5, <1>6, <1>7 DEF WalkInv

\* The innermost call ends; its caller has come past the edge it was made for.
Ending == frames # <<>> /\ Top.edge > Len(edges)
        /\ frames' = (IF Beneath = <<>> THEN <<>> ELSE Advanced(Beneath))
        /\ UNCHANGED <<graphVars, index>>
Inmost == Len(frames)
Caller == Len(frames) - 1
EndedCalls ==
  /\ Inmost \in DOMAIN frames /\ Caller \in Nat /\ Inmost \in Nat
  /\ Beneath = <<>> <=> Caller = 0
  /\ Caller # 0 => Caller \in DOMAIN frames
  /\ Caller # 0 => Beneath[Len(Beneath)].node = Gray(Caller)
  /\ frames' \in Seq([node : Nodes, edge : Nat \ {0}])
  /\ Len(frames') = Caller /\ DOMAIN frames' = 1 .. Caller
  /\ \A k \in DOMAIN frames' : k \in DOMAIN frames /\ k < Inmost /\ frames'[k].node = Gray(k)
  /\ \A k \in DOMAIN frames' : k # Caller => frames'[k].edge = frames[k].edge
  /\ Caller # 0 => frames'[Caller].edge = frames[Caller].edge + 1
  /\ Caller # 0 => frames[Caller].edge \in DOMAIN edges
                   /\ edges[frames[Caller].edge] = <<Gray(Caller), Gray(Inmost)>>
EndedLooked ==
  \A e \in DOMAIN edges :
    /\ edges[e][1] = Gray(Inmost) => Looked(e)
    /\ Looked(e)' <=> Looked(e) \/ (Caller # 0 /\ e = frames[Caller].edge)

LEMMA EndedTop ==
  ASSUME WalkInv, Ending
  PROVE  EndedCalls
<1> DEFINE Frames == [node : Nodes, edge : Nat \ {0}]
           m == Len(frames)
           p == m - 1
           top == [frames[p] EXCEPT !.edge = @ + 1]
<1>1. frames \in Seq(Frames) /\ m \in Nat /\ m # 0 /\ m \in DOMAIN frames /\ p \in Nat
  BY Positions DEF WalkInv, WalkTyped, Ending
<1>2. Beneath \in Seq(Frames) /\ Len(Beneath) = p /\ DOMAIN Beneath = 1 .. p
      /\ \A k \in 1 .. p : Beneath[k] = frames[k]
  <2> HIDE DEF Frames
  <2>1. 1 \in 1 .. Len(frames) + 1 /\ p \in 1 - 1 .. Len(frames) /\ p - 1 + 1 = p
    BY <1>1
  <2>2. /\ SubSeq(frames, 1, p) \in Seq(Frames) /\ Len(SubSeq(frames, 1, p)) = p - 1 + 1
        /\ \A k \in 1 .. p - 1 + 1 : SubSeq(frames, 1, p)[k] = frames[1 + k - 1]
    BY <1>1, <2>1, SubSeqProperties
  <2>3. \A k \in 1 .. p : 1 + k - 1 = k
    BY <1>1
  <2> QED BY <1>1, <2>1, <2>2, <2>3 DEF Beneath
<1>3. Beneath = <<>> <=> p = 0
  BY <1>1, <1>2, SMTT(60)
<1>4. CASE p = 0
  <2>1. frames' = <<>>
    BY <1>3, <1>4 DEF Ending
  <2>2. frames' \in Seq([node : Nodes, edge : Nat \ {0}]) /\ Len(frames') = 0
    BY <2>1
  <2>3. DOMAIN frames' = 1 .. 0 /\ \A k \in 1 .. 0 : FALSE
    BY <2>1
  <2> HIDE DEF Frames
  <2> QED BY <1>1, <1>3, <1>4, <2>2, <2>3 DEF EndedCalls, Caller, Inmost
<1>5. CASE p # 0
  <2>1. p \in DOMAIN frames /\ p \in 1 .. p
    BY <1>1, <1>5, Positions
  <2>2. frames[p] \in Frames
    <3> HIDE DEF Frames
    <3> QED BY <1>1, <2>1
  <2>3. top \in Frames /\ top.node = frames[p].node /\ top.edge = frames[p].edge + 1
    <3>1. frames[p].node \in Nodes /\ frames[p].edge \in Nat /\ frames[p].edge + 1 \in Nat \ {0}
      BY <2>2
    <3>2. top = [node |-> frames[p].node, edge |-> frames[p].edge + 1]
      BY <2>2
    <3> QED BY <3>1, <3>2
  <2>4. frames' = [Beneath EXCEPT ![p] = top]
    BY <1>2, <1>3, <1>5, <2>1 DEF Ending, Advanced
  <2>5. /\ frames' \in Seq(Frames) /\ Len(frames') = p /\ DOMAIN frames' = 1 .. p
        /\ frames'[p] = top
        /\ \A k \in 1 .. p : k # p => frames'[k] = frames[k]
    <3> HIDE DEF Frames, top
    <3> QED BY <1>2, <2>1, <2>3, <2>4
  <2>6. \A k \in 1 .. p : k \in DOMAIN frames /\ k < m /\ frames'[k].node = Gray(k)
    <3>1. \A k \in 1 .. p : k \in DOMAIN frames /\ k < m
      BY <1>1, Positions
    <3>2. \A k \in 1 .. p : frames'[k].node = frames[k].node
      BY <2>3, <2>5
    <3> QED BY <3>1, <3>2 DEF Gray
  <2>7. frames[p].edge \in DOMAIN edges /\ edges[frames[p].edge] = <<Gray(p), Gray(m)>>
    <3>1. p < m /\ p + 1 = m
      BY <1>1
    <3>2. frames[p].edge <= Len(edges) /\ edges[frames[p].edge] = <<Gray(p), Gray(p + 1)>>
      BY <2>1, <3>1 DEF WalkInv, Nested
    <3> QED BY <2>1, <3>1, <3>2, Positions
  <2>8. Beneath[Len(Beneath)].node = Gray(p)
    BY <1>2, <2>1 DEF Gray
  <2> HIDE DEF Frames, top
  <2> USE DEF Frames
  <2> QED BY <1>1, <1>3, <1>5, <2>1, <2>3, <2>5, <2>6, <2>7, <2>8 DEF EndedCalls, Caller, Inmost
<1> QED BY <1>4, <1>5

LEMMA EndedOver ==
  ASSUME WalkInv, Ending
  PROVE  EndedLooked
<1> DEFINE m == Inmost
           p == Caller
<1>1. EndedCalls /\ edges' = edges /\ index' = index
  BY EndedTop DEF Ending, graphVars
<1>2. SUFFICES ASSUME NEW e \in DOMAIN edges
               PROVE  /\ edges[e][1] = Gray(m) => Looked(e)
                      /\ Looked(e)' <=> Looked(e) \/ (p # 0 /\ e = frames[p].edge)
  BY DEF EndedLooked
<1>3. m \in DOMAIN frames /\ m = p + 1 /\ m \in Nat /\ p \in Nat /\ e \in Nat /\ e <= Len(edges)
  BY <1>1, Positions DEF EndedCalls, Inmost, Caller
<1>4. \A k \in DOMAIN frames : Gray(k) = Gray(m) => k = m
  BY <1>3, GrayOrder
<1>5. CASE edges[e][1] = Gray(m)
  <2>1. index[edges[e][1]] # 0
    BY <1>3, <1>5, GrayOrder
  <2>2. e < frames[m].edge
    <3>1. frames[m].edge > Len(edges) /\ frames[m].edge \in Nat /\ Len(edges) \in Nat
      BY <1>3, Positions DEF Ending, Top, Inmost
    <3> QED BY <1>3, <3>1
  <2>3. Looked(e)
    BY <1>4, <1>5, <2>1, <2>2 DEF Looked
  <2>4. \A k \in DOMAIN frames' : frames'[k].node # edges[e][1]
    <3>1. \A k \in DOMAIN frames' : k \in DOMAIN frames /\ k < m /\ frames'[k].node = Gray(k)
      BY <1>1 DEF EndedCalls
    <3>2. \A k \in DOMAIN frames' : k # m
      BY <1>1, <1>3, <3>1 DEF EndedCalls
    <3> QED BY <1>4, <1>5, <3>1, <3>2
  <2>5. Looked(e)'
    BY <1>1, <2>1, <2>4 DEF Looked, Gray
  <2> QED BY <2>3, <2>5
<1>6. CASE edges[e][1] # Gray(m) /\ p # 0 /\ edges[e][1] = Gray(p)
  <2>1. p \in DOMAIN frames /\ index[edges[e][1]] # 0 /\ p \in DOMAIN frames'
    BY <1>1, <1>3, <1>6, GrayOrder DEF EndedCalls
  <2>2. \A k \in DOMAIN frames : Gray(k) = Gray(p) => k = p
    BY <2>1, GrayOrder
  <2>3. Looked(e) <=> e < frames[p].edge
    BY <1>6, <2>1, <2>2 DEF Looked
  <2>4. frames'[p].edge = frames[p].edge + 1 /\ frames[p].edge \in Nat
    BY <1>1, <1>6, <2>1, Positions DEF EndedCalls
  <2>5. \A k \in DOMAIN frames' : k \in DOMAIN frames /\ frames'[k].node = Gray(k)
    BY <1>1 DEF EndedCalls
  <2>6. Looked(e)' <=> e < frames[p].edge + 1
    BY <1>1, <1>6, <2>1, <2>2, <2>4, <2>5 DEF Looked, Gray
  <2> QED BY <1>3, <1>6, <2>3, <2>4, <2>6
<1>7. CASE edges[e][1] # Gray(m) /\ (p = 0 \/ edges[e][1] # Gray(p))
  <2>1. \A k \in DOMAIN frames' : k \in DOMAIN frames /\ frames'[k].node = Gray(k)
                                  /\ (k # p => frames'[k].edge = frames[k].edge)
    BY <1>1 DEF EndedCalls
  <2>2. \A k \in DOMAIN frames : k \in DOMAIN frames' \/ k = m
    BY <1>1, <1>3, Positions DEF EndedCalls, Inmost, Caller
  <2>3. p = 0 => \A k \in DOMAIN frames' : FALSE
    BY <1>1 DEF EndedCalls
  <2>4. (\A k \in DOMAIN frames' : frames'[k].node = edges[e][1] => e < frames'[k].edge)
        <=> \A k \in DOMAIN frames : Gray(k) = edges[e][1] => e < frames[k].edge
    BY <1>7, <2>1, <2>2, <2>3
  <2>5. Looked(e)' <=> Looked(e)
    BY <1>1, <2>4 DEF Looked, Gray
  <2>6. ~(p # 0 /\ e = frames[p].edge)
    BY <1>1, <1>7 DEF EndedCalls
  <2> QED BY <1>7, <2>5, <2>6
<1> QED BY <1>5, <1>6, <1>7

\* A component is what is on the stack from its root on.
Remainder(v) == SubSeq(stack, 1, Bottom(v) - 1)
LEMMA PoppedAre ==
  ASSUME WalkInv, NEW v \in Nodes, OnStack(v)
  PROVE  /\ \A w : w \in Popped(v) <=> OnStack(w) /\ index[v] <= index[w]
         /\ Remainder(v) \in Seq(Nodes)
         /\ \A w : (\E k \in DOMAIN Remainder(v) : Remainder(v)[k] = w)
                   <=> OnStack(w) /\ index[w] < index[v]
         /\ \A k \in DOMAIN Remainder(v) : k \in DOMAIN stack /\ Remainder(v)[k] = stack[k]
<1> DEFINE b == Bottom(v)
<1>1. b \in DOMAIN stack /\ stack[b] = v
  BY DEF OnStack, Bottom
<1>2. /\ DOMAIN stack = 1 .. Len(stack) /\ Len(stack) \in Nat
      /\ b \in Nat /\ 1 <= b /\ b <= Len(stack)
  BY <1>1, Positions
<1>3. \A j, k \in DOMAIN stack : j < k => index[stack[j]] < index[stack[k]]
  BY DEF WalkInv, Stacked
<1>4. \A k \in DOMAIN stack : stack[k] \in Nodes /\ index[stack[k]] \in Nat
  BY Shape
<1>5. ASSUME NEW k \in DOMAIN stack
      PROVE  k < b <=> index[stack[k]] < index[v]
  <2>1. k < b => index[stack[k]] < index[v]
    BY <1>1, <1>3
  <2>2. b < k => index[v] < index[stack[k]]
    BY <1>1, <1>3
  <2>3. index[stack[k]] \in Nat /\ index[v] \in Nat /\ k \in Nat
    BY <1>1, <1>2, <1>4
  <2>4. k = b => index[stack[k]] = index[v]
    BY <1>1
  <2> QED BY <1>2, <2>1, <2>2, <2>3, <2>4
<1>6. ASSUME NEW w
      PROVE  w \in Popped(v) <=> OnStack(w) /\ index[v] <= index[w]
  <2>1. \A k \in DOMAIN stack : k \in b .. Len(stack) <=> index[v] <= index[stack[k]]
    BY <1>1, <1>2, <1>4, <1>5
  <2>2. \A k \in b .. Len(stack) : k \in DOMAIN stack
    BY <1>2
  <2>3. w \in Popped(v) <=> \E k \in b .. Len(stack) : stack[k] = w
    BY DEF Popped
  <2> QED BY <2>1, <2>2, <2>3 DEF OnStack
<1>7. /\ Remainder(v) \in Seq(Nodes) /\ DOMAIN Remainder(v) = 1 .. b - 1
      /\ \A k \in 1 .. b - 1 : Remainder(v)[k] = stack[k]
  <2>1. \A i \in 1 .. b - 1 : stack[i] \in Nodes
    BY <1>2, <1>4
  <2>2. /\ SubSeq(stack, 1, b - 1) \in Seq(Nodes)
        /\ Len(SubSeq(stack, 1, b - 1)) = IF 1 <= b - 1 THEN b - 1 - 1 + 1 ELSE 0
        /\ \A k \in 1 .. b - 1 - 1 + 1 : SubSeq(stack, 1, b - 1)[k] = stack[1 + k - 1]
    BY <1>2, <2>1, SubSeqProperties
  <2>3. b - 1 - 1 + 1 = b - 1 /\ \A k \in 1 .. b - 1 : 1 + k - 1 = k
    BY <1>2
  <2>4. Len(SubSeq(stack, 1, b - 1)) = b - 1
    BY <1>2, <2>2, <2>3
  <2> HIDE DEF b
  <2> QED BY <2>2, <2>3, <2>4 DEF Remainder, b
<1>8. \A k \in 1 .. b - 1 : k \in DOMAIN stack /\ k < b
  BY <1>2
<1>9. \A k \in DOMAIN stack : k < b => k \in 1 .. b - 1
  BY <1>2
<1>10. ASSUME NEW w
       PROVE  (\E k \in DOMAIN Remainder(v) : Remainder(v)[k] = w)
              <=> OnStack(w) /\ index[w] < index[v]
  BY <1>5, <1>7, <1>8, <1>9 DEF OnStack
<1> QED BY <1>6, <1>7, <1>8, <1>10

\* A call that ends with the lowlink of its function at the number takes a component off.
Popping ==
  /\ Ending
  /\ low[Gray(Inmost)] = index[Gray(Inmost)]
  /\ component' = [i \in Nodes |->
                     IF i \in Popped(Gray(Inmost)) THEN count + 1 ELSE component[i]]
  /\ stack' = Remainder(Gray(Inmost)) /\ count' = count + 1
  /\ low' = low

\* No edge leads from it to what stays on the stack.
LEMMA PoppedClosed ==
  ASSUME WalkInv, Popping, NEW e \in DOMAIN edges, edges[e][1] \in Popped(Gray(Inmost))
  PROVE  \/ edges[e][2] \in Popped(Gray(Inmost))
         \/ component[edges[e][2]] # 0 /\ ~OnStack(edges[e][2])
<1> DEFINE v == Gray(Inmost)
           x == edges[e][1]
           y == edges[e][2]
<1>1. EndedCalls /\ EndedLooked
  BY EndedTop, EndedOver DEF Popping
<1>2. Inmost \in DOMAIN frames /\ v \in Nodes /\ OnStack(v) /\ index[v] \in Nat /\ Inmost \in Nat
  BY <1>1, GrayOrder DEF EndedCalls
<1>3. OnStack(x) /\ index[v] <= index[x] /\ x \in Nodes /\ y \in Nodes
      /\ index[x] \in Nat /\ index[y] \in Nat
  BY <1>2, PoppedAre, Numeric
<1>4. Looked(e)
  <2>1. CASE x = v
    BY <1>1, <2>1 DEF EndedLooked
  <2>2. CASE x # v
    <3>1. ASSUME NEW k \in DOMAIN frames, Gray(k) = x
          PROVE  FALSE
      <4>1. k <= Inmost /\ k # Inmost
        BY <2>2, <3>1, Positions DEF Inmost
      <4>2. index[Gray(k)] < index[v]
        BY <1>2, <3>1, <4>1, GrayOrder, Positions
      <4> QED BY <1>2, <1>3, <3>1, <4>2
    <3>2. index[x] # 0
      BY <1>3 DEF WalkInv, Stacked
    <3> QED BY <3>1, <3>2 DEF Looked
  <2> QED BY <2>1, <2>2
<1>5. index[y] # 0
  BY <1>4 DEF WalkInv, Explored
<1>6. CASE component[y] # 0
  BY <1>3, <1>6 DEF WalkInv, Stacked
<1>7. CASE component[y] = 0
  <2>1. OnStack(y)
    BY <1>3, <1>5, <1>7 DEF WalkInv, Stacked
  <2>2. Between(Inmost, x)
    BY <1>2, <1>3 DEF Between, Inmost
  <2>3. low[v] <= index[y]
    BY <1>2, <1>4, <2>1, <2>2 DEF WalkInv, LowBounds
  <2> QED BY <1>2, <2>1, <2>3, PoppedAre DEF Popping
<1> QED BY <1>6, <1>7

LEMMA PoppingKeeps ==
  ASSUME WalkInv, Popping
  PROVE  WalkInv'
<1> DEFINE v == Gray(Inmost)
<1>a. EndedCalls /\ EndedLooked /\ Inmost \in DOMAIN frames /\ Inmost \in Nat
  BY EndedTop, EndedOver DEF Popping, EndedCalls
<1>b. /\ Nodes' = Nodes /\ edges' = edges /\ GraphTyped'
      /\ \A x, y : Reach(x, y)' <=> Reach(x, y)
  BY GraphStays DEF Popping, Ending, WalkInv
<1>c. index' = index /\ low' = low /\ Reached' = Reached /\ count' = count + 1 /\ count \in Nat
  BY <1>b DEF Popping, Ending, Reached, WalkInv, WalkTyped
<1>d. v \in Nodes /\ OnStack(v) /\ index[v] \in Nat /\ low[v] = index[v]
  BY <1>a, GrayOrder DEF Popping
<1>e. /\ \A w : w \in Popped(v) <=> OnStack(w) /\ index[v] <= index[w]
      /\ stack' = Remainder(v) /\ stack' \in Seq(Nodes)
      /\ \A w : OnStack(w)' <=> OnStack(w) /\ index[w] < index[v]
      /\ \A k \in DOMAIN stack' : k \in DOMAIN stack /\ stack'[k] = stack[k]
  <2>1. stack' = Remainder(v)
    BY DEF Popping
  <2>2. \A w : OnStack(w)' <=> \E k \in DOMAIN Remainder(v) : Remainder(v)[k] = w
    BY <2>1 DEF OnStack
  <2> QED BY <1>d, <2>1, <2>2, PoppedAre
<1>f. \A i \in Nodes : component'[i] = IF i \in Popped(v) THEN count + 1 ELSE component[i]
  BY DEF Popping
<1>g. \A i \in Nodes : component[i] \in Nat /\ component[i] <= count
                       /\ (OnStack(i) <=> index[i] # 0 /\ component[i] = 0)
                       /\ (component[i] # 0 => index[i] # 0)
  BY DEF WalkInv, WalkTyped, Stacked
<1>h. \A k \in DOMAIN frames' : /\ k \in DOMAIN frames /\ k < Inmost /\ frames'[k].node = Gray(k)
                                /\ Gray(k) \in Nodes /\ OnStack(Gray(k))
                                /\ index[Gray(k)] < index[v] /\ index[Gray(k)] \in Nat
  <2>1. \A k \in DOMAIN frames' : k \in DOMAIN frames /\ k < Inmost /\ frames'[k].node = Gray(k)
    BY <1>a DEF EndedCalls
  <2> QED BY <1>a, <2>1, GrayOrder
<1>1. WalkTyped'
  <2>1. component' \in [Nodes -> Nat] /\ \A i \in Nodes : component'[i] <= count'
    <3>1. \A i \in Nodes : component'[i] \in Nat /\ component'[i] <= count + 1
      BY <1>c, <1>f, <1>g
    <3>2. component' = [i \in Nodes |-> IF i \in Popped(v) THEN count + 1 ELSE component[i]]
      BY DEF Popping
    <3> QED BY <1>c, <1>g, <3>1, <3>2
  <2>2. index' \in [Nodes -> Nat] /\ low' \in [Nodes -> Nat] /\ count' \in Nat
    BY <1>c DEF WalkInv, WalkTyped
  <2>3. frames' \in Seq([node : Nodes, edge : Nat \ {0}])
    BY <1>a DEF EndedCalls
  <2> QED BY <1>b, <1>e, <2>1, <2>2, <2>3 DEF WalkTyped
<1>2. Numbered'
  BY <1>b, <1>c DEF WalkInv, Numbered
<1>3. Stacked'
  <2>1. \A j, k \in DOMAIN stack' : j < k => index[stack'[j]] < index[stack'[k]]
    BY <1>e DEF WalkInv, Stacked
  <2>2. ASSUME NEW i \in Nodes
        PROVE  /\ OnStack(i)' <=> index[i] # 0 /\ component'[i] = 0
               /\ component'[i] # 0 => index[i] # 0
    <3>1. index[i] \in Nat
      BY Numeric
    <3>2. index[i] < index[v] <=> ~(index[v] <= index[i])
      BY <1>d, <3>1
    <3>3. CASE i \in Popped(v)
      <4>1. component'[i] # 0
        BY <1>c, <1>f, <3>3
      <4> QED BY <1>e, <1>g, <3>2, <3>3, <4>1
    <3>4. CASE i \notin Popped(v)
      BY <1>e, <1>f, <1>g, <3>2, <3>4
    <3> QED BY <3>3, <3>4
  <2> QED BY <1>b, <1>c, <2>1, <2>2 DEF Stacked
<1>4. Nested'
  <2>1. \A j, k \in DOMAIN frames' : j < k => index[frames'[j].node] < index[frames'[k].node]
    BY <1>h DEF WalkInv, Nested
  <2>2. \A k \in DOMAIN frames' : OnStack(Gray(k))'
    BY <1>e, <1>h DEF Gray, OnStack
  <2>3. ASSUME NEW k \in DOMAIN frames'
        PROVE  frames'[k].edge <= Len(edges) + 1
    <3>1. CASE k = Caller
      BY <1>a, <2>3, <3>1, Positions DEF EndedCalls
    <3>2. CASE k # Caller
      BY <1>a, <1>h, <2>3, <3>2 DEF WalkInv, Nested, EndedCalls
    <3> QED BY <3>1, <3>2
  <2>4. ASSUME NEW k \in DOMAIN frames', k < Len(frames')
        PROVE  /\ frames'[k].edge <= Len(edges)
               /\ edges[frames'[k].edge] = <<frames'[k].node, frames'[k + 1].node>>
    <3>1. k # Caller /\ k + 1 \in DOMAIN frames' /\ k \in DOMAIN frames /\ k < Len(frames)
      BY <1>a, <1>h, <2>4 DEF EndedCalls, Inmost
    <3>2. frames'[k].edge = frames[k].edge
      BY <1>a, <2>4, <3>1 DEF EndedCalls
    <3> QED BY <1>h, <2>4, <3>1, <3>2 DEF WalkInv, Nested
  <2> QED BY <1>b, <1>c, <2>1, <2>2, <2>3, <2>4 DEF Nested, Gray
<1>5. Explored'
  <2>1. ASSUME NEW e \in DOMAIN edges, Looked(e)'
        PROVE  index[edges[e][2]] # 0
    <3>1. CASE Looked(e)
      BY <3>1 DEF WalkInv, Explored
    <3>2. CASE Caller # 0 /\ e = frames[Caller].edge
      <4>1. edges[e][2] = v
        BY <1>a, <3>2 DEF EndedCalls
      <4> QED BY <1>d, <1>g, <4>1
    <3> QED BY <1>a, <2>1, <3>1, <3>2 DEF EndedLooked
  <2>2. ASSUME NEW e \in DOMAIN edges, component'[edges[e][1]] # 0
        PROVE  component'[edges[e][2]] # 0 /\ component'[edges[e][2]] <= component'[edges[e][1]]
    <3>1. edges[e][1] \in Nodes /\ edges[e][2] \in Nodes
      BY Numeric
    <3>2. CASE edges[e][1] \in Popped(v)
      <4>1. edges[e][2] \in Popped(v) \/ component[edges[e][2]] # 0
        BY <3>2, PoppedClosed
      <4>2. component'[edges[e][1]] = count + 1
        BY <1>f, <3>1, <3>2
      <4>3. component'[edges[e][2]] # 0 /\ component'[edges[e][2]] <= count + 1
        BY <1>c, <1>f, <1>g, <3>1, <4>1
      <4> QED BY <4>2, <4>3
    <3>3. CASE edges[e][1] \notin Popped(v)
      <4>1. component'[edges[e][1]] = component[edges[e][1]]
        BY <1>f, <3>1, <3>3
      <4>2. component[edges[e][2]] # 0 /\ component[edges[e][2]] <= component[edges[e][1]]
        BY <2>2, <4>1 DEF WalkInv, Explored
      <4>3. edges[e][2] \notin Popped(v)
        BY <1>e, <1>g, <3>1, <4>2
      <4> QED BY <1>f, <3>1, <4>1, <4>2, <4>3
    <3> QED BY <3>2, <3>3
  <2> QED BY <1>b, <1>c, <2>1, <2>2 DEF Explored
<1>6. Connected'
  <2>1. \A k \in DOMAIN frames', w \in Nodes :
          OnStack(w)' /\ index[frames'[k].node] <= index[w] => Reach(frames'[k].node, w)
    BY <1>e, <1>h DEF WalkInv, Connected
  <2>2. ASSUME NEW w \in Nodes, OnStack(w)'
        PROVE  \E k \in DOMAIN frames' : /\ index[frames'[k].node] <= index[w]
                                         /\ Reach(w, frames'[k].node)
    <3>1. OnStack(w) /\ index[w] < index[v] /\ index[w] \in Nat
      BY <1>e, <2>2, Numeric
    <3>2. PICK k \in DOMAIN frames : index[Gray(k)] <= index[w] /\ Reach(w, Gray(k))
      BY <3>1 DEF WalkInv, Connected
    <3>3. index[Gray(k)] < index[v] /\ index[Gray(k)] \in Nat
      BY <1>d, <3>1, <3>2, Numeric
    <3>4. k < Inmost
      BY <1>a, <3>3, GrayOrder
    <3>5. k \in DOMAIN frames'
      BY <1>a, <3>4, Positions DEF EndedCalls, Inmost, Caller
    <3> QED BY <1>h, <3>2, <3>5
  <2> QED BY <1>b, <1>c, <2>1, <2>2 DEF Connected, Gray
<1>7. LowReached'
  <2>1. ASSUME NEW k \in DOMAIN frames'
        PROVE  /\ low[frames'[k].node] <= index[frames'[k].node]
               /\ \E u \in Nodes : /\ OnStack(u)' /\ low[frames'[k].node] = index[u]
                                   /\ Reach(frames'[k].node, u)
    <3>1. k \in DOMAIN frames /\ frames'[k].node = Gray(k) /\ index[Gray(k)] < index[v]
      BY <1>h
    <3>2. low[Gray(k)] <= index[Gray(k)]
      BY <3>1 DEF WalkInv, LowReached
    <3>3. PICK u \in Nodes : OnStack(u) /\ low[Gray(k)] = index[u] /\ Reach(Gray(k), u)
      BY <3>1 DEF WalkInv, LowReached
    <3>4. index[u] < index[v]
      BY <1>d, <3>1, <3>2, <3>3, Numeric
    <3> QED BY <1>e, <3>1, <3>2, <3>3, <3>4
  <2> QED BY <1>b, <1>c, <2>1 DEF LowReached, Gray
<1>8. LowBounds'
  <2>1. ASSUME NEW k \in DOMAIN frames', NEW x \in Nodes, NEW y \in Nodes,
               NEW e \in DOMAIN edges, edges[e][1] = x, edges[e][2] = y,
               Looked(e)', Between(k, x)', OnStack(y)'
        PROVE  low[Gray(k)] <= index[y]
    <3>1. k \in DOMAIN frames /\ frames'[k].node = Gray(k) /\ k < Inmost
      BY <1>h
    <3>2. OnStack(x) /\ OnStack(y) /\ index[x] < index[v] /\ index[y] < index[v]
          /\ index[Gray(k)] <= index[x]
          /\ (k < Len(frames') => index[x] < index[frames'[k + 1].node])
      BY <1>c, <1>e, <2>1, <3>1 DEF Between, Gray
    <3>3. Looked(e)
      <4>1. ASSUME Caller # 0, e = frames[Caller].edge
            PROVE  FALSE
        <5>1. y = v
          BY <1>a, <2>1, <4>1 DEF EndedCalls
        <5> QED BY <1>d, <3>2, <5>1
      <4> QED BY <1>a, <2>1, <4>1 DEF EndedLooked
    <3>4. Between(k, x)
      <4>1. ASSUME k < Len(frames)
            PROVE  index[x] < index[Gray(k + 1)]
        <5>1. CASE k = Caller
          <6>1. k + 1 = Inmost
            BY <1>a, <5>1 DEF Inmost, Caller
          <6> QED BY <3>2, <6>1
        <5>2. CASE k # Caller
          <6>1. k < Len(frames') /\ k + 1 \in DOMAIN frames'
            BY <1>a, <2>1, <5>2 DEF EndedCalls
          <6> QED BY <1>h, <3>2, <6>1
        <5> QED BY <5>1, <5>2
      <4> QED BY <3>2, <4>1 DEF Between
    <3> QED BY <2>1, <3>1, <3>2, <3>3, <3>4 DEF WalkInv, LowBounds
  <2>2. ASSUME NEW k \in DOMAIN frames', NEW e \in DOMAIN edges,
               Looked(e)', Between(k, edges[e][1])', OnStack(edges[e][2])'
        PROVE  low[frames'[k].node] <= index[edges[e][2]]
    <3>1. edges[e][1] \in Nodes /\ edges[e][2] \in Nodes
      BY Numeric
    <3>2. frames'[k].node = Gray(k)
      BY <1>h
    <3> QED BY <1>b, <2>1, <2>2, <3>1, <3>2 DEF Between, OnStack
  <2> QED BY <1>b, <1>c, <2>2 DEF LowBounds, Gray
<1>9. Mutual'
  <2>1. ASSUME NEW i \in Nodes, NEW j \in Nodes, i \in Popped(v), j \in Popped(v)
        PROVE  Reach(i, j)
    <3>1. OnStack(i) /\ OnStack(j) /\ index[v] <= index[j]
      BY <1>e, <2>1
    <3>2. PICK k \in DOMAIN frames : index[Gray(k)] <= index[i] /\ Reach(i, Gray(k))
      BY <3>1 DEF WalkInv, Connected
    <3>3. index[Gray(k)] <= index[v]
      <4>1. k <= Inmost
        BY Positions DEF Inmost
      <4> QED BY <1>a, <4>1, GrayOrder
    <3>4. Reach(Gray(k), v) /\ Reach(v, j)
      BY <1>a, <1>d, <3>1, <3>3 DEF WalkInv, Connected
    <3> QED BY <3>2, <3>4, ReachOver
  <2>2. ASSUME NEW i \in Nodes, NEW j \in Nodes, component'[i] = component'[j], component'[i] # 0
        PROVE  Reach(i, j)
    <3>1. CASE i \in Popped(v) /\ j \in Popped(v)
      BY <2>1, <3>1
    <3>2. CASE i \notin Popped(v) /\ j \notin Popped(v)
      <4>1. component[i] = component[j] /\ component[i] # 0
        BY <1>f, <2>2, <3>2
      <4> QED BY <4>1 DEF WalkInv, Mutual
    <3>3. CASE ~(i \in Popped(v) <=> j \in Popped(v))
      <4>1. component'[i] # component'[j]
        BY <1>c, <1>f, <1>g, <3>3
      <4> QED BY <2>2, <4>1
    <3> QED BY <3>1, <3>2, <3>3
  <2> QED BY <1>b, <2>2 DEF Mutual
<1> QED BY <1>b, <1>1, <1>2, <1>3, <1>4, <1>5, <1>6, <1>7, <1>8, <1>9 DEF WalkInv

\* A call that ends with a lowlink below the number leaves it to its caller.
Leaving ==
  /\ Ending
  /\ low[Gray(Inmost)] # index[Gray(Inmost)]
  /\ UNCHANGED <<component, stack, count>>
  /\ Caller # 0 => /\ low' \in [Nodes -> Nat]
                   /\ \A i \in Nodes : i # Gray(Caller) => low'[i] = low[i]
                   /\ low'[Gray(Caller)] <= low[Gray(Caller)]
                   /\ low'[Gray(Caller)] <= low[Gray(Inmost)]
                   /\ \/ low'[Gray(Caller)] = low[Gray(Caller)]
                      \/ low'[Gray(Caller)] = low[Gray(Inmost)]

LEMMA LeavingKeeps ==
  ASSUME WalkInv, Leaving
  PROVE  WalkInv'
<1> DEFINE v == Gray(Inmost)
           p == Gray(Caller)
<1>a. EndedCalls /\ EndedLooked /\ Inmost \in DOMAIN frames /\ Inmost \in Nat
  BY EndedTop, EndedOver DEF Leaving, EndedCalls
<1>b. /\ Nodes' = Nodes /\ edges' = edges /\ GraphTyped'
      /\ \A x, y : Reach(x, y)' <=> Reach(x, y)
  BY GraphStays DEF Leaving, Ending, WalkInv
<1>c. /\ index' = index /\ Reached' = Reached /\ count' = count /\ stack' = stack
      /\ component' = component /\ \A w : OnStack(w)' <=> OnStack(w)
  BY <1>b DEF Leaving, Ending, Reached, OnStack
<1>d. v \in Nodes /\ OnStack(v) /\ index[v] \in Nat /\ low[v] \in Nat /\ low[v] < index[v]
  <2>1. v \in Nodes /\ OnStack(v) /\ index[v] \in Nat /\ low[v] \in Nat
    BY <1>a, GrayOrder, Numeric
  <2>2. low[v] <= index[v] /\ low[v] # index[v]
    BY <1>a DEF WalkInv, LowReached, Leaving
  <2> QED BY <2>1, <2>2
<1>e. PICK u \in Nodes : OnStack(u) /\ low[v] = index[u] /\ Reach(v, u)
  BY <1>a DEF WalkInv, LowReached
<1>f. PICK g \in DOMAIN frames : index[Gray(g)] <= index[u] /\ Reach(u, Gray(g))
  BY <1>e DEF WalkInv, Connected
<1>g. /\ g < Inmost /\ Caller # 0 /\ Caller \in DOMAIN frames /\ Caller < Inmost
      /\ g \in DOMAIN frames' /\ Caller \in DOMAIN frames'
  <2>1. index[Gray(g)] < index[v]
    BY <1>d, <1>e, <1>f, Numeric
  <2>2. g < Inmost
    BY <1>a, <1>f, <2>1, GrayOrder
  <2> QED BY <1>a, <1>f, <2>2, Positions, SMTT(60) DEF EndedCalls, Inmost, Caller
<1>h. \A k \in DOMAIN frames' : /\ k \in DOMAIN frames /\ k < Inmost /\ frames'[k].node = Gray(k)
                                /\ Gray(k) \in Nodes /\ OnStack(Gray(k))
                                /\ index[Gray(k)] < index[v] /\ index[Gray(k)] \in Nat
  <2>1. \A k \in DOMAIN frames' : k \in DOMAIN frames /\ k < Inmost /\ frames'[k].node = Gray(k)
    BY <1>a DEF EndedCalls
  <2> QED BY <1>a, <2>1, GrayOrder
<1>i. /\ low' \in [Nodes -> Nat] /\ p \in Nodes /\ low[p] \in Nat /\ low'[p] \in Nat
      /\ \A i \in Nodes : i # p => low'[i] = low[i]
      /\ low'[p] <= low[p] /\ low'[p] <= low[v]
      /\ low'[p] = low[p] \/ low'[p] = low[v]
  <2>1. p \in Nodes /\ low[p] \in Nat
    BY <1>g, Numeric
  <2> QED BY <1>g, <2>1 DEF Leaving
<1>j. \A k \in DOMAIN frames' : k # Caller => Gray(k) # p
  BY <1>g, <1>h, GrayOrder
<1>1. WalkTyped'
  <2>1. frames' \in Seq([node : Nodes, edge : Nat \ {0}])
    BY <1>a DEF EndedCalls
  <2> QED BY <1>b, <1>c, <1>i, <2>1 DEF WalkInv, WalkTyped
<1>2. Numbered' /\ Stacked' /\ Mutual'
  BY <1>b, <1>c DEF WalkInv, Numbered, Stacked, Mutual
<1>3. Nested'
  <2>1. \A j, k \in DOMAIN frames' : j < k => index[frames'[j].node] < index[frames'[k].node]
    BY <1>h DEF WalkInv, Nested
  <2>2. \A k \in DOMAIN frames' : OnStack(Gray(k))'
    BY <1>c, <1>h DEF Gray, OnStack
  <2>3. ASSUME NEW k \in DOMAIN frames'
        PROVE  frames'[k].edge <= Len(edges) + 1
    <3>1. CASE k = Caller
      BY <1>a, <2>3, <3>1, Positions DEF EndedCalls
    <3>2. CASE k # Caller
      BY <1>a, <1>h, <2>3, <3>2 DEF WalkInv, Nested, EndedCalls
    <3> QED BY <3>1, <3>2
  <2>4. ASSUME NEW k \in DOMAIN frames', k < Len(frames')
        PROVE  /\ frames'[k].edge <= Len(edges)
               /\ edges[frames'[k].edge] = <<frames'[k].node, frames'[k + 1].node>>
    <3>1. k # Caller /\ k + 1 \in DOMAIN frames' /\ k \in DOMAIN frames /\ k < Len(frames)
      BY <1>a, <1>h, <2>4 DEF EndedCalls, Inmost
    <3>2. frames'[k].edge = frames[k].edge
      BY <1>a, <2>4, <3>1 DEF EndedCalls
    <3> QED BY <1>h, <2>4, <3>1, <3>2 DEF WalkInv, Nested
  <2> QED BY <1>b, <1>c, <2>1, <2>2, <2>3, <2>4 DEF Nested, Gray
<1>4. Explored'
  <2>1. ASSUME NEW e \in DOMAIN edges, Looked(e)'
        PROVE  index[edges[e][2]] # 0
    <3>1. CASE Looked(e)
      BY <3>1 DEF WalkInv, Explored
    <3>2. CASE Caller # 0 /\ e = frames[Caller].edge
      <4>1. edges[e][2] = v
        BY <1>a, <3>2 DEF EndedCalls
      <4> QED BY <1>a, <4>1, GrayOrder
    <3> QED BY <1>a, <2>1, <3>1, <3>2 DEF EndedLooked
  <2> QED BY <1>b, <1>c, <2>1 DEF WalkInv, Explored
<1>5. Connected'
  <2>1. \A k \in DOMAIN frames', w \in Nodes :
          OnStack(w) /\ index[frames'[k].node] <= index[w] => Reach(frames'[k].node, w)
    BY <1>h DEF WalkInv, Connected
  <2>2. ASSUME NEW w \in Nodes, OnStack(w)
        PROVE  \E k \in DOMAIN frames' : /\ index[frames'[k].node] <= index[w]
                                         /\ Reach(w, frames'[k].node)
    <3>1. PICK k \in DOMAIN frames : index[Gray(k)] <= index[w] /\ Reach(w, Gray(k))
      BY <2>2 DEF WalkInv, Connected
    <3>2. CASE k = Inmost
      <4>1. Reach(w, Gray(g))
        BY <1>e, <1>f, <3>1, <3>2, ReachOver
      <4>2. index[Gray(g)] <= index[w]
        BY <1>d, <1>e, <1>f, <3>1, <3>2, Numeric
      <4> QED BY <1>g, <1>h, <4>1, <4>2
    <3>3. CASE k # Inmost
      <4>1. k \in DOMAIN frames'
        BY <1>a, <3>1, <3>3, Positions DEF EndedCalls, Inmost, Caller
      <4> QED BY <1>h, <3>1, <4>1
    <3> QED BY <3>2, <3>3
  <2> QED BY <1>b, <1>c, <2>1, <2>2 DEF Connected, Gray
<1>6. LowReached'
  <2>1. ASSUME NEW k \in DOMAIN frames'
        PROVE  /\ low'[Gray(k)] <= index[Gray(k)]
               /\ \E w \in Nodes : OnStack(w) /\ low'[Gray(k)] = index[w] /\ Reach(Gray(k), w)
    <3>1. /\ low[Gray(k)] <= index[Gray(k)] /\ low[Gray(k)] \in Nat /\ index[Gray(k)] \in Nat
          /\ \E w \in Nodes : OnStack(w) /\ low[Gray(k)] = index[w] /\ Reach(Gray(k), w)
      BY <1>h, Numeric DEF WalkInv, LowReached
    <3>2. CASE low'[Gray(k)] = low[Gray(k)]
      BY <3>1, <3>2
    <3>3. CASE low'[Gray(k)] # low[Gray(k)]
      <4>1. k = Caller /\ low'[p] = low[v]
        BY <1>h, <1>i, <1>j, <3>3
      <4>2. Reach(p, v)
        BY <1>d, <1>g, <1>h DEF WalkInv, Connected
      <4>3. Reach(p, u)
        BY <1>e, <4>2, ReachOver
      <4>4. low'[p] <= index[p]
        BY <1>i, <3>1, <4>1
      <4> QED BY <1>e, <4>1, <4>3, <4>4
    <3> QED BY <3>2, <3>3
  <2>2. ASSUME NEW k \in DOMAIN frames'
        PROVE  /\ low'[frames'[k].node] <= index[frames'[k].node]
               /\ \E w \in Nodes : /\ OnStack(w) /\ low'[frames'[k].node] = index[w]
                                   /\ Reach(frames'[k].node, w)
    BY <1>h, <2>1
  <2> QED BY <1>b, <1>c, <2>2 DEF LowReached, Gray
<1>7. LowBounds'
  <2>1. ASSUME NEW k \in DOMAIN frames', NEW x \in Nodes, NEW y \in Nodes,
               NEW e \in DOMAIN edges, edges[e][1] = x, edges[e][2] = y,
               Looked(e)', Between(k, x)', OnStack(y)'
        PROVE  low'[Gray(k)] <= index[y]
    <3>1. k \in DOMAIN frames /\ frames'[k].node = Gray(k) /\ k < Inmost /\ index[Gray(k)] \in Nat
      BY <1>h
    <3>2. OnStack(x) /\ OnStack(y) /\ index[Gray(k)] <= index[x]
          /\ (k < Len(frames') => index[x] < index[frames'[k + 1].node])
      BY <1>c, <2>1, <3>1 DEF Between, Gray
    <3>3. index[x] \in Nat /\ index[y] \in Nat /\ low[Gray(k)] \in Nat
      BY <3>1, Numeric
    <3>4. CASE k # Caller
      <4>1. Between(k, x)
        <5>1. k < Len(frames') /\ k + 1 \in DOMAIN frames'
          BY <1>a, <2>1, <3>4 DEF EndedCalls
        <5>2. index[x] < index[Gray(k + 1)]
          BY <1>h, <3>2, <5>1
        <5> QED BY <3>2, <5>2 DEF Between
      <4>2. CASE Looked(e)
        <5>1. low[Gray(k)] <= index[y]
          BY <2>1, <3>1, <3>2, <4>1, <4>2 DEF WalkInv, LowBounds
        <5> QED BY <1>h, <1>i, <1>j, <3>4, <5>1
      <4>3. CASE e = frames[Caller].edge
        <5>1. x = p
          BY <1>a, <1>g, <2>1, <4>3 DEF EndedCalls
        <5>2. k < Caller /\ k + 1 <= Caller /\ k + 1 \in DOMAIN frames
          <6>1. k \in 1 .. Caller /\ Caller \in Nat /\ DOMAIN frames' = 1 .. Caller
            BY <1>a, <2>1 DEF EndedCalls
          <6>2. k < Caller /\ k + 1 <= Caller /\ k + 1 \in 1 .. Caller
            BY <3>4, <6>1
          <6> QED BY <1>h, <6>1, <6>2
        <5>3. index[Gray(k + 1)] <= index[p]
          BY <1>g, <5>2, GrayOrder
        <5>4. index[p] < index[Gray(k + 1)]
          BY <4>1, <5>1, <5>2, <3>1, <1>g DEF Between, Inmost
        <5>5. index[p] \in Nat /\ index[Gray(k + 1)] \in Nat
          BY <1>g, <5>2, Numeric
        <5> QED BY <5>3, <5>4, <5>5
      <4> QED BY <1>a, <2>1, <4>2, <4>3 DEF EndedLooked
    <3>5. CASE k = Caller
      <4>1. CASE Looked(e) /\ index[x] < index[v]
        <5>1. k + 1 = Inmost
          BY <1>a, <3>5 DEF EndedCalls, Inmost, Caller
        <5>2. Between(k, x)
          BY <3>2, <4>1, <5>1 DEF Between
        <5>3. low[Gray(k)] <= index[y]
          BY <2>1, <3>1, <3>2, <4>1, <5>2 DEF WalkInv, LowBounds
        <5> QED BY <1>i, <3>3, <3>5, <5>3
      <4>2. CASE Looked(e) /\ index[v] <= index[x]
        <5>1. Between(Inmost, x)
          BY <3>2, <4>2 DEF Between, Inmost
        <5>2. low[v] <= index[y]
          BY <1>a, <2>1, <3>2, <4>2, <5>1 DEF WalkInv, LowBounds
        <5> QED BY <1>d, <1>i, <3>3, <3>5, <5>2
      <4>3. CASE e = frames[Caller].edge
        <5>1. y = v
          BY <1>a, <1>g, <2>1, <4>3 DEF EndedCalls
        <5> QED BY <1>d, <1>i, <3>5, <5>1
      <4> QED BY <1>a, <1>d, <2>1, <3>3, <4>1, <4>2, <4>3 DEF EndedLooked
    <3> QED BY <3>4, <3>5
  <2>2. ASSUME NEW k \in DOMAIN frames', NEW e \in DOMAIN edges,
               Looked(e)', Between(k, edges[e][1])', OnStack(edges[e][2])'
        PROVE  low'[frames'[k].node] <= index[edges[e][2]]
    <3>1. edges[e][1] \in Nodes /\ edges[e][2] \in Nodes
      BY Numeric
    <3>2. frames'[k].node = Gray(k)
      BY <1>h
    <3> QED BY <1>b, <2>1, <2>2, <3>1, <3>2 DEF Between, OnStack
  <2> QED BY <1>b, <1>c, <2>2 DEF LowBounds, Gray
<1> QED BY <1>b, <1>1, <1>2, <1>3, <1>4, <1>5, <1>6, <1>7 DEF WalkInv

LEMMA StartedRight ==
  ASSUME GraphTyped, StartWalk
  PROVE  WalkInv'
<1>1. /\ Nodes' = Nodes /\ edges' = edges /\ GraphTyped'
      /\ \A x, y : Reach(x, y)' <=> Reach(x, y)
  BY GraphStays DEF StartWalk
<1>2. /\ index' = [i \in Nodes |-> 0] /\ low' = [i \in Nodes |-> 0]
      /\ component' = [i \in Nodes |-> 0] /\ stack' = <<>> /\ count' = 0 /\ frames' = <<>>
  BY DEF StartWalk
<1>3. /\ DOMAIN frames' = {} /\ DOMAIN stack' = {} /\ Reached' = {}
      /\ frames' \in Seq([node : Nodes, edge : Nat \ {0}]) /\ stack' \in Seq(Nodes)
  BY <1>1, <1>2 DEF Reached
<1>4. WalkTyped'
  BY <1>1, <1>2, <1>3 DEF WalkTyped
<1>5. Numbered'
  <2>1. Cardinality(Reached') = 0
    BY <1>3, FS_EmptySet
  <2> QED BY <1>1, <1>2, <1>3, <2>1 DEF Numbered
<1>6. Stacked' /\ Nested' /\ Connected' /\ LowReached' /\ LowBounds' /\ Mutual'
  BY <1>1, <1>2, <1>3
  DEF Stacked, Nested, Connected, LowReached, LowBounds, Mutual, OnStack
<1>7. Explored'
  <2>1. \A e \in DOMAIN edges : edges[e][1] \in Nodes
    <3>1. edges \in Seq(Nodes \X Nodes)
      BY DEF GraphTyped
    <3>2. \A e \in DOMAIN edges : edges[e] \in Nodes \X Nodes
      BY <3>1
    <3> QED BY <3>2
  <2> QED BY <1>1, <1>2, <1>3, <2>1 DEF Explored, Looked
<1> QED BY <1>1, <1>4, <1>5, <1>6, <1>7 DEF WalkInv

\* Every step of the search keeps the invariant, and so does one that touches neither the
\* graph nor the search.
LEMMA WalkKeeps ==
  ASSUME WalkInv, Walk
  PROVE  WalkInv'
<1>1. CASE VisitRoot
  <2>1. Lowest(Nodes \ Reached) \in Nodes \ Reached
    <3>1. Nodes \ Reached # {} /\ Nodes \ Reached \subseteq Nat
      BY <1>1, Shape DEF VisitRoot, Reached
    <3> QED BY <3>1, LowestIn
  <2>2. Entering(Lowest(Nodes \ Reached))
    BY <1>1, <2>1 DEF VisitRoot, Entering, Reached
  <2> QED BY <2>2, EnteringKeeps
<1>2. CASE SkipEdge \/ SeenEdge
  BY <1>2, PassingOver, PassingKeeps
<1>3. CASE Descend
  <2>1. Target \in Nodes
    <3>1. Len(frames) \in DOMAIN frames /\ Top.edge \in DOMAIN edges
      BY <1>3, Positions DEF Descend, AtEdge, Top
    <3> QED BY <3>1, Numeric DEF Target
  <2>2. Entering(Target)
    BY <1>3, <2>1 DEF Descend, Entering
  <2> QED BY <2>2, EnteringKeeps
<1>4. CASE Return
  <2>1. Ending
    BY <1>4 DEF Return, Ending
  <2>2. EndedCalls
    BY <2>1, EndedTop
  <2>3. Top.node = Gray(Inmost)
    BY DEF Top, Gray, Inmost
  <2>4. Inmost \in DOMAIN frames /\ Gray(Inmost) \in Nodes /\ low[Gray(Inmost)] \in Nat
        /\ low \in [Nodes -> Nat]
    BY <2>2, Numeric DEF EndedCalls, WalkInv, WalkTyped
  <2>5. CASE low[Gray(Inmost)] = index[Gray(Inmost)]
    <3>1. low' = low
      <4>1. CASE Caller = 0
        BY <1>4, <2>2, <4>1 DEF Return, EndedCalls
      <4>2. CASE Caller # 0
        <5>1. low' = [low EXCEPT ![Gray(Caller)] = Least(@, low[Gray(Inmost)])]
          BY <1>4, <2>2, <2>3, <4>2 DEF Return, EndedCalls
        <5>2. Caller \in DOMAIN frames /\ Caller < Inmost
          BY <2>2, <4>2 DEF EndedCalls, Inmost, Caller
        <5>3. index[Gray(Caller)] < index[Gray(Inmost)]
          BY <2>4, <5>2, GrayOrder
        <5>4. low[Gray(Caller)] <= index[Gray(Caller)]
          BY <5>2 DEF WalkInv, LowReached
        <5>5. /\ Gray(Caller) \in Nodes /\ low[Gray(Caller)] \in Nat
              /\ index[Gray(Caller)] \in Nat /\ index[Gray(Inmost)] \in Nat
          BY <2>4, <5>2, Numeric
        <5>6. Least(low[Gray(Caller)], low[Gray(Inmost)]) = low[Gray(Caller)]
          BY <2>5, <5>3, <5>4, <5>5 DEF Least
        <5> QED BY <2>4, <5>1, <5>5, <5>6
      <4> QED BY <4>1, <4>2
    <3>2. Popping
      BY <1>4, <2>1, <2>3, <2>5, <3>1 DEF Return, Popping, Remainder
    <3> QED BY <3>2, PoppingKeeps
  <2>6. CASE low[Gray(Inmost)] # index[Gray(Inmost)]
    <3>1. Leaving
      <4>1. ASSUME Caller # 0
            PROVE  /\ low' \in [Nodes -> Nat]
                   /\ \A i \in Nodes : i # Gray(Caller) => low'[i] = low[i]
                   /\ low'[Gray(Caller)] <= low[Gray(Caller)]
                   /\ low'[Gray(Caller)] <= low[Gray(Inmost)]
                   /\ \/ low'[Gray(Caller)] = low[Gray(Caller)]
                      \/ low'[Gray(Caller)] = low[Gray(Inmost)]
        <5>1. low' = [low EXCEPT ![Gray(Caller)] = Least(@, low[Gray(Inmost)])]
          BY <1>4, <2>2, <2>3, <4>1 DEF Return, EndedCalls
        <5>2. Gray(Caller) \in Nodes /\ low[Gray(Caller)] \in Nat
          BY <2>2, <4>1, Numeric DEF EndedCalls
        <5> QED BY <2>4, <5>1, <5>2 DEF Least
      <4> QED BY <1>4, <2>1, <2>3, <2>6, <4>1 DEF Return, Leaving
    <3> QED BY <3>1, LeavingKeeps
  <2> QED BY <2>5, <2>6
<1> QED BY <1>1, <1>2, <1>3, <1>4 DEF Walk

LEMMA WalkStays ==
  ASSUME WalkInv, UNCHANGED <<graphVars, walkVars>>
  PROVE  WalkInv'
<1>1. /\ nodes' = nodes /\ edges' = edges /\ index' = index /\ low' = low /\ stack' = stack
      /\ component' = component /\ count' = count /\ frames' = frames
  BY DEF graphVars, walkVars
<1>2. Nodes' = Nodes /\ Edges' = Edges
  BY <1>1 DEF Nodes, Edges
<1>3. Reached' = Reached /\ \A x, y : Reach(x, y)' <=> Reach(x, y)
  BY <1>1, <1>2 DEF Reached, Reach
<1>4. /\ \A w : OnStack(w)' <=> OnStack(w)
      /\ \A e : Looked(e)' <=> Looked(e)
      /\ \A k : Gray(k)' = Gray(k)
  BY <1>1 DEF OnStack, Looked, Gray
<1>5. GraphTyped' /\ WalkTyped' /\ Numbered' /\ Mutual' /\ Explored'
  BY <1>1, <1>2, <1>3, <1>4 DEF WalkInv, GraphTyped, WalkTyped, Numbered, Mutual, Explored
<1>6. Stacked'
  BY <1>1, <1>2, <1>4 DEF WalkInv, Stacked
<1>7. Nested'
  BY <1>1, <1>2, <1>4 DEF WalkInv, Nested, Gray, OnStack
<1>8. Connected' /\ LowReached'
  BY <1>1, <1>2, <1>3, <1>4 DEF WalkInv, Connected, LowReached, Gray
<1>9. LowBounds'
  BY <1>1, <1>2, <1>4 DEF WalkInv, LowBounds, Between, Gray, OnStack, Looked
<1> QED BY <1>5, <1>6, <1>7, <1>8, <1>9 DEF WalkInv

\* At the end the components are right: functions share one exactly if each reaches the other.
SameComponent == \A i, j \in Nodes : component[i] = component[j] <=> Reach(i, j) /\ Reach(j, i)
LEMMA WalkedRight ==
  ASSUME WalkInv, Walked
  PROVE  /\ SameComponent
         /\ \A i \in Nodes : component[i] \in 1 .. count
<1>1. \A i \in Nodes : component[i] # 0
  BY NothingLeft DEF Walked, Reached, WalkInv, Stacked
<1>2. \A i \in Nodes : component[i] \in 1 .. count
  BY <1>1 DEF WalkInv, WalkTyped
<1>3. ASSUME NEW i \in Nodes, NEW j \in Nodes, Reach(i, j)
      PROVE  component[j] <= component[i]
  <2> DEFINE Below == {k \in Nodes : component[k] <= component[i]}
  <2>1. {i} \subseteq Below
    BY <1>2 DEF WalkInv, WalkTyped
  <2>2. Closed(Edges, Below)
    <3>1. ASSUME NEW e \in DOMAIN edges, edges[e][1] \in Below
          PROVE  edges[e][2] \in Below
      <4>1. component[edges[e][2]] <= component[edges[e][1]]
        BY <1>1, <3>1 DEF WalkInv, Explored
      <4>2. component[edges[e][1]] <= component[i]
        BY <3>1
      <4>3. edges[e][2] \in Nodes /\ edges[e][1] \in Nodes
        BY Numeric
      <4>4. component[edges[e][2]] \in Nat /\ component[edges[e][1]] \in Nat /\ component[i] \in Nat
        BY <4>3, Numeric
      <4> QED BY <4>1, <4>2, <4>3, <4>4
    <3> QED BY <3>1 DEF Closed, Edges
  <2>3. From(Edges, {i}) \subseteq Below
    BY <2>1, <2>2, FromLeast
  <2> QED BY <1>3, <2>3 DEF Reach
<1>4. ASSUME NEW i \in Nodes, NEW j \in Nodes
      PROVE  component[i] = component[j] <=> Reach(i, j) /\ Reach(j, i)
  <2>1. component[i] = component[j] => Reach(i, j) /\ Reach(j, i)
    BY <1>1 DEF WalkInv, Mutual
  <2>2. Reach(i, j) /\ Reach(j, i) => component[i] = component[j]
    <3>1. component[i] \in Nat /\ component[j] \in Nat
      BY Numeric
    <3> QED BY <1>3, <3>1
  <2> QED BY <2>1, <2>2
<1> QED BY <1>2, <1>4 DEF SameComponent

-----------------------------------------------------------------------------
(* The graphs the walk is given *)

Distinct(ns) == \A i, j \in DOMAIN ns : ns[i].name = ns[j].name => i = j
NodesOver(N) == [name : N, marked : BOOLEAN]
EdgeNamed(a, b) ==
  \E e \in DOMAIN edges : nodes[edges[e][1]].name = a /\ nodes[edges[e][2]].name = b
NodeMarked(a) == \E i \in Nodes : nodes[i].name = a /\ nodes[i].marked
NodeNamed(a) == \E i \in Nodes : nodes[i].name = a

LEMMA SequenceInto ==
  ASSUME NEW Q, NEW s \in Seq(Q), NEW S, \A k \in DOMAIN s : s[k] \in S
  PROVE  s \in Seq(S)
<1>1. DOMAIN s = 1 .. Len(s) /\ Len(s) \in Nat
  OBVIOUS
<1> QED BY <1>1, ElementOfSeq, SeqDef

LEMMA PositionOf ==
  ASSUME NEW ns, Distinct(ns), NEW i \in DOMAIN ns
  PROVE  PositionIn(ns, ns[i].name) = i
BY DEF Distinct, PositionIn

\* What WithNode makes of the functions.
Grown(ms, ns) ==
  /\ DOMAIN ms \subseteq DOMAIN ns
  /\ \A i \in DOMAIN ms : ns[i] = ms[i]
Has(N, ms, x, m, ns) ==
  /\ ns \in Seq(NodesOver(N)) /\ Distinct(ns) /\ Grown(ms, ns)
  /\ \A i \in DOMAIN ns : i \in DOMAIN ms \/ ns[i] = [name |-> x, marked |-> m]
  /\ \E i \in DOMAIN ns : ns[i].name = x
LEMMA WithNodeDoes ==
  ASSUME NEW N, NEW ns \in Seq(NodesOver(N)), Distinct(ns), NEW x \in N, NEW m \in BOOLEAN
  PROVE  Has(N, ns, x, m, WithNode(ns, x, m))
<1> DEFINE R == NodesOver(N)
           r == WithNode(ns, x, m)
           new == [name |-> x, marked |-> m]
<1>1. new \in R /\ new.name = x
  BY DEF NodesOver
<1>2. CASE \E i \in DOMAIN ns : ns[i].name = x
  <2>1. PICK i \in DOMAIN ns : ns[i].name = x
    BY <1>2
  <2>2. PositionIn(ns, x) = i
    BY <2>1, PositionOf
  <2>3. r = ns
    BY <2>1, <2>2 DEF WithNode
  <2> HIDE DEF r
  <2> QED BY <2>1, <2>3 DEF Grown, Has, r
<1>3. CASE \A i \in DOMAIN ns : ns[i].name # x
  <2>1. PositionIn(ns, x) = Len(ns) + 1
    BY <1>3 DEF PositionIn
  <2>2. r = Append(ns, new)
    BY <2>1 DEF WithNode
  <2> HIDE DEF r, R, new
  <2>3. ns \in Seq(R)
    BY DEF R
  <2>4. /\ r \in Seq(R) /\ DOMAIN ns = 1 .. Len(ns) /\ Len(ns) \in Nat
        /\ DOMAIN r = 1 .. Len(ns) + 1 /\ r[Len(ns) + 1] = new
        /\ \A i \in 1 .. Len(ns) : r[i] = ns[i]
    BY <1>1, <2>2, <2>3
  <2>5. Grown(ns, r)
    BY <2>4 DEF Grown
  <2>6. \A i \in DOMAIN r : i \in DOMAIN ns \/ i = Len(ns) + 1
    BY <2>4
  <2>7. Distinct(r)
    BY <1>1, <1>3, <2>4, <2>6 DEF Distinct
  <2> QED BY <1>1, <2>4, <2>5, <2>6, <2>7 DEF Has, r, R, new
<1> QED BY <1>2, <1>3

\* What the graph is after an edge between two of the functions is added.
EdgeAdded(x, y) ==
  /\ edges' \in Seq(Nodes' \X Nodes')
  /\ \A a, b : EdgeNamed(a, b)' <=> EdgeNamed(a, b) \/ (a = x /\ b = y)
LEMMA Joined ==
  ASSUME edges \in Seq(Nodes \X Nodes),
         NEW ns, nodes' = ns, Distinct(ns), Grown(nodes, ns),
         NEW i \in DOMAIN ns, NEW j \in DOMAIN ns,
         edges' = WithEdge(edges, PositionIn(ns, ns[i].name), PositionIn(ns, ns[j].name))
  PROVE  EdgeAdded(ns[i].name, ns[j].name)
<1> DEFINE P == Nodes' \X Nodes'
           new == <<i, j>>
<1>1. edges' = WithEdge(edges, i, j)
  BY PositionOf
<1>2. Nodes \subseteq Nodes' /\ i \in Nodes' /\ j \in Nodes' /\ new \in P
  BY DEF Nodes, Grown
<1>3. /\ edges \in Seq(P) /\ DOMAIN edges = 1 .. Len(edges) /\ Len(edges) \in Nat
      /\ \A e \in DOMAIN edges : edges[e] \in Nodes \X Nodes
  BY <1>2
<1>4. /\ edges' \in Seq(P) /\ DOMAIN edges \subseteq DOMAIN edges'
      /\ \A e \in DOMAIN edges : edges'[e] = edges[e]
      /\ \A e \in DOMAIN edges' : e \in DOMAIN edges \/ edges'[e] = new
      /\ \E e \in DOMAIN edges' : edges'[e] = new
  <2>1. CASE \E e \in DOMAIN edges : edges[e] = new
    BY <1>1, <1>3, <2>1 DEF WithEdge
  <2>2. CASE ~ \E e \in DOMAIN edges : edges[e] = new
    <3>1. edges' = Append(edges, new)
      BY <1>1, <2>2 DEF WithEdge
    <3> HIDE DEF P, new
    <3>2. /\ edges' \in Seq(P) /\ DOMAIN edges' = 1 .. Len(edges) + 1
          /\ edges'[Len(edges) + 1] = new
          /\ \A e \in 1 .. Len(edges) : edges'[e] = edges[e]
      BY <1>2, <1>3, <3>1
    <3>3. \A e \in 1 .. Len(edges) + 1 : e \in 1 .. Len(edges) \/ e = Len(edges) + 1
      BY <1>3
    <3>4. Len(edges) + 1 \in 1 .. Len(edges) + 1
      BY <1>3
    <3> QED BY <1>3, <3>2, <3>3, <3>4
  <2> QED BY <2>1, <2>2
<1>5. \A e \in DOMAIN edges : /\ ns[edges[e][1]].name = nodes[edges[e][1]].name
                              /\ ns[edges[e][2]].name = nodes[edges[e][2]].name
  <2>1. \A e \in DOMAIN edges : edges[e][1] \in DOMAIN nodes /\ edges[e][2] \in DOMAIN nodes
    BY <1>3 DEF Nodes
  <2> QED BY <2>1 DEF Grown
<1>6. ASSUME NEW a, NEW b
      PROVE  EdgeNamed(a, b)' <=>
               EdgeNamed(a, b) \/ (a = ns[i].name /\ b = ns[j].name)
  <2>1. ASSUME EdgeNamed(a, b)'
        PROVE  EdgeNamed(a, b) \/ (a = ns[i].name /\ b = ns[j].name)
    <3>1. PICK e \in DOMAIN edges' : /\ ns[edges'[e][1]].name = a
                                     /\ ns[edges'[e][2]].name = b
      BY <2>1 DEF EdgeNamed
    <3>2. CASE e \in DOMAIN edges
      BY <1>4, <1>5, <3>1, <3>2 DEF EdgeNamed
    <3>3. CASE edges'[e] = new
      BY <3>1, <3>3
    <3> QED BY <1>4, <3>2, <3>3
  <2>2. ASSUME EdgeNamed(a, b)
        PROVE  EdgeNamed(a, b)'
    <3>1. PICK e \in DOMAIN edges : nodes[edges[e][1]].name = a /\ nodes[edges[e][2]].name = b
      BY <2>2 DEF EdgeNamed
    <3>2. e \in DOMAIN edges' /\ edges'[e] = edges[e]
      BY <1>4
    <3> QED BY <1>5, <3>1, <3>2 DEF EdgeNamed
  <2>3. ASSUME a = ns[i].name, b = ns[j].name
        PROVE  EdgeNamed(a, b)'
    <3>1. PICK e \in DOMAIN edges' : edges'[e] = new
      BY <1>4
    <3> QED BY <2>3, <3>1 DEF EdgeNamed
  <2> QED BY <2>1, <2>2, <2>3
<1> QED BY <1>4, <1>6 DEF EdgeAdded

\* Functions that come or get marked leave the calls as they are.
LEMMA NamesStay ==
  ASSUME edges \in Seq(Nodes \X Nodes), DOMAIN nodes \subseteq DOMAIN nodes',
         \A i \in DOMAIN nodes : nodes'[i].name = nodes[i].name, edges' = edges
  PROVE  /\ edges' \in Seq(Nodes' \X Nodes')
         /\ \A a, b : EdgeNamed(a, b)' <=> EdgeNamed(a, b)
<1>1. Nodes \subseteq Nodes'
  BY DEF Nodes
<1>2. edges \in Seq(Nodes' \X Nodes')
  BY <1>1
<1>3. \A e \in DOMAIN edges : edges[e][1] \in DOMAIN nodes /\ edges[e][2] \in DOMAIN nodes
  <2>1. \A e \in DOMAIN edges : edges[e] \in Nodes \X Nodes
    OBVIOUS
  <2> QED BY <2>1 DEF Nodes
<1> QED BY <1>2, <1>3 DEF EdgeNamed

-----------------------------------------------------------------------------
(* The program *)

AllNames == UNION {{Functions(u)[k].name : k \in DOMAIN Functions(u)} : u \in DOMAIN program}

LEMMA ProgramShape ==
  ASSUME program \in Programs
  PROVE  /\ DOMAIN program = 1 .. Len(program) /\ Len(program) \in Nat /\ Len(program) # 0
         /\ \A u \in DOMAIN program :
              /\ DOMAIN Functions(u) = 1 .. Len(Functions(u)) /\ Len(Functions(u)) \in Nat
              /\ \A k \in DOMAIN Functions(u) : Functions(u)[k].name \in AllNames
<1>1. WellFormed(program)
  BY ProgramsAssumption
<1>2. program # <<>> /\ program \in Seq({program[k] : k \in DOMAIN program})
  BY <1>1 DEF WellFormed, IsSequence
<1>3. DOMAIN program = 1 .. Len(program) /\ Len(program) \in Nat /\ Len(program) # 0
  <2> DEFINE S == {program[k] : k \in DOMAIN program}
  <2>1. program \in Seq(S) /\ program # <<>>
    BY <1>2
  <2> HIDE DEF S
  <2> QED BY <2>1
<1>4. ASSUME NEW u \in DOMAIN program
      PROVE  DOMAIN Functions(u) = 1 .. Len(Functions(u)) /\ Len(Functions(u)) \in Nat
  <2>1. Functions(u) \in Seq({Functions(u)[k] : k \in DOMAIN Functions(u)})
    BY <1>1 DEF WellFormed, IsSequence, Functions
  <2> DEFINE S == {Functions(u)[k] : k \in DOMAIN Functions(u)}
  <2>2. Functions(u) \in Seq(S)
    BY <2>1
  <2> HIDE DEF S
  <2> QED BY <2>2
<1>5. \A u \in DOMAIN program : \A k \in DOMAIN Functions(u) : Functions(u)[k].name \in AllNames
  BY DEF AllNames
<1> QED BY <1>3, <1>4, <1>5

\* The functions of a unit and what they call.
LEMMA FunctionShape ==
  ASSUME program \in Programs, NEW u \in DOMAIN program, NEW k \in DOMAIN Functions(u)
  PROVE  /\ Functions(u)[k].body \in BOOLEAN /\ Functions(u)[k].marked \in BOOLEAN
         /\ Fun(u, Functions(u)[k].name) = Functions(u)[k]
         /\ \A j \in DOMAIN Functions(u) : Functions(u)[j].name = Functions(u)[k].name => j = k
         /\ DOMAIN Functions(u)[k].calls = 1 .. Len(Functions(u)[k].calls)
         /\ Len(Functions(u)[k].calls) \in Nat
         /\ \A c \in DOMAIN Functions(u)[k].calls : \E j \in DOMAIN Functions(u) :
              /\ Functions(u)[j].name = Functions(u)[k].calls[c].to
              /\ Fun(u, Functions(u)[k].calls[c].to) = Functions(u)[j]
<1>1. /\ \A i, j \in DOMAIN Functions(u) : Functions(u)[i].name = Functions(u)[j].name => i = j
      /\ {Functions(u)[k].static, Functions(u)[k].body, Functions(u)[k].marked} \subseteq BOOLEAN
      /\ IsSequence(Functions(u)[k].calls)
      /\ \A c \in DOMAIN Functions(u)[k].calls : \E j \in DOMAIN Functions(u) :
           Functions(u)[j].name = Functions(u)[k].calls[c].to
  <2>1. WellFormed(program)
    BY ProgramsAssumption
  <2> QED BY <2>1 DEF WellFormed, Functions
<1>2. \A j \in DOMAIN Functions(u) : Fun(u, Functions(u)[j].name) = Functions(u)[j]
  BY <1>1 DEF Fun
<1>3. /\ DOMAIN Functions(u)[k].calls = 1 .. Len(Functions(u)[k].calls)
      /\ Len(Functions(u)[k].calls) \in Nat
  <2> DEFINE cs == Functions(u)[k].calls
             S == {cs[c] : c \in DOMAIN cs}
  <2>1. cs \in Seq(S)
    BY <1>1 DEF IsSequence
  <2> HIDE DEF cs, S
  <2>2. DOMAIN cs = 1 .. Len(cs) /\ Len(cs) \in Nat
    BY <2>1
  <2> QED BY <2>2 DEF cs
<1> QED BY <1>1, <1>2, <1>3

\* The body of a function calls another by name: of the n-th and those behind it, only the
\* calls before the c-th of the n-th count.
Called(u, n, c, a, b) ==
  \E k \in DOMAIN Functions(u) :
    /\ Functions(u)[k].body /\ Functions(u)[k].name = a
    /\ \E j \in DOMAIN Functions(u)[k].calls :
         /\ Functions(u)[k].calls[j].how = "name" /\ Functions(u)[k].calls[j].to = b
         /\ k < n \/ (k = n /\ j < c)

LEMMA ProgramStays ==
  ASSUME program' = program
  PROVE  /\ AllNames' = AllNames /\ \A u : Functions(u)' = Functions(u)
         /\ \A u, n, c, a, b : Called(u, n, c, a, b)' <=> Called(u, n, c, a, b)
<1>1. \A u : Functions(u)' = Functions(u)
  BY DEF Functions
<1>2. \A u, n, c, a, b : Called(u, n, c, a, b)' <=> Called(u, n, c, a, b)
  BY DEF Called, Functions
<1>3. AllNames' = AllNames
  BY DEF AllNames, Functions
<1> QED BY <1>1, <1>2, <1>3

LEMMA CalledByName ==
  ASSUME program \in Programs, NEW u \in DOMAIN program, NEW n, n > Len(Functions(u)), n \in Nat,
         NEW a, NEW b
  PROVE  Called(u, n, 0, a, b) <=> <<a, b>> \in NameRelation({u})
<1>1. <<a, b>> \in NameRelation({u}) <=>
        \E f \in Bodies(u) : \E c \in CallsOf(f, {"name"}) : f.name = a /\ c.to = b
  BY DEF NameRelation
<1>2. \A f : f \in Bodies(u) <=> \E k \in DOMAIN Functions(u) : Functions(u)[k] = f /\ f.body
  BY DEF Bodies, Range
<1>3. \A f, c : c \in CallsOf(f, {"name"}) <=>
                  \E j \in DOMAIN f.calls : f.calls[j] = c /\ c.how = "name"
  BY DEF CallsOf, Range
<1>4. \A k \in DOMAIN Functions(u) : k < n
  BY ProgramShape
<1>5. Called(u, n, 0, a, b) <=>
        \E k \in DOMAIN Functions(u) :
          /\ Functions(u)[k].body /\ Functions(u)[k].name = a
          /\ \E j \in DOMAIN Functions(u)[k].calls :
               Functions(u)[k].calls[j].how = "name" /\ Functions(u)[k].calls[j].to = b
  BY <1>4 DEF Called
<1> QED BY <1>1, <1>2, <1>3, <1>5

-----------------------------------------------------------------------------
(* The invariant *)

GraphOfNames ==
  /\ nodes \in Seq(NodesOver(AllNames)) /\ Distinct(nodes)
  /\ edges \in Seq(Nodes \X Nodes)

\* What an object says: the calls by name of the bodies of its unit, and the bodies with
\* symbol-backed parameters.
MarkedBody(u, a) ==
  \E k \in DOMAIN Functions(u) :
    Functions(u)[k].body /\ Functions(u)[k].marked /\ Functions(u)[k].name = a
ExportRight(u, x) ==
  /\ DOMAIN x.graph = 1 .. Len(x.graph) /\ Len(x.graph) \in Nat
  /\ \A k \in DOMAIN x.graph :
       \/ x.graph[k] = NoRecord
       \/ \E a \in AllNames : x.graph[k] = <<"F", a>> /\ MarkedBody(u, a)
       \/ \E a, b \in AllNames : x.graph[k] = <<"E", a, b>> /\ <<a, b>> \in NameRelation({u})
  /\ \A a : MarkedBody(u, a) => \E k \in DOMAIN x.graph : x.graph[k] = <<"F", a>>
  /\ \A a, b : <<a, b>> \in NameRelation({u}) =>
                 \E k \in DOMAIN x.graph : x.graph[k] = <<"E", a, b>>
  /\ x.regions = RegionMarks(u)

BaseInv ==
  /\ program \in Programs
  /\ exports \in Seq({exports[u] : u \in DOMAIN exports}) /\ Len(exports) <= Len(program)
  /\ \A u \in DOMAIN exports : ExportRight(u, exports[u])

\* While a unit is compiled: the calls of the bodies that are behind.
UnitGraph ==
  /\ unit \in DOMAIN program /\ Len(exports) = unit - 1
  /\ at \in 1 .. Len(Functions(unit)) + 1 /\ call \in Nat
  /\ call > 0 => at \in DOMAIN Functions(unit) /\ Functions(unit)[at].body
  /\ \A i \in Nodes : \E k \in DOMAIN Functions(unit) :
       nodes[i] = [name |-> Functions(unit)[k].name, marked |-> Functions(unit)[k].marked]
  /\ \A k \in DOMAIN Functions(unit) :
       Functions(unit)[k].body /\ (k < at \/ (k = at /\ call > 0)) =>
         NodeNamed(Functions(unit)[k].name)
  /\ \A a, b : EdgeNamed(a, b) <=> Called(unit, at, call, a, b)

\* While the linker reads: the calls and the marks of the records that are behind.
Passed(u, k) == /\ u \in DOMAIN exports /\ k \in DOMAIN exports[u].graph
                /\ u < unit \/ (u = unit /\ k < at)
ReadGraph ==
  /\ unit \in 1 .. Len(exports) + 1 /\ at \in Nat \ {0}
  /\ \A a, b : EdgeNamed(a, b) <=> \E u, k : Passed(u, k) /\ exports[u].graph[k] = <<"E", a, b>>
  /\ \A a : NodeMarked(a) <=> \E u, k : Passed(u, k) /\ exports[u].graph[k] = <<"F", a>>

WholeGraph ==
  /\ \A a, b : EdgeNamed(a, b) <=> <<a, b>> \in NameRelation(DOMAIN program)
  /\ \A a : NodeMarked(a) <=> \E u \in DOMAIN program : MarkedBody(u, a)

AllExported == Len(exports) = Len(program)
RegionsChecked == \A x \in RegionRecords : RegionAgrees(x)

LinkInv ==
  /\ BaseInv /\ GraphOfNames
  /\ phase \in {"compile", "analyze", "unit refused"} => UnitGraph
  /\ phase \in {"analyze", "unit refused"} => at > Len(Functions(unit)) /\ WalkInv
  /\ phase = "unit refused" => Walked /\ Refused
  /\ phase \in {"abi", "regions"} => AllExported /\ at = 1 /\ nodes = <<>> /\ edges = <<>>
  /\ phase \in {"collect", "enforce", "linked", "link refused"} => AllExported /\ RegionsChecked
  /\ phase = "collect" => ReadGraph
  /\ phase \in {"enforce", "linked", "link refused"} => WholeGraph /\ WalkInv
  /\ phase \in {"linked", "link refused"} => Walked /\ (Refused <=> phase = "link refused")

-----------------------------------------------------------------------------
(* The steps *)

LEMMA ExportsStayRight ==
  ASSUME program' = program
  PROVE  \A u, x : ExportRight(u, x)' <=> ExportRight(u, x)
<1>1. AllNames' = AllNames
  BY ProgramStays
<1> QED BY <1>1 DEF ExportRight, MarkedBody, NameRelation, Bodies, Functions, RegionMarks,
                    CallsOf, NoRecord, Extent

LEMMA BaseStays ==
  ASSUME BaseInv, UNCHANGED <<program, exports>>
  PROVE  BaseInv'
<1>1. program' = program /\ exports' = exports
  OBVIOUS
<1> QED BY <1>1, ExportsStayRight DEF BaseInv

LEMMA GraphPartsStay ==
  ASSUME UNCHANGED <<program, unit, at, call, exports, graphVars>>
  PROVE  /\ BaseInv => BaseInv'
         /\ GraphOfNames => GraphOfNames'
         /\ UnitGraph => UnitGraph'
         /\ ReadGraph => ReadGraph'
         /\ WholeGraph => WholeGraph'
         /\ AllExported => AllExported'
         /\ RegionsChecked => RegionsChecked'
         /\ Functions(unit)' = Functions(unit)
<1>1. /\ program' = program /\ unit' = unit /\ at' = at /\ call' = call /\ exports' = exports
      /\ nodes' = nodes /\ edges' = edges
  BY DEF graphVars
<1>2. /\ AllNames' = AllNames /\ \A u : Functions(u)' = Functions(u)
      /\ \A u, n, c, a, b : Called(u, n, c, a, b)' <=> Called(u, n, c, a, b)
  BY <1>1, ProgramStays
<1>3. /\ Nodes' = Nodes
      /\ \A a, b : EdgeNamed(a, b)' <=> EdgeNamed(a, b)
      /\ \A a : NodeMarked(a)' <=> NodeMarked(a)
      /\ \A a : NodeNamed(a)' <=> NodeNamed(a)
      /\ Distinct(nodes)' <=> Distinct(nodes)
  BY <1>1 DEF Nodes, EdgeNamed, NodeMarked, NodeNamed, Distinct
<1>4. GraphOfNames => GraphOfNames'
  BY <1>1, <1>2, <1>3 DEF GraphOfNames, NodesOver
<1>5. Functions(unit)' = Functions(unit)
  BY <1>1 DEF Functions
<1>6. UnitGraph => UnitGraph'
  <2>1. \A a, b : Called(unit, at, call, a, b)' <=> Called(unit, at, call, a, b)
    BY <1>1 DEF Called, Functions
  <2>2. \A k : NodeNamed(Functions(unit)[k].name)' <=> NodeNamed(Functions(unit)[k].name)
    BY <1>1 DEF NodeNamed, Nodes, Functions
  <2> QED BY <1>1, <1>3, <1>5, <2>1, <2>2 DEF UnitGraph
<1>7. ReadGraph => ReadGraph'
  <2>1. \A u, k : Passed(u, k)' <=> Passed(u, k)
    BY <1>1 DEF Passed
  <2>2. \A x : (\E u, k : Passed(u, k)' /\ exports'[u].graph[k] = x)
              <=> \E u, k : Passed(u, k) /\ exports[u].graph[k] = x
    BY <1>1, <2>1
  <2> QED BY <1>1, <1>3, <2>2 DEF ReadGraph
<1>8. WholeGraph => WholeGraph'
  BY <1>1, <1>3 DEF WholeGraph, NameRelation, MarkedBody, Functions, Bodies, CallsOf
<1>9. (AllExported => AllExported') /\ (RegionsChecked => RegionsChecked')
  BY <1>1 DEF AllExported, RegionsChecked, RegionRecords, RegionAgrees
<1> QED BY <1>1, <1>4, <1>5, <1>6, <1>7, <1>8, <1>9, BaseStays

LEMMA OnlyPhase ==
  ASSUME UNCHANGED <<program, unit, at, call, exports, graphVars, walkVars>>
  PROVE  (Walked' <=> Walked) /\ (Refused' <=> Refused)
<1>1. /\ nodes' = nodes /\ edges' = edges /\ index' = index
      /\ component' = component /\ count' = count /\ frames' = frames
  BY DEF graphVars, walkVars
<1> QED BY <1>1 DEF Walked, Reached, Nodes, Refused, Cyclic, Members, Marked, Edges

LEMMA CalledSteps ==
  ASSUME program \in Programs, NEW u \in DOMAIN program, NEW n \in DOMAIN Functions(u),
         NEW a, NEW b
  PROVE  /\ Called(u, n, 1, a, b) <=> Called(u, n, 0, a, b)
         /\ ~Functions(u)[n].body => (Called(u, n + 1, 0, a, b) <=> Called(u, n, 0, a, b))
         /\ \A c \in Nat : c > Len(Functions(u)[n].calls) =>
              (Called(u, n + 1, 0, a, b) <=> Called(u, n, c, a, b))
         /\ \A c \in DOMAIN Functions(u)[n].calls : Functions(u)[n].body =>
              (Called(u, n, c + 1, a, b) <=>
                 \/ Called(u, n, c, a, b)
                 \/ /\ Functions(u)[n].calls[c].how = "name"
                    /\ a = Functions(u)[n].name /\ b = Functions(u)[n].calls[c].to)
<1> DEFINE fs == Functions(u)
           At(k, j) == /\ fs[k].body /\ fs[k].name = a
                       /\ fs[k].calls[j].how = "name" /\ fs[k].calls[j].to = b
<1>1. DOMAIN fs = 1 .. Len(fs) /\ Len(fs) \in Nat /\ n \in Nat
  BY ProgramShape
<1>2. \A k \in DOMAIN fs : DOMAIN fs[k].calls = 1 .. Len(fs[k].calls) /\ Len(fs[k].calls) \in Nat
  BY FunctionShape
<1>3. \A m, c : Called(u, m, c, a, b) <=>
                  \E k \in DOMAIN fs : \E j \in DOMAIN fs[k].calls :
                    At(k, j) /\ (k < m \/ (k = m /\ j < c))
  BY DEF Called
<1> HIDE DEF fs, At
<1>4. \A k \in DOMAIN fs : k < n + 1 <=> k < n \/ k = n
  BY <1>1
<1>5. \A k \in DOMAIN fs : \A j \in DOMAIN fs[k].calls : ~(j < 0) /\ ~(j < 1)
  BY <1>2
<1>6. Called(u, n, 1, a, b) <=> Called(u, n, 0, a, b)
  BY <1>3, <1>5
<1>7. ASSUME ~fs[n].body
      PROVE  Called(u, n + 1, 0, a, b) <=> Called(u, n, 0, a, b)
  BY <1>3, <1>4, <1>5, <1>7 DEF At
<1>8. ASSUME NEW c \in Nat, c > Len(fs[n].calls)
      PROVE  Called(u, n + 1, 0, a, b) <=> Called(u, n, c, a, b)
  <2>1. \A j \in DOMAIN fs[n].calls : j < c
    BY <1>2, <1>8 DEF fs
  <2> QED BY <1>3, <1>4, <1>5, <2>1
<1>9. ASSUME NEW c \in DOMAIN fs[n].calls, fs[n].body
      PROVE  Called(u, n, c + 1, a, b) <=>
               \/ Called(u, n, c, a, b)
               \/ fs[n].calls[c].how = "name" /\ a = fs[n].name /\ b = fs[n].calls[c].to
  <2>1. n \in DOMAIN fs
    BY DEF fs
  <2>2. \A j \in DOMAIN fs[n].calls : j < c + 1 <=> j < c \/ j = c
    BY <1>2, <2>1
  <2>3. At(n, c) <=> fs[n].calls[c].how = "name" /\ a = fs[n].name /\ b = fs[n].calls[c].to
    BY <1>9 DEF At
  <2> QED BY <1>3, <1>9, <2>1, <2>2, <2>3
<1> QED BY <1>6, <1>7, <1>8, <1>9 DEF fs

LEMMA CompileFunctionKeeps ==
  ASSUME LinkInv, CompileFunction
  PROVE  LinkInv'
<1> DEFINE fs == Functions(unit)
           f == fs[at]
<1>1. /\ phase = "compile" /\ phase' = "compile" /\ at <= Len(fs) /\ call = 0
      /\ UNCHANGED <<program, exports>> /\ unit' = unit /\ edges' = edges
      /\ BaseInv /\ GraphOfNames /\ UnitGraph /\ program \in Programs
  BY DEF CompileFunction, Compiling, LinkInv, BaseInv
<1>2. /\ unit \in DOMAIN program /\ Len(exports) = unit - 1
      /\ DOMAIN fs = 1 .. Len(fs) /\ Len(fs) \in Nat
      /\ at \in DOMAIN fs /\ at \in Nat /\ Current = f /\ f.name \in AllNames
  BY <1>1, ProgramShape DEF UnitGraph, Current
<1>3. f.body \in BOOLEAN /\ f.marked \in BOOLEAN
  BY <1>1, <1>2, FunctionShape
<1>4. /\ AllNames' = AllNames /\ Functions(unit)' = fs
      /\ \A u, n, c, a, b : Called(u, n, c, a, b)' <=> Called(u, n, c, a, b)
  BY <1>1, ProgramStays DEF Functions
<1>5. BaseInv'
  BY <1>1, BaseStays
<1>6. CASE f.body
  <2> DEFINE ns == WithNode(nodes, f.name, f.marked)
  <2>1. nodes' = ns /\ call' = 1 /\ at' = at
    BY <1>1, <1>2, <1>6 DEF CompileFunction
  <2>2. /\ ns \in Seq(NodesOver(AllNames)) /\ Distinct(ns) /\ Grown(nodes, ns)
        /\ \A i \in DOMAIN ns : \/ i \in DOMAIN nodes
                                \/ ns[i] = [name |-> f.name, marked |-> f.marked]
        /\ \E i \in DOMAIN ns : ns[i].name = f.name
    <3>1. nodes \in Seq(NodesOver(AllNames)) /\ Distinct(nodes)
      BY <1>1 DEF GraphOfNames
    <3>2. Has(AllNames, nodes, f.name, f.marked, ns)
      BY <1>2, <1>3, <3>1, WithNodeDoes
    <3> HIDE DEF ns
    <3> QED BY <3>2 DEF Has
  <2> HIDE DEF ns
  <2>3. /\ edges' \in Seq(Nodes' \X Nodes')
        /\ \A a, b : EdgeNamed(a, b)' <=> EdgeNamed(a, b)
    BY <1>1, <2>1, <2>2, NamesStay DEF GraphOfNames, Grown
  <2>4. GraphOfNames'
    BY <1>4, <2>1, <2>2, <2>3 DEF GraphOfNames, Distinct, NodesOver
  <2>5. \A a, b : Called(unit, at, call, a, b)' <=> Called(unit, at, call, a, b)
    <3>1. \A a, b : Called(unit, at, call, a, b)' <=> Called(unit, at, 1, a, b)
      BY <1>1, <2>1 DEF Called, Functions
    <3>2. \A a, b : Called(unit, at, 1, a, b) <=> Called(unit, at, 0, a, b)
      BY <1>1, <1>2, CalledSteps
    <3> QED BY <1>1, <3>1, <3>2
  <2>6. ASSUME NEW i \in Nodes'
        PROVE  \E k \in DOMAIN fs : nodes'[i] = [name |-> fs[k].name, marked |-> fs[k].marked]
    BY <1>1, <1>2, <2>1, <2>2, <2>6 DEF UnitGraph, Nodes, Grown
  <2>7. ASSUME NEW k \in DOMAIN fs, fs[k].body, k < at \/ k = at
        PROVE  \E i \in DOMAIN nodes' : nodes'[i].name = fs[k].name
    <3>1. CASE k < at
      <4>1. NodeNamed(fs[k].name)
        BY <1>1, <2>7, <3>1 DEF UnitGraph
      <4> QED BY <1>4, <2>1, <2>2, <4>1 DEF NodeNamed, Nodes, Grown
    <3>2. CASE k = at
      BY <1>4, <2>1, <2>2, <3>2 DEF NodeNamed, Nodes
    <3> QED BY <2>7, <3>1, <3>2
  <2>8. UnitGraph'
    BY <1>1, <1>2, <1>4, <1>6, <2>1, <2>3, <2>5, <2>6, <2>7 DEF UnitGraph, NodeNamed, Nodes
  <2> QED BY <1>1, <1>5, <2>4, <2>8 DEF LinkInv
<1>7. CASE ~f.body
  <2>1. nodes' = nodes /\ call' = 0 /\ at' = at + 1
    BY <1>1, <1>2, <1>7 DEF CompileFunction
  <2>2. GraphOfNames' /\ Nodes' = Nodes /\ \A a, b : EdgeNamed(a, b)' <=> EdgeNamed(a, b)
    BY <1>1, <1>4, <2>1 DEF GraphOfNames, Distinct, NodesOver, Nodes, EdgeNamed
  <2>3. \A a, b : Called(unit, at, call, a, b)' <=> Called(unit, at, call, a, b)
    <3>1. \A a, b : Called(unit, at, call, a, b)' <=> Called(unit, at + 1, 0, a, b)
      BY <1>1, <2>1 DEF Called, Functions
    <3>2. \A a, b : Called(unit, at + 1, 0, a, b) <=> Called(unit, at, 0, a, b)
      BY <1>1, <1>2, <1>7, CalledSteps
    <3> QED BY <1>1, <3>1, <3>2
  <2>4. \A k \in DOMAIN fs : k < at + 1 => k < at \/ k = at
    BY <1>2
  <2>5. ASSUME NEW k \in DOMAIN fs, fs[k].body, k < at + 1
        PROVE  \E i \in DOMAIN nodes' : nodes'[i].name = fs[k].name
    <3>1. NodeNamed(fs[k].name)
      BY <1>1, <1>7, <2>4, <2>5 DEF UnitGraph
    <3> QED BY <1>4, <2>1, <3>1 DEF NodeNamed, Nodes
  <2>6. UnitGraph'
    BY <1>1, <1>2, <1>4, <2>1, <2>2, <2>3, <2>5 DEF UnitGraph, NodeNamed, Nodes
  <2> QED BY <1>1, <1>5, <2>2, <2>6 DEF LinkInv
<1> QED BY <1>3, <1>6, <1>7

LEMMA CompileCallKeeps ==
  ASSUME LinkInv, CompileCall
  PROVE  LinkInv'
<1> DEFINE fs == Functions(unit)
           f == fs[at]
<1>1. /\ phase = "compile" /\ phase' = "compile" /\ at <= Len(fs) /\ call > 0
      /\ UNCHANGED <<program, exports>> /\ unit' = unit
      /\ BaseInv /\ GraphOfNames /\ UnitGraph /\ program \in Programs
  BY DEF CompileCall, Compiling, LinkInv, BaseInv
<1>2. /\ unit \in DOMAIN program /\ Len(exports) = unit - 1
      /\ DOMAIN fs = 1 .. Len(fs) /\ Len(fs) \in Nat
      /\ at \in DOMAIN fs /\ at \in Nat /\ call \in Nat
      /\ Current = f /\ f.body /\ f.name \in AllNames
  BY <1>1, ProgramShape DEF UnitGraph, Current
<1>3. /\ f.marked \in BOOLEAN /\ DOMAIN f.calls = 1 .. Len(f.calls) /\ Len(f.calls) \in Nat
  BY <1>1, <1>2, FunctionShape
<1>4. /\ AllNames' = AllNames /\ Functions(unit)' = fs
  BY <1>1, ProgramStays DEF Functions
<1>5. BaseInv'
  BY <1>1, BaseStays
<1>6. ASSUME UNCHANGED graphVars,
             \A a, b : Called(unit, at, call, a, b)' <=> Called(unit, at, call, a, b),
             \/ at' = at /\ call' = call + 1
             \/ at' = at + 1 /\ call' = 0
      PROVE  LinkInv'
  <2>1. nodes' = nodes /\ edges' = edges
    BY <1>6 DEF graphVars
  <2>2. GraphOfNames' /\ Nodes' = Nodes /\ \A a, b : EdgeNamed(a, b)' <=> EdgeNamed(a, b)
    BY <1>1, <1>4, <2>1 DEF GraphOfNames, Distinct, NodesOver, Nodes, EdgeNamed
  <2>3. \A k \in DOMAIN fs : k < at' \/ (k = at' /\ call' > 0) => k < at \/ k = at
    BY <1>2, <1>6
  <2>4. ASSUME NEW k \in DOMAIN fs, fs[k].body, k < at' \/ (k = at' /\ call' > 0)
        PROVE  \E i \in DOMAIN nodes' : nodes'[i].name = fs[k].name
    <3>1. NodeNamed(fs[k].name)
      BY <1>1, <2>3, <2>4 DEF UnitGraph
    <3> QED BY <2>1, <3>1 DEF NodeNamed, Nodes
  <2>5. /\ at' \in 1 .. Len(fs) + 1 /\ call' \in Nat
        /\ call' > 0 => at' \in DOMAIN fs /\ fs[at'].body
    BY <1>1, <1>2, <1>6
  <2>6. UnitGraph'
    BY <1>1, <1>2, <1>4, <1>6, <2>1, <2>2, <2>4, <2>5 DEF UnitGraph, NodeNamed, Nodes
  <2> QED BY <1>1, <1>5, <2>2, <2>6 DEF LinkInv
<1>7. CASE call > Len(f.calls)
  <2>1. at' = at + 1 /\ call' = 0 /\ UNCHANGED graphVars
    BY <1>1, <1>2, <1>7 DEF CompileCall
  <2>2. \A a, b : Called(unit, at, call, a, b)' <=> Called(unit, at + 1, 0, a, b)
    BY <1>1, <2>1 DEF Called, Functions
  <2>3. \A a, b : Called(unit, at + 1, 0, a, b) <=> Called(unit, at, call, a, b)
    BY <1>1, <1>2, <1>7, CalledSteps
  <2> QED BY <1>6, <2>1, <2>2, <2>3
<1>8. CASE call <= Len(f.calls)
  <2> DEFINE c == f.calls[call]
  <2>1. at' = at /\ call' = call + 1 /\ call \in DOMAIN f.calls /\ ~(call > Len(f.calls))
    BY <1>1, <1>2, <1>3, <1>8 DEF CompileCall
  <2>2. \A a, b : Called(unit, at, call, a, b)' <=> Called(unit, at, call + 1, a, b)
    BY <1>1, <2>1 DEF Called, Functions
  <2>3. \A a, b : Called(unit, at, call + 1, a, b) <=>
                    \/ Called(unit, at, call, a, b)
                    \/ c.how = "name" /\ a = f.name /\ b = c.to
    <3>1. ASSUME NEW a, NEW b, NEW d \in DOMAIN f.calls
          PROVE  Called(unit, at, d + 1, a, b) <=>
                   \/ Called(unit, at, d, a, b)
                   \/ f.calls[d].how = "name" /\ a = f.name /\ b = f.calls[d].to
      BY <1>1, <1>2, CalledSteps, ZenonT(60)
    <3> QED BY <2>1, <3>1
  <2>4. CASE c.how # "name"
    <3>1. UNCHANGED graphVars
      BY <1>1, <1>2, <2>1, <2>4 DEF CompileCall
    <3> QED BY <1>6, <2>1, <2>2, <2>3, <2>4, <3>1
  <2>5. CASE c.how = "name"
    <3>1. PICK j \in DOMAIN fs : fs[j].name = c.to /\ Fun(unit, c.to) = fs[j]
      BY <1>1, <1>2, <2>1, FunctionShape
    <3> DEFINE g == fs[j]
               ms == WithNode(nodes, f.name, f.marked)
               ns == WithNode(ms, g.name, g.marked)
    <3>2. /\ nodes' = ns
          /\ edges' = WithEdge(edges, PositionIn(ns, f.name), PositionIn(ns, g.name))
      BY <1>1, <1>2, <2>1, <2>5, <3>1 DEF CompileCall, Record
    <3>3. g.marked \in BOOLEAN /\ g.name \in AllNames
      BY <1>1, <1>2, FunctionShape, ProgramShape
    <3>4. nodes \in Seq(NodesOver(AllNames)) /\ Distinct(nodes)
      BY <1>1 DEF GraphOfNames
    <3>5. Has(AllNames, nodes, f.name, f.marked, ms)
      BY <1>2, <1>3, <3>4, WithNodeDoes
    <3>6. Has(AllNames, ms, g.name, g.marked, ns)
      <4>1. ms \in Seq(NodesOver(AllNames)) /\ Distinct(ms)
        BY <3>5 DEF Has
      <4> HIDE DEF ms, g
      <4> QED BY <3>3, <4>1, WithNodeDoes
    <3> HIDE DEF ms, ns
    <3>7. /\ ns \in Seq(NodesOver(AllNames)) /\ Distinct(ns) /\ Grown(nodes, ns)
          /\ \A i \in DOMAIN ns : \/ i \in DOMAIN nodes
                                  \/ ns[i] = [name |-> f.name, marked |-> f.marked]
                                  \/ ns[i] = [name |-> g.name, marked |-> g.marked]
      BY <3>5, <3>6 DEF Has, Grown
    <3>8. PICK x \in DOMAIN ns : ns[x].name = f.name
      BY <3>5, <3>6 DEF Has, Grown
    <3>9. PICK y \in DOMAIN ns : ns[y].name = g.name
      BY <3>6 DEF Has
    <3>10. /\ edges' \in Seq(Nodes' \X Nodes')
           /\ \A a, b : EdgeNamed(a, b)' <=> EdgeNamed(a, b) \/ (a = f.name /\ b = g.name)
      <4>1. edges \in Seq(Nodes \X Nodes) /\ nodes' = ns /\ Distinct(ns) /\ Grown(nodes, ns)
        BY <1>1, <3>2, <3>7 DEF GraphOfNames
      <4>2. edges' = WithEdge(edges, PositionIn(ns, ns[x].name), PositionIn(ns, ns[y].name))
        BY <3>2, <3>8, <3>9
      <4>3. EdgeAdded(ns[x].name, ns[y].name)
        BY <4>1, <4>2, Joined
      <4> QED BY <3>8, <3>9, <4>3 DEF EdgeAdded
    <3>11. GraphOfNames'
      BY <1>4, <3>2, <3>7, <3>10 DEF GraphOfNames, Distinct, NodesOver
    <3>12. ASSUME NEW i \in Nodes'
           PROVE  \E k \in DOMAIN fs : nodes'[i] = [name |-> fs[k].name, marked |-> fs[k].marked]
      <4>1. i \in DOMAIN ns /\ nodes'[i] = ns[i]
        BY <3>2, <3>12 DEF Nodes
      <4>2. CASE i \in DOMAIN nodes
        BY <1>1, <3>7, <4>1, <4>2 DEF UnitGraph, Nodes, Grown
      <4>3. CASE i \notin DOMAIN nodes
        BY <1>2, <3>1, <3>7, <4>1, <4>3
      <4> QED BY <4>2, <4>3
    <3>13. ASSUME NEW k \in DOMAIN fs, fs[k].body, k < at' \/ (k = at' /\ call' > 0)
           PROVE  \E i \in DOMAIN nodes' : nodes'[i].name = fs[k].name
      <4>1. NodeNamed(fs[k].name)
        BY <1>1, <2>1, <3>13 DEF UnitGraph
      <4> QED BY <3>2, <3>7, <4>1 DEF NodeNamed, Nodes, Grown
    <3>14. \A a, b : EdgeNamed(a, b)' <=> Called(unit, at, call, a, b)'
      BY <1>1, <2>2, <2>3, <2>5, <3>1, <3>10 DEF UnitGraph
    <3>15. /\ at' \in 1 .. Len(fs) + 1 /\ call' \in Nat
           /\ call' > 0 => at' \in DOMAIN fs /\ fs[at'].body
      BY <1>1, <1>2, <2>1
    <3>16. UnitGraph'
      BY <1>1, <1>2, <1>4, <3>12, <3>13, <3>14, <3>15 DEF UnitGraph, NodeNamed, Nodes
    <3> QED BY <1>1, <1>5, <3>11, <3>16 DEF LinkInv
  <2> QED BY <2>4, <2>5
<1> QED BY <1>2, <1>3, <1>7, <1>8

\* The walk begins on the graph as it is.
LEMMA BegunRight ==
  ASSUME GraphOfNames, StartWalk
  PROVE  WalkInv'
<1>1. nodes \in Seq(NodesOver(AllNames)) /\ edges \in Seq(Nodes \X Nodes)
  BY DEF GraphOfNames
<1> DEFINE S == {nodes[i] : i \in Nodes}
<1>2. nodes \in Seq(S)
  <2>1. \A i \in DOMAIN nodes : nodes[i] \in S
    BY DEF Nodes
  <2> HIDE DEF S
  <2> QED BY <1>1, <2>1, SequenceInto
<1> QED BY <1>1, <1>2, StartedRight DEF GraphTyped

LEMMA BeginAnalysisKeeps ==
  ASSUME LinkInv, BeginAnalysis
  PROVE  LinkInv'
<1>1. /\ phase = "compile" /\ phase' = "analyze" /\ at > Len(Functions(unit)) /\ StartWalk
      /\ UNCHANGED <<program, unit, at, call, exports, graphVars>> /\ at' = at
      /\ BaseInv /\ GraphOfNames /\ UnitGraph
  BY DEF BeginAnalysis, LinkInv, StartWalk
<1>2. BaseInv' /\ GraphOfNames' /\ UnitGraph' /\ Functions(unit)' = Functions(unit)
  BY <1>1, GraphPartsStay
<1>3. WalkInv'
  BY <1>1, BegunRight
<1> QED BY <1>1, <1>2, <1>3 DEF LinkInv

LEMMA WalkStepKeeps ==
  ASSUME LinkInv, Analyze \/ Enforce
  PROVE  LinkInv'
<1>1. /\ phase \in {"analyze", "enforce"} /\ phase' = phase /\ Walk /\ at' = at
      /\ UNCHANGED <<program, unit, at, call, exports>> /\ BaseInv /\ GraphOfNames /\ WalkInv
  BY DEF Analyze, Enforce, LinkInv, linkVars
<1>2. UNCHANGED <<program, unit, at, call, exports, graphVars>>
  BY <1>1 DEF Walk, VisitRoot, SkipEdge, Descend, SeenEdge, Return
<1>3. BaseInv' /\ GraphOfNames' /\ WalkInv' /\ Functions(unit)' = Functions(unit)
  BY <1>1, <1>2, GraphPartsStay, WalkKeeps
<1>4. CASE phase = "analyze"
  <2>1. UnitGraph' /\ at > Len(Functions(unit))
    BY <1>2, <1>4, GraphPartsStay DEF LinkInv
  <2> QED BY <1>1, <1>3, <1>4, <2>1 DEF LinkInv
<1>5. CASE phase = "enforce"
  <2>1. WholeGraph' /\ AllExported' /\ RegionsChecked'
    BY <1>2, <1>5, GraphPartsStay DEF LinkInv
  <2> QED BY <1>1, <1>3, <1>5, <2>1 DEF LinkInv
<1> QED BY <1>1, <1>4, <1>5

LEMMA SequenceOver ==
  ASSUME NEW s, NEW n \in Nat, DOMAIN s = 1 .. n, NEW S, \A k \in 1 .. n : s[k] \in S,
         s = [k \in 1 .. n |-> s[k]]
  PROVE  s \in Seq(S)
<1>1. s \in [1 .. n -> S]
  OBVIOUS
<1> QED BY <1>1, SeqDef

\* The symbols an object gets tell what its unit calls and marks.
LEMMA EmittedRight ==
  ASSUME program \in Programs, GraphOfNames, UnitGraph, at > Len(Functions(unit)), NEW abi
  PROVE  ExportRight(unit, [graph |-> GraphMarks, abi |-> abi, regions |-> RegionMarks(unit)])
<1> DEFINE fs == Functions(unit)
           m == Len(nodes)
           n == Len(edges)
           s == [k \in 1..m |-> NodeMark(nodes[k])]
           t == [k \in 1..n |-> EdgeMark(edges[k])]
           S == {s[k] : k \in 1 .. m} \cup {t[k] : k \in 1 .. n}
           x == [graph |-> GraphMarks, abi |-> abi, regions |-> RegionMarks(unit)]
<1>1. /\ unit \in DOMAIN program /\ at \in Nat /\ call = 0
      /\ DOMAIN fs = 1 .. Len(fs) /\ Len(fs) \in Nat
  BY ProgramShape DEF UnitGraph
<1>2. /\ m \in Nat /\ DOMAIN nodes = 1 .. m /\ n \in Nat /\ DOMAIN edges = 1 .. n
      /\ \A i \in 1 .. m : nodes[i].name \in AllNames
      /\ \A e \in 1 .. n : edges[e][1] \in 1 .. m /\ edges[e][2] \in 1 .. m
  <2>1. nodes \in Seq(NodesOver(AllNames)) /\ edges \in Seq(Nodes \X Nodes)
    BY DEF GraphOfNames
  <2>2. m \in Nat /\ DOMAIN nodes = 1 .. m /\ n \in Nat /\ DOMAIN edges = 1 .. n
    BY <2>1
  <2>3. \A i \in 1 .. m : nodes[i] \in NodesOver(AllNames)
    BY <2>1, <2>2
  <2>4. \A e \in 1 .. n : edges[e] \in Nodes \X Nodes
    BY <2>1, <2>2
  <2> QED BY <2>2, <2>3, <2>4 DEF NodesOver, Nodes
<1>3. /\ DOMAIN GraphMarks = 1 .. m + n /\ Len(GraphMarks) = m + n /\ m + n \in Nat
      /\ \A k \in 1 .. m : k \in 1 .. m + n /\ GraphMarks[k] = NodeMark(nodes[k])
      /\ \A k \in 1 .. n : m + k \in 1 .. m + n /\ GraphMarks[m + k] = EdgeMark(edges[k])
  <2>1. s \in Seq(S) /\ Len(s) = m
    <3>1. DOMAIN s = 1 .. m /\ \A k \in 1 .. m : s[k] \in S
      OBVIOUS
    <3>2. s = [k \in 1 .. m |-> s[k]]
      OBVIOUS
    <3> HIDE DEF s, S
    <3>3. s \in Seq(S)
      BY <1>2, <3>1, <3>2, SequenceOver
    <3> QED BY <1>2, <3>1, <3>3
  <2>2. t \in Seq(S) /\ Len(t) = n
    <3>1. DOMAIN t = 1 .. n /\ \A k \in 1 .. n : t[k] \in S
      OBVIOUS
    <3>2. t = [k \in 1 .. n |-> t[k]]
      OBVIOUS
    <3> HIDE DEF t, S
    <3>3. t \in Seq(S)
      BY <1>2, <3>1, <3>2, SequenceOver
    <3> QED BY <1>2, <3>1, <3>3
  <2>3. GraphMarks = s \o t
    BY DEF GraphMarks
  <2>4. /\ \A k \in 1 .. m : s[k] = NodeMark(nodes[k])
        /\ \A k \in 1 .. n : t[k] = EdgeMark(edges[k])
    OBVIOUS
  <2> HIDE DEF s, t, S, m, n
  <2>5. /\ Len(s \o t) = m + n
        /\ DOMAIN (s \o t) = 1 .. m + n
        /\ \A k \in 1 .. m + n : (s \o t)[k] = IF k <= m THEN s[k] ELSE t[k - m]
    <3>1. /\ s \o t \in Seq(S) /\ Len(s \o t) = Len(s) + Len(t)
          /\ \A k \in 1 .. Len(s) + Len(t) :
               (s \o t)[k] = IF k <= Len(s) THEN s[k] ELSE t[k - Len(s)]
      BY <2>1, <2>2, ConcatProperties
    <3>2. DOMAIN (s \o t) = 1 .. Len(s \o t)
      BY <3>1, LenProperties
    <3> QED BY <2>1, <2>2, <3>1, <3>2
  <2>6. /\ DOMAIN GraphMarks = 1 .. m + n /\ Len(GraphMarks) = m + n /\ m + n \in Nat
    BY <1>2, <2>3, <2>5
  <2>7. ASSUME NEW k \in 1 .. m
        PROVE  k \in 1 .. m + n /\ GraphMarks[k] = NodeMark(nodes[k])
    <3>1. k \in 1 .. m + n /\ k <= m
      BY <1>2
    <3> QED BY <2>3, <2>4, <2>5, <3>1
  <2>8. ASSUME NEW k \in 1 .. n
        PROVE  m + k \in 1 .. m + n /\ GraphMarks[m + k] = EdgeMark(edges[k])
    <3>1. m + k \in 1 .. m + n /\ ~(m + k <= m) /\ (m + k) - m = k
      BY <1>2
    <3> QED BY <2>3, <2>4, <2>5, <3>1
  <2> QED BY <2>6, <2>7, <2>8
<1>4. ASSUME NEW k \in 1 .. m + n
      PROVE  k \in 1 .. m \/ \E j \in 1 .. n : k = m + j
  <2>1. k \in 1 .. m \/ k - m \in 1 .. n
    BY <1>2
  <2>2. k = m + (k - m)
    BY <1>2
  <2> QED BY <2>1, <2>2
<1>5. ASSUME NEW a, NEW b
      PROVE  EdgeNamed(a, b) <=> <<a, b>> \in NameRelation({unit})
  BY <1>1, CalledByName DEF UnitGraph
<1>6. ASSUME NEW i \in 1 .. m
      PROVE  \E k \in DOMAIN fs : /\ nodes[i].name = fs[k].name /\ nodes[i].marked = fs[k].marked
                                  /\ Fun(unit, nodes[i].name) = fs[k]
  <2>1. PICK k \in DOMAIN fs : nodes[i] = [name |-> fs[k].name, marked |-> fs[k].marked]
    BY <1>2 DEF UnitGraph, Nodes
  <2>2. Fun(unit, fs[k].name) = fs[k]
    BY <1>1, FunctionShape
  <2> QED BY <2>1, <2>2
<1>7. ASSUME NEW i \in 1 .. m
      PROVE  \/ NodeMark(nodes[i]) = NoRecord
             \/ NodeMark(nodes[i]) = <<"F", nodes[i].name>> /\ MarkedBody(unit, nodes[i].name)
  BY <1>6 DEF NodeMark, MarkedBody
<1>8. ASSUME NEW e \in 1 .. n
      PROVE  /\ EdgeMark(edges[e]) = <<"E", nodes[edges[e][1]].name, nodes[edges[e][2]].name>>
             /\ <<nodes[edges[e][1]].name, nodes[edges[e][2]].name>> \in NameRelation({unit})
  <2> DEFINE a == nodes[edges[e][1]].name
             b == nodes[edges[e][2]].name
  <2>1. EdgeNamed(a, b)
    BY <1>2 DEF EdgeNamed
  <2>2. Called(unit, at, call, a, b)
    BY <2>1 DEF UnitGraph
  <2>3. PICK k \in DOMAIN fs : fs[k].body /\ fs[k].name = a
    BY <2>2 DEF Called
  <2>4. Fun(unit, fs[k].name) = fs[k]
    BY <1>1, FunctionShape
  <2>5. Fun(unit, a).body
    BY <2>3, <2>4
  <2>6. EdgeMark(edges[e]) = <<"E", a, b>>
    BY <2>5 DEF EdgeMark
  <2> QED BY <1>5, <2>1, <2>6
<1>9. ASSUME NEW k \in 1 .. m + n
      PROVE  \/ GraphMarks[k] = NoRecord
             \/ \E a \in AllNames : GraphMarks[k] = <<"F", a>> /\ MarkedBody(unit, a)
             \/ \E a, b \in AllNames : /\ GraphMarks[k] = <<"E", a, b>>
                                       /\ <<a, b>> \in NameRelation({unit})
  <2>1. CASE k \in 1 .. m
    BY <1>2, <1>3, <1>7, <2>1
  <2>2. ASSUME NEW j \in 1 .. n, k = m + j
        PROVE  \E a, b \in AllNames : /\ GraphMarks[k] = <<"E", a, b>>
                                      /\ <<a, b>> \in NameRelation({unit})
    BY <1>2, <1>3, <1>8, <2>2, ZenonT(60)
  <2> QED BY <1>4, <2>1, <2>2
<1>10. ASSUME NEW a, MarkedBody(unit, a)
       PROVE  \E k \in 1 .. m + n : GraphMarks[k] = <<"F", a>>
  <2>1. PICK k \in DOMAIN fs : fs[k].body /\ fs[k].marked /\ fs[k].name = a
    BY <1>10 DEF MarkedBody
  <2>2. k < at
    BY <1>1
  <2>3. PICK i \in 1 .. m : nodes[i].name = a
    BY <1>2, <2>1, <2>2 DEF UnitGraph, NodeNamed, Nodes
  <2>4. PICK j \in DOMAIN fs : /\ a = fs[j].name /\ nodes[i].marked = fs[j].marked
                               /\ Fun(unit, a) = fs[j]
    BY <1>6, <2>3
  <2>5. j = k
    BY <1>1, <2>1, <2>4, FunctionShape
  <2>6. NodeMark(nodes[i]) = <<"F", a>>
    BY <2>1, <2>3, <2>4, <2>5 DEF NodeMark
  <2> QED BY <1>3, <2>6
<1>11. ASSUME NEW a, NEW b, <<a, b>> \in NameRelation({unit})
       PROVE  \E k \in 1 .. m + n : GraphMarks[k] = <<"E", a, b>>
  <2>1. PICK e \in 1 .. n : nodes[edges[e][1]].name = a /\ nodes[edges[e][2]].name = b
    BY <1>2, <1>5, <1>11 DEF EdgeNamed
  <2> QED BY <1>3, <1>8, <2>1
<1>12. x.graph = GraphMarks /\ x.regions = RegionMarks(unit)
  OBVIOUS
<1> HIDE DEF x
<1>13. ExportRight(unit, x)
  BY <1>3, <1>9, <1>10, <1>11, <1>12 DEF ExportRight
<1> QED BY <1>13 DEF x

LEMMA ObjectsShape ==
  ASSUME BaseInv
  PROVE  /\ DOMAIN exports = 1 .. Len(exports) /\ Len(exports) \in Nat
         /\ \A u \in DOMAIN exports : /\ u \in Nat \ {0} /\ Len(exports[u].graph) \in Nat
                                      /\ DOMAIN exports[u].graph = 1 .. Len(exports[u].graph)
                                      /\ \A k \in DOMAIN exports[u].graph : k \in Nat \ {0}
<1> DEFINE S == {exports[u] : u \in DOMAIN exports}
<1>1. exports \in Seq(S)
  BY DEF BaseInv
<1>2. DOMAIN exports = 1 .. Len(exports) /\ Len(exports) \in Nat
  <2> HIDE DEF S
  <2> QED BY <1>1
<1>3. ASSUME NEW u \in DOMAIN exports
      PROVE  /\ u \in Nat \ {0} /\ Len(exports[u].graph) \in Nat
             /\ DOMAIN exports[u].graph = 1 .. Len(exports[u].graph)
             /\ \A k \in DOMAIN exports[u].graph : k \in Nat \ {0}
  <2>1. /\ DOMAIN exports[u].graph = 1 .. Len(exports[u].graph)
        /\ Len(exports[u].graph) \in Nat
    BY DEF BaseInv, ExportRight
  <2> QED BY <1>2, <2>1
<1> QED BY <1>2, <1>3

\* A refusal that says nothing of the graph.
LEMMA RefusalKeeps ==
  ASSUME LinkInv, UNCHANGED <<program, unit, at, call, exports, graphVars, walkVars>>,
         phase' \in {"bad region", "abi refused", "region refused"}
  PROVE  LinkInv'
<1>1. BaseInv /\ GraphOfNames
  BY DEF LinkInv
<1>2. BaseInv' /\ GraphOfNames'
  BY <1>1, GraphPartsStay
<1> QED BY <1>2 DEF LinkInv

\* A new object takes its place among the exports.
LEMMA ExportKeeps ==
  ASSUME BaseInv, program' = program, unit \in DOMAIN program, Len(exports) = unit - 1,
         NEW x, ExportRight(unit, x), exports' = Append(exports, x)
  PROVE  BaseInv' /\ Len(exports') = unit
<1> DEFINE n == Len(exports)
           S == {exports[u] : u \in DOMAIN exports}
           T == {exports'[u] : u \in DOMAIN exports'}
<1>1. /\ program \in Programs /\ exports \in Seq(S)
      /\ \A u \in DOMAIN exports : ExportRight(u, exports[u])
  BY DEF BaseInv
<1>2. DOMAIN exports = 1 .. n /\ n \in Nat /\ n + 1 = unit /\ unit <= Len(program)
  <2> HIDE DEF S
  <2>1. DOMAIN exports = 1 .. n /\ n \in Nat
    BY <1>1
  <2> QED BY <1>1, <2>1, ProgramShape
<1>3. /\ DOMAIN exports' = 1 .. n + 1 /\ Len(exports') = n + 1 /\ exports'[n + 1] = x
      /\ \A u \in 1 .. n : exports'[u] = exports[u]
  <2>1. exports \in Seq(S \cup {x}) /\ x \in S \cup {x}
    <3> HIDE DEF S
    <3> QED BY <1>1
  <2> HIDE DEF S
  <2> QED BY <1>2, <2>1
<1>4. exports' \in Seq(T)
  <2>1. exports \in Seq(S \cup {x}) /\ x \in S \cup {x}
    <3> HIDE DEF S
    <3> QED BY <1>1
  <2>2. \A u \in DOMAIN exports' : exports'[u] \in T
    OBVIOUS
  <2> HIDE DEF S, T
  <2>3. exports' \in Seq(S \cup {x})
    BY <2>1
  <2> QED BY <2>2, <2>3, SequenceInto
<1>5. ASSUME NEW u \in DOMAIN exports', NEW y, y = exports'[u]
      PROVE  ExportRight(u, y)'
  <2>1. CASE u \in 1 .. n
    BY <1>1, <1>2, <1>3, <1>5, <2>1, ExportsStayRight
  <2>2. CASE u = n + 1
    BY <1>2, <1>3, <1>5, <2>2, ExportsStayRight
  <2> QED BY <1>2, <1>3, <2>1, <2>2
<1>6. \A u \in DOMAIN exports' : ExportRight(u, exports[u])'
  BY <1>5
<1> HIDE DEF S, T
<1> QED BY <1>1, <1>2, <1>3, <1>4, <1>6 DEF BaseInv, T

\* No function and no call is known.
LEMMA EmptyGraph ==
  ASSUME nodes' = <<>>, edges' = <<>>
  PROVE  GraphOfNames' /\ Nodes' = {} /\ \A a, b : ~EdgeNamed(a, b)'
<1>1. nodes' \in Seq(NodesOver(AllNames)') /\ edges' \in Seq(Nodes' \X Nodes')
  OBVIOUS
<1>2. DOMAIN nodes' = {} /\ DOMAIN edges' = {}
  OBVIOUS
<1> QED BY <1>1, <1>2 DEF GraphOfNames, NodesOver, Distinct, Nodes, EdgeNamed

LEMMA EmitUnitKeeps ==
  ASSUME LinkInv, EmitUnit
  PROVE  LinkInv'
<1>1. /\ phase = "analyze" /\ Walked /\ BaseInv /\ GraphOfNames /\ UnitGraph /\ WalkInv
      /\ at > Len(Functions(unit)) /\ program \in Programs /\ program' = program
  BY DEF EmitUnit, LinkInv, BaseInv, Refuse
<1>2. CASE ~RegionsFit(unit)
  BY <1>2, RefusalKeeps DEF EmitUnit, Refuse
<1>3. CASE RegionsFit(unit) /\ Refused
  <2>1. UNCHANGED <<program, unit, at, call, exports, graphVars, walkVars>> /\ at' = at
        /\ phase' = "unit refused"
    BY <1>3 DEF EmitUnit, Refuse
  <2>2. BaseInv' /\ GraphOfNames' /\ UnitGraph' /\ Functions(unit)' = Functions(unit)
    BY <1>1, <2>1, GraphPartsStay
  <2>3. WalkInv' /\ Walked' /\ Refused'
    BY <1>1, <1>3, <2>1, WalkStays, OnlyPhase
  <2> QED BY <1>1, <2>1, <2>2, <2>3 DEF LinkInv
<1>4. CASE RegionsFit(unit) /\ ~Refused
  <2> DEFINE x == [graph |-> GraphMarks, abi |-> AbiMarks(unit), regions |-> RegionMarks(unit)]
  <2>1. /\ exports' = Append(exports, x) /\ unit' = unit + 1 /\ at' = 1 /\ call' = 0
        /\ phase' = IF unit = Len(program) THEN "abi" ELSE "compile"
        /\ nodes' = <<>> /\ edges' = <<>>
    BY <1>4 DEF EmitUnit
  <2>2. ExportRight(unit, x)
    BY <1>1, EmittedRight
  <2> HIDE DEF x
  <2>3. unit \in DOMAIN program /\ Len(exports) = unit - 1
        /\ unit \in 1 .. Len(program) /\ Len(program) \in Nat
    BY <1>1, ProgramShape DEF UnitGraph
  <2>4. BaseInv' /\ Len(exports') = unit
    BY <1>1, <2>1, <2>2, <2>3, ExportKeeps
  <2>5. GraphOfNames' /\ Nodes' = {} /\ \A a, b : ~EdgeNamed(a, b)'
    BY <2>1, EmptyGraph
  <2>6. CASE unit = Len(program)
    BY <1>1, <2>1, <2>4, <2>5, <2>6 DEF LinkInv, AllExported
  <2>7. CASE unit # Len(program)
    <3>1. unit + 1 \in DOMAIN program
      BY <1>1, <2>3, <2>7, ProgramShape
    <3>2. /\ Functions(unit)' = Functions(unit + 1)
          /\ DOMAIN Functions(unit + 1) = 1 .. Len(Functions(unit + 1))
          /\ Len(Functions(unit + 1)) \in Nat
      BY <1>1, <2>1, <3>1, ProgramShape DEF Functions
    <3>3. ASSUME NEW a, NEW b
          PROVE  ~Called(unit, at, call, a, b)'
      <4>1. \A k \in DOMAIN Functions(unit + 1) :
              /\ DOMAIN Functions(unit + 1)[k].calls = 1 .. Len(Functions(unit + 1)[k].calls)
              /\ ~(k < 1)
        BY <1>1, <3>1, <3>2, FunctionShape
      <4>2. \A k \in DOMAIN Functions(unit + 1) : \A j \in DOMAIN Functions(unit + 1)[k].calls :
              ~(j < 0)
        BY <4>1
      <4>3. ~Called(unit + 1, 1, 0, a, b)
        BY <4>1, <4>2 DEF Called
      <4>4. Called(unit, at, call, a, b)' <=> Called(unit + 1, 1, 0, a, b)
        BY <1>1, <2>1 DEF Called, Functions
      <4> QED BY <4>3, <4>4
    <3>4. \A k \in DOMAIN Functions(unit + 1) : ~(k < 1)
      BY <3>2
    <3>5. UnitGraph'
      <4>1. unit' \in DOMAIN program' /\ Len(exports') = unit' - 1
        BY <1>1, <2>1, <2>3, <2>4, <3>1
      <4>2. at' \in 1 .. Len(Functions(unit + 1)) + 1 /\ call' \in Nat /\ ~(call' > 0)
        BY <2>1, <3>2
      <4>3. \A k \in DOMAIN Functions(unit + 1) : ~(k < at' \/ (k = at' /\ call' > 0))
        BY <2>1, <3>4
      <4> QED BY <2>5, <3>2, <3>3, <4>1, <4>2, <4>3 DEF UnitGraph
    <3> QED BY <2>1, <2>4, <2>5, <2>7, <3>5 DEF LinkInv
  <2> QED BY <2>6, <2>7
<1> QED BY <1>2, <1>3, <1>4

LEMMA ValidateAbiKeeps ==
  ASSUME LinkInv, ValidateAbi
  PROVE  LinkInv'
<1>1. CASE phase' = "abi refused"
  BY <1>1, RefusalKeeps DEF ValidateAbi, Refuse
<1>2. CASE phase' # "abi refused"
  <2>1. /\ UNCHANGED <<program, unit, at, call, exports, graphVars, walkVars>>
        /\ phase = "abi" /\ phase' = "regions" /\ at' = at
    BY <1>2 DEF ValidateAbi, Refuse
  <2>2. BaseInv /\ GraphOfNames /\ AllExported /\ at = 1 /\ nodes = <<>> /\ edges = <<>>
    BY <2>1 DEF LinkInv
  <2>3. BaseInv' /\ GraphOfNames' /\ AllExported' /\ nodes' = <<>> /\ edges' = <<>>
    BY <2>1, <2>2, GraphPartsStay DEF graphVars
  <2> QED BY <2>1, <2>2, <2>3 DEF LinkInv
<1> QED BY <1>1, <1>2

LEMMA ValidateRegionsKeeps ==
  ASSUME LinkInv, ValidateRegions
  PROVE  LinkInv'
<1>1. CASE phase' = "region refused"
  BY <1>1, RefusalKeeps DEF ValidateRegions, Refuse
<1>2. CASE phase' # "region refused"
  <2>1. /\ UNCHANGED <<program, at, call, exports, graphVars, walkVars>> /\ exports' = exports
        /\ phase = "regions" /\ phase' = "collect" /\ at' = at /\ unit' = 1
        /\ \A x \in RegionRecords : RegionAgrees(x)
    BY <1>2 DEF ValidateRegions, Refuse
  <2>2. BaseInv /\ GraphOfNames /\ AllExported /\ at = 1 /\ nodes = <<>> /\ edges = <<>>
    BY <2>1 DEF LinkInv
  <2>3. BaseInv' /\ AllExported' /\ nodes' = <<>> /\ edges' = <<>>
    BY <2>1, <2>2, BaseStays DEF graphVars, AllExported
  <2>4. RegionsChecked'
    BY <2>1 DEF RegionsChecked, RegionRecords, RegionAgrees
  <2>5. GraphOfNames' /\ Nodes' = {} /\ \A a, b : ~EdgeNamed(a, b)'
    BY <2>3, EmptyGraph
  <2>6. Len(exports) \in Nat /\ \A k \in DOMAIN exports :
          k \in Nat \ {0} /\ \A j \in DOMAIN exports[k].graph : j \in Nat \ {0}
    BY <2>2, ObjectsShape
  <2>7. ASSUME NEW u, NEW k
        PROVE  ~Passed(u, k)'
    <3>1. Passed(u, k)' => Passed(u, k)' /\ u \in DOMAIN exports /\ k \in DOMAIN exports[u].graph
                           /\ (u < 1 \/ (u = 1 /\ k < 1))
      BY <2>1, <2>2 DEF Passed
    <3> QED BY <2>6, <3>1
  <2>8. ReadGraph'
    BY <2>1, <2>2, <2>5, <2>6, <2>7 DEF ReadGraph, NodeMarked
  <2> QED BY <2>1, <2>3, <2>4, <2>5, <2>8 DEF LinkInv
<1> QED BY <1>1, <1>2

\* A symbol of an object is read: what the graph knows then.
Known(u, k, x) == Passed(u, k) /\ exports[u].graph[k] = x
Learns(x) ==
  /\ \A a, b : EdgeNamed(a, b)' <=> EdgeNamed(a, b) \/ x = <<"E", a, b>>
  /\ \A a : NodeMarked(a)' <=> NodeMarked(a) \/ x = <<"F", a>>
LEMMA ReadOn ==
  ASSUME BaseInv, ReadGraph, exports' = exports, unit' = unit, at' = at + 1,
         unit \in DOMAIN exports, at \in DOMAIN exports[unit].graph,
         Learns(exports[unit].graph[at])
  PROVE  ReadGraph'
<1>1. /\ Len(exports) \in Nat /\ unit \in Nat /\ at \in Nat /\ unit \in 1 .. Len(exports) + 1
      /\ \A u \in DOMAIN exports : /\ u \in Nat
                                   /\ \A k \in DOMAIN exports[u].graph : k \in Nat
  BY ObjectsShape DEF ReadGraph
<1>2. ASSUME NEW u, NEW k
      PROVE  Passed(u, k)' <=> Passed(u, k) \/ (u = unit /\ k = at)
  <2>1. Passed(u, k)' <=> /\ u \in DOMAIN exports /\ k \in DOMAIN exports[u].graph
                          /\ u < unit \/ (u = unit /\ k < at + 1)
    BY DEF Passed
  <2>2. CASE u \in DOMAIN exports /\ k \in DOMAIN exports[u].graph
    <3>1. k < at + 1 <=> k < at \/ k = at
      BY <1>1, <2>2
    <3> QED BY <2>1, <2>2, <3>1 DEF Passed
  <2>3. CASE ~(u \in DOMAIN exports /\ k \in DOMAIN exports[u].graph)
    BY <2>1, <2>3 DEF Passed
  <2> QED BY <2>2, <2>3
<1>3. ASSUME NEW x
      PROVE  (\E u, k : Passed(u, k)' /\ exports'[u].graph[k] = x) <=>
               (\E u, k : Passed(u, k) /\ exports[u].graph[k] = x) \/ exports[unit].graph[at] = x
  BY <1>2
<1>4. at' \in Nat \ {0} /\ unit' \in 1 .. Len(exports') + 1
  BY <1>1
<1> QED BY <1>3, <1>4 DEF ReadGraph, Learns

LEMMA TakeRecordKeeps ==
  ASSUME GraphOfNames, program' = program, NEW x, TakeRecord(x),
         \/ x = NoRecord
         \/ \E a \in AllNames : x = <<"F", a>>
         \/ \E a, b \in AllNames : x = <<"E", a, b>>
  PROVE  GraphOfNames' /\ Learns(x)
<1>1. /\ AllNames' = AllNames /\ nodes \in Seq(NodesOver(AllNames)) /\ Distinct(nodes)
      /\ edges \in Seq(Nodes \X Nodes)
  BY ProgramStays DEF GraphOfNames
<1>2. CASE x = NoRecord
  <2>1. x[1] = "other" /\ \A a, b : x # <<"E", a, b>> /\ x # <<"F", a>>
    BY <1>2 DEF NoRecord
  <2>2. nodes' = nodes /\ edges' = edges
    BY <2>1 DEF TakeRecord, graphVars
  <2> QED BY <1>1, <2>1, <2>2
       DEF GraphOfNames, Learns, Distinct, NodesOver, Nodes, EdgeNamed, NodeMarked
<1>3. ASSUME NEW a \in AllNames, x = <<"F", a>>
      PROVE  GraphOfNames' /\ Learns(x)
  <2> DEFINE ns == WithNode(nodes, a, FALSE)
  <2>1. nodes' = [ns EXCEPT ![PositionIn(ns, a)].marked = TRUE] /\ edges' = edges
    BY <1>3 DEF TakeRecord
  <2>2. Has(AllNames, nodes, a, FALSE, ns)
    BY <1>1, WithNodeDoes
  <2> HIDE DEF ns
  <2>3. /\ ns \in Seq(NodesOver(AllNames)) /\ Distinct(ns) /\ Grown(nodes, ns)
        /\ \A i \in DOMAIN ns : i \in DOMAIN nodes \/ ns[i] = [name |-> a, marked |-> FALSE]
    BY <2>2 DEF Has
  <2>4. PICK i \in DOMAIN ns : ns[i].name = a
    BY <2>2 DEF Has
  <2>5. PositionIn(ns, a) = i
    BY <2>3, <2>4, PositionOf
  <2>6. nodes' = [ns EXCEPT ![i] = [ns[i] EXCEPT !.marked = TRUE]]
    BY <2>1, <2>5
  <2>7. \A j \in DOMAIN ns : ns[j] \in NodesOver(AllNames)
    BY <2>3
  <2>8. /\ DOMAIN nodes' = DOMAIN ns /\ \A j \in DOMAIN ns : j # i => nodes'[j] = ns[j]
        /\ nodes'[i] = [name |-> a, marked |-> TRUE]
    BY <2>4, <2>6, <2>7 DEF NodesOver
  <2>9. \A j \in DOMAIN ns : /\ nodes'[j].name = ns[j].name /\ nodes'[j] \in NodesOver(AllNames)
                             /\ j # i => nodes'[j].marked = ns[j].marked
    <3>1. nodes'[i].name = ns[i].name /\ nodes'[i] \in NodesOver(AllNames)
      BY <2>4, <2>8 DEF NodesOver
    <3>2. ASSUME NEW j \in DOMAIN ns, j # i
          PROVE  nodes'[j] = ns[j] /\ nodes'[j] \in NodesOver(AllNames)
      BY <2>7, <2>8, <3>2
    <3> QED BY <3>1, <3>2
  <2>10. nodes' \in Seq(NodesOver(AllNames)) /\ Distinct(nodes')
    <3>1. ns \in [1 .. Len(ns) -> NodesOver(AllNames)] /\ Len(ns) \in Nat
      BY <2>3, ElementOfSeq
    <3>2. nodes' \in [1 .. Len(ns) -> NodesOver(AllNames)]
      <4>1. DOMAIN ns = 1 .. Len(ns)
        BY <3>1
      <4>2. [ns[i] EXCEPT !.marked = TRUE] \in NodesOver(AllNames)
        BY <2>7 DEF NodesOver
      <4> QED BY <2>6, <3>1, <4>1, <4>2
    <3>3. nodes' \in Seq(NodesOver(AllNames))
      BY <3>1, <3>2, SeqDef
    <3> QED BY <2>3, <2>8, <2>9, <3>3 DEF Distinct
  <2>11. /\ edges' \in Seq(Nodes' \X Nodes')
         /\ \A b, c : EdgeNamed(b, c)' <=> EdgeNamed(b, c)
    <3>1. /\ DOMAIN nodes \subseteq DOMAIN nodes'
          /\ \A j \in DOMAIN nodes : nodes'[j].name = nodes[j].name
      BY <2>3, <2>8, <2>9 DEF Grown
    <3> QED BY <1>1, <2>1, <3>1, NamesStay
  <2>12. ASSUME NEW b
         PROVE  NodeMarked(b)' <=> NodeMarked(b) \/ b = a
    <3>1. ASSUME NEW j \in DOMAIN ns, nodes'[j].name = b, nodes'[j].marked
          PROVE  NodeMarked(b) \/ b = a
      <4>1. CASE j = i
        BY <2>8, <3>1, <4>1
      <4>2. CASE j # i
        <5>1. ns[j].marked /\ ns[j].name = b
          BY <2>9, <3>1, <4>2
        <5>2. j \in DOMAIN nodes /\ ns[j] = nodes[j]
          BY <2>3, <5>1 DEF Grown
        <5> QED BY <5>1, <5>2 DEF NodeMarked, Nodes
      <4> QED BY <4>1, <4>2
    <3>2. ASSUME NEW j \in DOMAIN nodes, nodes[j].name = b, nodes[j].marked
          PROVE  NodeMarked(b)'
      <4>1. j \in DOMAIN ns /\ ns[j] = nodes[j]
        BY <2>3 DEF Grown
      <4>2. nodes'[j].name = b /\ nodes'[j].marked
        BY <2>4, <2>8, <3>2, <4>1
      <4> QED BY <2>8, <4>1, <4>2 DEF NodeMarked, Nodes
    <3>3. b = a => NodeMarked(b)'
      BY <2>8 DEF NodeMarked, Nodes
    <3> QED BY <2>8, <3>1, <3>2, <3>3 DEF NodeMarked, Nodes
  <2>13. \A b, c : x # <<"E", b, c>> /\ (x = <<"F", b>> <=> b = a)
    BY <1>3
  <2>14. Learns(x)
    BY <2>11, <2>12, <2>13 DEF Learns
  <2>15. GraphOfNames'
    BY <1>1, <2>10, <2>11 DEF GraphOfNames, Distinct, NodesOver
  <2> QED BY <2>14, <2>15
<1>4. ASSUME NEW a \in AllNames, NEW b \in AllNames, x = <<"E", a, b>>
      PROVE  GraphOfNames' /\ Learns(x)
  <2> DEFINE ms == WithNode(nodes, a, FALSE)
             ns == WithNode(ms, b, FALSE)
  <2>1. nodes' = ns /\ edges' = WithEdge(edges, PositionIn(ns, a), PositionIn(ns, b))
    BY <1>4 DEF TakeRecord
  <2>2. Has(AllNames, nodes, a, FALSE, ms)
    BY <1>1, WithNodeDoes
  <2>3. Has(AllNames, ms, b, FALSE, ns)
    <3>1. ms \in Seq(NodesOver(AllNames)) /\ Distinct(ms)
      BY <2>2 DEF Has
    <3> HIDE DEF ms
    <3> QED BY <3>1, WithNodeDoes
  <2> HIDE DEF ms, ns
  <2>4. /\ ns \in Seq(NodesOver(AllNames)) /\ Distinct(ns) /\ Grown(nodes, ns)
        /\ \A i \in DOMAIN ns : \/ i \in DOMAIN nodes
                                \/ ns[i] = [name |-> a, marked |-> FALSE]
                                \/ ns[i] = [name |-> b, marked |-> FALSE]
    BY <2>2, <2>3 DEF Has, Grown
  <2>5. PICK i \in DOMAIN ns : ns[i].name = a
    BY <2>2, <2>3 DEF Has, Grown
  <2>6. PICK j \in DOMAIN ns : ns[j].name = b
    BY <2>3 DEF Has
  <2>7. EdgeAdded(a, b)
    <3>1. edges' = WithEdge(edges, PositionIn(ns, ns[i].name), PositionIn(ns, ns[j].name))
      BY <2>1, <2>5, <2>6
    <3>2. EdgeAdded(ns[i].name, ns[j].name)
      BY <1>1, <2>1, <2>4, <3>1, Joined
    <3> QED BY <2>5, <2>6, <3>2
  <2>8. ASSUME NEW c
        PROVE  NodeMarked(c)' <=> NodeMarked(c)
    BY <2>1, <2>4 DEF NodeMarked, Nodes, Grown
  <2>9. \A c, d : x # <<"F", c>> /\ (x = <<"E", c, d>> <=> c = a /\ d = b)
    BY <1>4
  <2>10. Learns(x)
    BY <2>7, <2>8, <2>9 DEF Learns, EdgeAdded
  <2>11. GraphOfNames'
    BY <1>1, <2>1, <2>4, <2>7 DEF GraphOfNames, Distinct, NodesOver, EdgeAdded
  <2> QED BY <2>10, <2>11
<1> QED BY <1>2, <1>3, <1>4

LEMMA CollectKeeps ==
  ASSUME LinkInv, Collect
  PROVE  LinkInv'
<1>1. /\ phase = "collect" /\ phase' = "collect" /\ unit <= Len(exports)
      /\ UNCHANGED <<program, exports>> /\ exports' = exports /\ program' = program
      /\ BaseInv /\ GraphOfNames /\ ReadGraph /\ AllExported /\ RegionsChecked
  BY DEF Collect, LinkInv
<1>2. /\ unit \in DOMAIN exports /\ unit \in Nat /\ at \in Nat \ {0}
      /\ Len(exports[unit].graph) \in Nat
      /\ DOMAIN exports[unit].graph = 1 .. Len(exports[unit].graph)
      /\ Len(exports) \in Nat
  BY <1>1, ObjectsShape DEF ReadGraph
<1>3. BaseInv' /\ AllExported' /\ RegionsChecked'
  BY <1>1, BaseStays DEF AllExported, RegionsChecked, RegionRecords, RegionAgrees
<1>4. CASE at > Len(exports[unit].graph)
  <2>1. unit' = unit + 1 /\ at' = 1 /\ nodes' = nodes /\ edges' = edges
    BY <1>4 DEF Collect, graphVars
  <2>2. GraphOfNames' /\ (\A a, b : EdgeNamed(a, b)' <=> EdgeNamed(a, b))
        /\ (\A a : NodeMarked(a)' <=> NodeMarked(a))
    BY <1>1, <2>1, ProgramStays
       DEF GraphOfNames, Distinct, NodesOver, Nodes, EdgeNamed, NodeMarked
  <2>3. ASSUME NEW u, NEW k
        PROVE  Passed(u, k)' <=> Passed(u, k)
    <3>1. Passed(u, k)' <=> /\ u \in DOMAIN exports /\ k \in DOMAIN exports[u].graph
                            /\ u < unit + 1 \/ (u = unit + 1 /\ k < 1)
      BY <1>1, <2>1 DEF Passed
    <3>2. CASE u \in DOMAIN exports /\ k \in DOMAIN exports[u].graph
      <4>1. u \in Nat /\ k \in Nat \ {0}
        BY <1>1, <3>2, ObjectsShape
      <4>2. u < unit + 1 <=> u < unit \/ u = unit
        BY <1>2, <4>1
      <4>3. u = unit => k < at
        BY <1>2, <1>4, <3>2
      <4> QED BY <3>1, <3>2, <4>1, <4>2, <4>3 DEF Passed
    <3>3. CASE ~(u \in DOMAIN exports /\ k \in DOMAIN exports[u].graph)
      BY <3>1, <3>3 DEF Passed
    <3> QED BY <3>2, <3>3
  <2>4. \A x : (\E u, k : Passed(u, k)' /\ exports'[u].graph[k] = x)
              <=> \E u, k : Passed(u, k) /\ exports[u].graph[k] = x
    BY <1>1, <2>3
  <2>5. unit' \in 1 .. Len(exports') + 1 /\ at' \in Nat \ {0}
    BY <1>1, <1>2, <2>1
  <2>6. ReadGraph'
    BY <1>1, <2>2, <2>4, <2>5 DEF ReadGraph
  <2> QED BY <1>1, <1>3, <2>2, <2>6 DEF LinkInv
<1>5. CASE at <= Len(exports[unit].graph)
  <2> DEFINE x == exports[unit].graph[at]
  <2>1. /\ unit' = unit /\ at' = at + 1 /\ TakeRecord(x) /\ at \in DOMAIN exports[unit].graph
    BY <1>2, <1>5 DEF Collect
  <2>2. \/ x = NoRecord
        \/ \E a \in AllNames : x = <<"F", a>>
        \/ \E a, b \in AllNames : x = <<"E", a, b>>
    BY <1>1, <1>2, <2>1 DEF BaseInv, ExportRight
  <2> HIDE DEF x
  <2>3. GraphOfNames' /\ Learns(x)
    BY <1>1, <2>1, <2>2, TakeRecordKeeps
  <2>4. ReadGraph'
    BY <1>1, <1>2, <2>1, <2>3, ReadOn DEF x
  <2> QED BY <1>1, <1>3, <2>3, <2>4 DEF LinkInv
<1> QED BY <1>2, <1>4, <1>5

\* All objects are read: the graph is that of the program.
LEMMA BeginEnforcementKeeps ==
  ASSUME LinkInv, BeginEnforcement
  PROVE  LinkInv'
<1>1. /\ phase = "collect" /\ phase' = "enforce" /\ unit > Len(exports) /\ StartWalk
      /\ UNCHANGED <<program, unit, at, call, exports, graphVars>>
      /\ BaseInv /\ GraphOfNames /\ ReadGraph /\ AllExported /\ RegionsChecked
  BY DEF BeginEnforcement, LinkInv, StartWalk
<1>2. /\ program \in Programs /\ DOMAIN exports = DOMAIN program
      /\ \A u \in DOMAIN exports : u < unit /\ ExportRight(u, exports[u])
  <2>1. program \in Programs
    BY <1>1 DEF BaseInv
  <2>2. DOMAIN exports = 1 .. Len(exports) /\ Len(exports) \in Nat
    BY <1>1, ObjectsShape
  <2>3. DOMAIN program = 1 .. Len(program)
    BY <2>1, ProgramShape
  <2>4. \A u \in DOMAIN exports : u < unit
    BY <1>1, <2>2 DEF ReadGraph
  <2> QED BY <1>1, <2>1, <2>2, <2>3, <2>4 DEF AllExported, BaseInv
<1>3. ASSUME NEW u, NEW k
      PROVE  Passed(u, k) <=> u \in DOMAIN exports /\ k \in DOMAIN exports[u].graph
  BY <1>2 DEF Passed
<1>4. ASSUME NEW a, NEW b
      PROVE  EdgeNamed(a, b) <=> <<a, b>> \in NameRelation(DOMAIN program)
  <2>1. EdgeNamed(a, b) <=> \E u \in DOMAIN exports : \E k \in DOMAIN exports[u].graph :
                              exports[u].graph[k] = <<"E", a, b>>
    BY <1>1, <1>3 DEF ReadGraph
  <2>2. ASSUME NEW u \in DOMAIN exports
        PROVE  (\E k \in DOMAIN exports[u].graph : exports[u].graph[k] = <<"E", a, b>>)
                 <=> <<a, b>> \in NameRelation({u})
    <3>1. ExportRight(u, exports[u])
      BY <1>2
    <3>2. <<"E", a, b>> # NoRecord /\ \A c : <<"E", a, b>> # <<"F", c>>
      BY DEF NoRecord
    <3>3. \A c, d : <<"E", a, b>> = <<"E", c, d>> => a = c /\ b = d
      OBVIOUS
    <3>4. ASSUME NEW k \in DOMAIN exports[u].graph, exports[u].graph[k] = <<"E", a, b>>
          PROVE  <<a, b>> \in NameRelation({u})
      <4>1. \/ exports[u].graph[k] = NoRecord
            \/ \E c \in AllNames : exports[u].graph[k] = <<"F", c>> /\ MarkedBody(u, c)
            \/ \E c, d \in AllNames : /\ exports[u].graph[k] = <<"E", c, d>>
                                      /\ <<c, d>> \in NameRelation({u})
        BY <3>1 DEF ExportRight
      <4>2. PICK c \in AllNames, d \in AllNames : /\ exports[u].graph[k] = <<"E", c, d>>
                                                  /\ <<c, d>> \in NameRelation({u})
        BY <3>2, <3>4, <4>1
      <4> QED BY <3>3, <3>4, <4>2
    <3> QED BY <3>1, <3>4 DEF ExportRight
  <2>3. <<a, b>> \in NameRelation(DOMAIN program)
          <=> \E u \in DOMAIN program : <<a, b>> \in NameRelation({u})
    BY DEF NameRelation
  <2> QED BY <1>2, <2>1, <2>2, <2>3
<1>5. ASSUME NEW a
      PROVE  NodeMarked(a) <=> \E u \in DOMAIN program : MarkedBody(u, a)
  <2>1. NodeMarked(a) <=> \E u \in DOMAIN exports : \E k \in DOMAIN exports[u].graph :
                            exports[u].graph[k] = <<"F", a>>
    BY <1>1, <1>3 DEF ReadGraph
  <2>2. ASSUME NEW u \in DOMAIN exports
        PROVE  (\E k \in DOMAIN exports[u].graph : exports[u].graph[k] = <<"F", a>>)
                 <=> MarkedBody(u, a)
    <3>1. ExportRight(u, exports[u])
      BY <1>2
    <3>2. <<"F", a>> # NoRecord /\ \A c, d : <<"F", a>> # <<"E", c, d>>
      BY DEF NoRecord
    <3>3. \A c : <<"F", a>> = <<"F", c>> => a = c
      OBVIOUS
    <3>4. ASSUME NEW k \in DOMAIN exports[u].graph, exports[u].graph[k] = <<"F", a>>
          PROVE  MarkedBody(u, a)
      <4>1. \/ exports[u].graph[k] = NoRecord
            \/ \E c \in AllNames : exports[u].graph[k] = <<"F", c>> /\ MarkedBody(u, c)
            \/ \E c, d \in AllNames : /\ exports[u].graph[k] = <<"E", c, d>>
                                      /\ <<c, d>> \in NameRelation({u})
        BY <3>1 DEF ExportRight
      <4> QED BY <3>2, <3>3, <3>4, <4>1
    <3> QED BY <3>1, <3>4 DEF ExportRight
  <2> QED BY <1>2, <2>1, <2>2
<1>6. WholeGraph
  BY <1>4, <1>5 DEF WholeGraph
<1>7. BaseInv' /\ GraphOfNames' /\ WholeGraph' /\ AllExported' /\ RegionsChecked'
  BY <1>1, <1>6, GraphPartsStay
<1>8. WalkInv'
  BY <1>1, BegunRight
<1> QED BY <1>1, <1>7, <1>8 DEF LinkInv

LEMMA JudgeKeeps ==
  ASSUME LinkInv, Judge
  PROVE  LinkInv'
<1>1. /\ phase = "enforce" /\ Walked /\ phase' = IF Refused THEN "link refused" ELSE "linked"
      /\ UNCHANGED <<program, unit, at, call, exports, graphVars, walkVars>>
      /\ BaseInv /\ GraphOfNames /\ WholeGraph /\ AllExported /\ RegionsChecked /\ WalkInv
  BY DEF Judge, Refuse, LinkInv
<1>2. /\ BaseInv' /\ GraphOfNames' /\ WholeGraph' /\ AllExported' /\ RegionsChecked' /\ WalkInv'
      /\ Walked' /\ (Refused' <=> Refused)
  BY <1>1, GraphPartsStay, WalkStays, OnlyPhase
<1>3. phase' \in {"linked", "link refused"} /\ (phase' = "link refused" <=> Refused')
  BY <1>1, <1>2
<1> QED BY <1>2, <1>3 DEF LinkInv

LEMMA NothingKeeps ==
  ASSUME LinkInv, UNCHANGED vars
  PROVE  LinkInv'
<1>1. /\ phase' = phase /\ at' = at
      /\ UNCHANGED <<program, unit, at, call, exports, graphVars, walkVars>>
  BY DEF vars, linkVars
<1>2. /\ BaseInv => BaseInv'
      /\ GraphOfNames => GraphOfNames'
      /\ UnitGraph => UnitGraph'
      /\ ReadGraph => ReadGraph'
      /\ WholeGraph => WholeGraph'
      /\ AllExported => AllExported'
      /\ RegionsChecked => RegionsChecked'
      /\ Functions(unit)' = Functions(unit)
  BY <1>1, GraphPartsStay
<1>3. WalkInv => WalkInv'
  BY <1>1, WalkStays
<1>4. (Walked' <=> Walked) /\ (Refused' <=> Refused)
  BY <1>1, OnlyPhase
<1>5. nodes' = nodes /\ edges' = edges
  BY <1>1 DEF graphVars
<1> QED BY <1>1, <1>2, <1>3, <1>4, <1>5 DEF LinkInv

LEMMA LinkBegun == Init => LinkInv
<1> SUFFICES ASSUME Init
             PROVE  LinkInv
  OBVIOUS
<1>1. /\ program \in Programs /\ phase = "compile" /\ unit = 1 /\ at = 1 /\ call = 0
      /\ exports = <<>> /\ nodes = <<>> /\ edges = <<>>
  BY DEF Init, NoGraph
<1>2. /\ DOMAIN program = 1 .. Len(program) /\ Len(program) \in Nat /\ Len(program) # 0
      /\ 1 \in DOMAIN program /\ Len(exports) = 0 /\ DOMAIN exports = {}
      /\ DOMAIN nodes = {} /\ DOMAIN edges = {}
  BY <1>1, ProgramShape
<1>3. DOMAIN Functions(1) = 1 .. Len(Functions(1)) /\ Len(Functions(1)) \in Nat
  BY <1>1, <1>2, ProgramShape
<1>4. BaseInv
  <2>1. exports \in Seq({exports[u] : u \in DOMAIN exports})
    BY <1>1
  <2> QED BY <1>1, <1>2, <2>1 DEF BaseInv
<1>5. GraphOfNames
  BY <1>1, <1>2 DEF GraphOfNames, Distinct
<1>6. ASSUME NEW a, NEW b
      PROVE  ~Called(1, 1, 0, a, b) /\ ~EdgeNamed(a, b)
  <2>1. \A k \in DOMAIN Functions(1) :
          ~(k < 1) /\ \A j \in DOMAIN Functions(1)[k].calls : ~(j < 0)
    <3>1. ASSUME NEW k \in DOMAIN Functions(1)
          PROVE  DOMAIN Functions(1)[k].calls = 1 .. Len(Functions(1)[k].calls)
      BY <1>1, <1>2, FunctionShape
    <3> QED BY <1>3, <3>1
  <2> QED BY <1>2, <2>1 DEF Called, EdgeNamed
<1>7. \A k \in DOMAIN Functions(1) : ~(k < 1)
  BY <1>3
<1>8. UnitGraph
  BY <1>1, <1>2, <1>3, <1>6, <1>7 DEF UnitGraph, Nodes
<1> QED BY <1>1, <1>4, <1>5, <1>8 DEF LinkInv

\* Whatever is compiled and linked, the graph of call_graph_find_or_add_node and
\* call_graph_add_edge has, at every step of compiler and linker, the calls by name and the
\* marks that are behind, and the walk over it keeps WalkInv.
THEOREM LinkHolds == Spec => []LinkInv
<1>1. ASSUME LinkInv, [Next]_vars
      PROVE  LinkInv'
  <2>1. CASE CompileFunction
    BY <1>1, <2>1, CompileFunctionKeeps
  <2>2. CASE CompileCall
    BY <1>1, <2>2, CompileCallKeeps
  <2>3. CASE BeginAnalysis
    BY <1>1, <2>3, BeginAnalysisKeeps
  <2>4. CASE Analyze \/ Enforce
    BY <1>1, <2>4, WalkStepKeeps
  <2>5. CASE EmitUnit
    BY <1>1, <2>5, EmitUnitKeeps
  <2>6. CASE ValidateAbi
    BY <1>1, <2>6, ValidateAbiKeeps
  <2>7. CASE ValidateRegions
    BY <1>1, <2>7, ValidateRegionsKeeps
  <2>8. CASE Collect
    BY <1>1, <2>8, CollectKeeps
  <2>9. CASE BeginEnforcement
    BY <1>1, <2>9, BeginEnforcementKeeps
  <2>10. CASE Judge
    BY <1>1, <2>10, JudgeKeeps
  <2>11. CASE Done \/ UNCHANGED vars
    BY <1>1, <2>11, NothingKeeps DEF Done
  <2> QED BY <1>1, <2>1, <2>2, <2>3, <2>4, <2>5, <2>6, <2>7, <2>8, <2>9, <2>10, <2>11 DEF Next
<1> QED BY <1>1, LinkBegun, PTL DEF Spec

-----------------------------------------------------------------------------
(* Cycles *)

Successors(R, x) == {e[2] : e \in {d \in R : d[1] = x}}

LEMMA FromSome ==
  ASSUME NEW R, NEW X, NEW y \in From(R, X)
  PROVE  \E x \in X : y \in From(R, {x})
<1> DEFINE S == UNION {From(R, {x}) : x \in X}
<1>1. X \subseteq S
  BY FromHas
<1>2. Closed(R, S)
  <2>1. ASSUME NEW e \in R, NEW x \in X, e[1] \in From(R, {x})
        PROVE  e[2] \in From(R, {x})
    <3>1. Closed(R, From(R, {x}))
      BY FromHas
    <3> QED BY <2>1, <3>1 DEF Closed
  <2> QED BY <2>1 DEF Closed
<1> HIDE DEF S
<1>3. y \in S
  BY <1>1, <1>2, FromLeast
<1> QED BY <1>3 DEF S

\* What is reached from x is x or what is reached from what it calls.
LEMMA FromNext ==
  ASSUME NEW R, NEW x
  PROVE  /\ From(R, {x}) \subseteq {x} \cup From(R, Successors(R, x))
         /\ From(R, Successors(R, x)) \subseteq From(R, {x})
<1> DEFINE T == From(R, Successors(R, x))
<1>1. Successors(R, x) \subseteq T /\ Closed(R, T)
  BY FromHas
<1>2. Closed(R, {x} \cup T)
  BY <1>1 DEF Closed, Successors
<1>3. From(R, {x}) \subseteq {x} \cup T
  BY <1>2, FromLeast
<1>4. Successors(R, x) \subseteq From(R, {x})
  <2>1. x \in From(R, {x}) /\ Closed(R, From(R, {x}))
    BY FromHas
  <2> QED BY <2>1 DEF Closed, Successors
<1> QED BY <1>3, <1>4, FromWithin

\* A component the walk refuses is one with a cycle through each of its functions.
LEMMA CyclicIsRecursive ==
  ASSUME WalkInv, Walked, NEW m \in Nodes
  PROVE  Cyclic(component[m]) <=> Recursive(Edges, m)
<1> DEFINE c == component[m]
           T == From(Edges, Successors(Edges, m))
<1>1. SameComponent
  BY WalkedRight
<1>2. Edges \subseteq Nodes \X Nodes /\ \A e \in Edges : e = <<e[1], e[2]>>
  <2>1. edges \in Seq(Nodes \X Nodes)
    BY DEF WalkInv, GraphTyped
  <2>2. \A k \in DOMAIN edges : edges[k] \in Nodes \X Nodes
    BY <2>1
  <2> QED BY <2>2 DEF Edges
<1>3. Recursive(Edges, m) <=> m \in T
  BY DEF Recursive, Successors
<1>4. Closed(Edges, T) /\ From(Edges, {m}) \subseteq {m} \cup T
  BY FromHas, FromNext
<1>5. \A j \in T : From(Edges, {j}) \subseteq T
  BY FromWithin
<1>6. \A j \in Nodes : component[j] = c => j \in From(Edges, {m}) /\ m \in From(Edges, {j})
  BY <1>1 DEF SameComponent, Reach
<1>7. ASSUME Cardinality(Members(c)) > 1
      PROVE  m \in T
  <2>1. PICK j \in Members(c) : j # m
    <3>1. m \in Members(c)
      BY DEF Members
    <3>2. Cardinality({m}) = 1
      BY FS_Singleton
    <3>3. Members(c) = {m} => Cardinality(Members(c)) = 1
      BY <3>2
    <3>4. Members(c) # {m}
      BY <1>7, <3>3
    <3> QED BY <3>1, <3>4
  <2>2. j \in T
    BY <1>4, <1>6, <2>1 DEF Members
  <2> QED BY <1>5, <1>6, <2>1, <2>2 DEF Members
<1>8. ASSUME NEW e \in Edges, component[e[1]] = c, component[e[2]] = c
      PROVE  m \in T
  <2>1. e[1] \in From(Edges, {m}) /\ m \in From(Edges, {e[2]})
    BY <1>2, <1>6, <1>8
  <2>2. e[2] \in T
    <3>1. CASE e[1] = m
      <4>1. e[2] \in Successors(Edges, m)
        BY <3>1 DEF Successors
      <4> QED BY <4>1, FromHas
    <3>2. CASE e[1] \in T
      BY <1>4, <3>2 DEF Closed
    <3> QED BY <1>4, <2>1, <3>1, <3>2
  <2> QED BY <1>5, <2>1, <2>2
<1>9. ASSUME m \in T
      PROVE  Cyclic(c)
  <2>1. PICK s \in Successors(Edges, m) : m \in From(Edges, {s})
    BY <1>9, FromSome
  <2>2. PICK e \in Edges : e[1] = m /\ e[2] = s
    BY <2>1 DEF Successors
  <2>3. s \in From(Edges, {m})
    <3>1. Successors(Edges, m) \subseteq From(Edges, Successors(Edges, m))
      BY FromHas
    <3> QED BY <2>1, <3>1, FromNext
  <2>4. component[s] = c
    BY <1>1, <1>2, <2>1, <2>2, <2>3 DEF SameComponent, Reach
  <2> QED BY <2>2, <2>4 DEF Cyclic
<1> HIDE DEF T
<1> QED BY <1>3, <1>7, <1>8, <1>9 DEF Cyclic

\* The check refuses exactly when a marked function can be entered again.
LEMMA RefusedIsRecursive ==
  ASSUME WalkInv, Walked
  PROVE  Refused <=> \E m \in Marked : Recursive(Edges, m)
<1>1. \A i \in Nodes : component[i] \in 1 .. count
  BY WalkedRight
<1>2. Marked \subseteq Nodes
  BY DEF Marked
<1>3. \A m \in Nodes : Cyclic(component[m]) <=> Recursive(Edges, m)
  BY CyclicIsRecursive
<1>4. Refused => \E m \in Marked : Cyclic(component[m])
  BY DEF Refused, Members
<1>5. (\E m \in Marked : Cyclic(component[m])) => Refused
  BY <1>1, <1>2 DEF Refused, Members
<1> QED BY <1>2, <1>3, <1>4, <1>5

\* The same for the names, when the edges are the calls R between names.
LEMMA RecursiveByName ==
  ASSUME GraphOfNames, NEW R, \A e \in R : e = <<e[1], e[2]>>,
         \A a, b : EdgeNamed(a, b) <=> <<a, b>> \in R,
         NEW m \in Nodes
  PROVE  Recursive(Edges, m) <=> Recursive(R, nodes[m].name)
<1> DEFINE a == nodes[m].name
           T == From(Edges, Successors(Edges, m))
           U == From(R, Successors(R, a))
<1>1. /\ Recursive(Edges, m) <=> m \in T
      /\ Recursive(R, a) <=> a \in U
  BY DEF Recursive, Successors
<1>2. /\ Distinct(nodes) /\ \A e \in Edges : e[1] \in Nodes /\ e[2] \in Nodes
      /\ \A k \in DOMAIN edges : edges[k] \in Edges
  <2>1. edges \in Seq(Nodes \X Nodes)
    BY DEF GraphOfNames
  <2>2. \A k \in DOMAIN edges : edges[k] \in Nodes \X Nodes
    BY <2>1
  <2> QED BY <2>2 DEF Edges, GraphOfNames
<1>3. ASSUME NEW e \in Edges
      PROVE  <<nodes[e[1]].name, nodes[e[2]].name>> \in R
  <2>1. EdgeNamed(nodes[e[1]].name, nodes[e[2]].name)
    BY DEF EdgeNamed, Edges
  <2> QED BY <2>1
<1>4. ASSUME NEW e \in R, NEW i \in Nodes, nodes[i].name = e[1]
      PROVE  \E d \in Edges : d[1] = i /\ nodes[d[2]].name = e[2]
  <2>1. EdgeNamed(e[1], e[2])
    BY <1>4
  <2>2. PICK k \in DOMAIN edges : nodes[edges[k][1]].name = e[1] /\ nodes[edges[k][2]].name = e[2]
    BY <2>1 DEF EdgeNamed
  <2>3. edges[k] \in Edges /\ edges[k][1] = i
    BY <1>2, <1>4, <2>2 DEF Distinct, Nodes
  <2> QED BY <2>2, <2>3
<1>5. ASSUME m \in T
      PROVE  a \in U
  <2> DEFINE S == {i \in Nodes : nodes[i].name \in U}
  <2>1. Successors(R, a) \subseteq U /\ Closed(R, U)
    BY FromHas
  <2>2. Successors(Edges, m) \subseteq S
    <3>1. ASSUME NEW e \in Edges, e[1] = m
          PROVE  nodes[e[2]].name \in Successors(R, a)
      <4>1. <<a, nodes[e[2]].name>> \in R
        BY <1>3, <3>1
      <4> QED BY <4>1 DEF Successors
    <3> QED BY <1>2, <2>1, <3>1 DEF Successors
  <2>3. Closed(Edges, S)
    <3>1. ASSUME NEW e \in Edges, nodes[e[1]].name \in U
          PROVE  nodes[e[2]].name \in U
      BY <1>3, <2>1, <3>1 DEF Closed
    <3> QED BY <1>2, <3>1 DEF Closed
  <2> HIDE DEF S
  <2>4. m \in S
    BY <1>5, <2>2, <2>3, FromLeast
  <2> QED BY <2>4 DEF S
<1>6. ASSUME a \in U
      PROVE  m \in T
  <2> DEFINE S == {nodes[i].name : i \in T \cap Nodes}
  <2>1. Successors(Edges, m) \subseteq T /\ Closed(Edges, T)
    BY FromHas
  <2>2. Successors(R, a) \subseteq S
    <3>1. ASSUME NEW e \in R, e[1] = a
          PROVE  e[2] \in S
      <4>1. PICK d \in Edges : d[1] = m /\ nodes[d[2]].name = e[2]
        BY <1>4, <3>1
      <4>2. d[2] \in T /\ d[2] \in Nodes
        BY <1>2, <2>1, <4>1 DEF Successors
      <4> QED BY <4>1, <4>2
    <3> HIDE DEF S
    <3> QED BY <3>1 DEF Successors
  <2>3. Closed(R, S)
    <3>1. ASSUME NEW e \in R, NEW i \in T \cap Nodes, nodes[i].name = e[1]
          PROVE  e[2] \in S
      <4>1. PICK d \in Edges : d[1] = i /\ nodes[d[2]].name = e[2]
        BY <1>4, <3>1
      <4>2. d[2] \in T /\ d[2] \in Nodes
        BY <1>2, <2>1, <3>1, <4>1 DEF Closed
      <4> QED BY <4>1, <4>2
    <3> QED BY <3>1 DEF Closed
  <2> HIDE DEF S
  <2>4. a \in S
    BY <1>6, <2>2, <2>3, FromLeast
  <2>5. PICK i \in T \cap Nodes : nodes[i].name = a
    BY <2>4 DEF S
  <2> QED BY <1>2, <2>5 DEF Distinct, Nodes
<1> QED BY <1>1, <1>5, <1>6

\* Recursion between functions as the source means them is recursion between their names.
LEMMA RecursiveProjected ==
  ASSUME NEW R, NEW Q, \A e \in R : <<e[1][2], e[2][2]>> \in Q, NEW f, Recursive(R, f)
  PROVE  Recursive(Q, f[2])
<1> DEFINE T == From(R, Successors(R, f))
           U == From(Q, Successors(Q, f[2]))
           S == {x \in T : x[2] \in U}
<1>1. f \in T
  BY DEF Recursive, Successors
<1>2. /\ Successors(R, f) \subseteq T /\ Closed(R, T)
      /\ Successors(Q, f[2]) \subseteq U /\ Closed(Q, U)
  BY FromHas
<1>3. Successors(R, f) \subseteq S
  <2>1. ASSUME NEW e \in R, e[1] = f
        PROVE  e[2][2] \in Successors(Q, f[2])
    <3>1. <<f[2], e[2][2]>> \in Q
      BY <2>1
    <3> QED BY <3>1 DEF Successors
  <2> QED BY <1>2, <2>1 DEF Successors
<1>4. Closed(R, S)
  <2>1. ASSUME NEW e \in R, e[1] \in T, e[1][2] \in U
        PROVE  e[2] \in T /\ e[2][2] \in U
    BY <1>2, <2>1 DEF Closed
  <2> QED BY <2>1 DEF Closed
<1> HIDE DEF S
<1>5. f \in S
  BY <1>1, <1>3, <1>4, FromLeast
<1> QED BY <1>5 DEF S, Recursive, Successors

-----------------------------------------------------------------------------
(* What a program is accepted and refused for *)

LEMMA PairsOfNames ==
  ASSUME NEW us
  PROVE  \A e \in NameRelation(us) : e = <<e[1], e[2]>>
BY DEF NameRelation

\* Whatever the graph, the components call_graph_tarjan_visit finds are the strongly
\* connected ones.
THEOREM ComponentsHold == Spec => []ComponentsRight
<1>1. LinkInv => ComponentsRight
  <2> SUFFICES ASSUME LinkInv, phase \in {"analyze", "enforce"}, Walked
               PROVE  \A i, j \in Nodes :
                        (component[i] = component[j]) <=>
                          (j \in From(Edges, {i}) /\ i \in From(Edges, {j}))
    BY DEF ComponentsRight
  <2>1. WalkInv
    BY DEF LinkInv
  <2> QED BY <2>1, WalkedRight DEF SameComponent, Reach
<1> QED BY <1>1, LinkHolds, PTL

\* Whatever the program, compiler and linker refuse it for recursion only if there is a
\* cycle of calls by name through a function with symbol-backed parameters
\* (analyze_static_parameter_call_graph, enforce_symbol_backed_call_graph).
THEOREM RefusalsHold == Spec => []RefusedForCause
<1>1. ASSUME LinkInv, phase = "unit refused"
      PROVE  \E f \in Range(Functions(unit)) : /\ f.marked
                                               /\ Recursive(NameRelation({unit}), f.name)
  <2>1. /\ BaseInv /\ GraphOfNames /\ UnitGraph /\ at > Len(Functions(unit)) /\ WalkInv
        /\ Walked /\ Refused /\ program \in Programs
    BY <1>1 DEF LinkInv, BaseInv
  <2>2. PICK m \in Marked : Recursive(Edges, m)
    BY <2>1, RefusedIsRecursive
  <2>3. m \in Nodes /\ nodes[m].marked
    BY <2>2 DEF Marked
  <2>4. unit \in DOMAIN program /\ at \in Nat /\ call = 0
    <3>1. DOMAIN Functions(unit) = 1 .. Len(Functions(unit)) /\ Len(Functions(unit)) \in Nat
      BY <2>1, ProgramShape DEF UnitGraph
    <3> QED BY <2>1, <3>1 DEF UnitGraph
  <2>5. \A a, b : EdgeNamed(a, b) <=> <<a, b>> \in NameRelation({unit})
    BY <2>1, <2>4, CalledByName DEF UnitGraph
  <2>6. Recursive(NameRelation({unit}), nodes[m].name)
    BY <2>1, <2>2, <2>3, <2>5, PairsOfNames, RecursiveByName
  <2>7. PICK k \in DOMAIN Functions(unit) :
          nodes[m] = [name |-> Functions(unit)[k].name, marked |-> Functions(unit)[k].marked]
    BY <2>1, <2>3 DEF UnitGraph
  <2> QED BY <2>3, <2>6, <2>7 DEF Range
<1>2. ASSUME LinkInv, phase = "link refused"
      PROVE  \E f \in SymbolBacked : Recursive(NameRelation(DOMAIN program), f[2])
  <2>1. GraphOfNames /\ WholeGraph /\ WalkInv /\ Walked /\ Refused
    BY <1>2 DEF LinkInv
  <2>2. PICK m \in Marked : Recursive(Edges, m)
    BY <2>1, RefusedIsRecursive
  <2>3. m \in Nodes /\ nodes[m].marked
    BY <2>2 DEF Marked
  <2>4. Recursive(NameRelation(DOMAIN program), nodes[m].name)
    BY <2>1, <2>2, <2>3, PairsOfNames, RecursiveByName DEF WholeGraph
  <2>5. PICK u \in DOMAIN program : MarkedBody(u, nodes[m].name)
    BY <2>1, <2>3 DEF WholeGraph, NodeMarked
  <2>6. PICK k \in DOMAIN Functions(u) : /\ Functions(u)[k].body /\ Functions(u)[k].marked
                                         /\ Functions(u)[k].name = nodes[m].name
    BY <2>5 DEF MarkedBody
  <2>7. Identity(u, nodes[m].name) \in SymbolBacked
    BY <2>6 DEF SymbolBacked, Bodies, Range
  <2>8. Identity(u, nodes[m].name)[2] = nodes[m].name
    BY DEF Identity
  <2> QED BY <2>4, <2>7, <2>8
<1>3. LinkInv => RefusedForCause
  BY <1>1, <1>2 DEF RefusedForCause
<1> QED BY <1>3, LinkHolds, PTL

\* Whatever the program, once enforce_symbol_backed_call_graph lets it pass no function with
\* symbol-backed parameters can be entered again, through calls by name, while it is active.
THEOREM AcceptedHold == Spec => []AcceptedAcyclic
<1>1. ASSUME LinkInv, phase = "linked", NEW f \in SymbolBacked,
             Recursive(CallRelation({"name"}), f)
      PROVE  FALSE
  <2>1. GraphOfNames /\ WholeGraph /\ WalkInv /\ Walked /\ ~Refused
    BY <1>1 DEF LinkInv
  <2>2. \E u \in DOMAIN program : MarkedBody(u, f[2])
    <3>1. PICK u \in DOMAIN program : \E g \in Bodies(u) : g.marked /\ f = Identity(u, g.name)
      BY DEF SymbolBacked
    <3>2. PICK g \in Bodies(u) : g.marked /\ f = Identity(u, g.name)
      BY <3>1
    <3>3. f[2] = g.name
      BY <3>2 DEF Identity
    <3> QED BY <3>2, <3>3 DEF MarkedBody, Bodies, Range
  <2>3. PICK m \in Nodes : nodes[m].name = f[2] /\ nodes[m].marked
    BY <2>1, <2>2 DEF WholeGraph, NodeMarked
  <2>4. \A e \in CallRelation({"name"}) : <<e[1][2], e[2][2]>> \in NameRelation(DOMAIN program)
    <3>1. ASSUME NEW e \in CallRelation({"name"})
          PROVE  <<e[1][2], e[2][2]>> \in NameRelation(DOMAIN program)
      <4>0. PICK u \in DOMAIN program : \E g \in Bodies(u) : \E c \in CallsOf(g, {"name"}) :
              e = <<Identity(u, g.name), Identity(u, c.to)>>
        BY DEF CallRelation
      <4>1. PICK g \in Bodies(u) : \E c \in CallsOf(g, {"name"}) :
              e = <<Identity(u, g.name), Identity(u, c.to)>>
        BY <4>0
      <4>2. PICK c \in CallsOf(g, {"name"}) : e = <<Identity(u, g.name), Identity(u, c.to)>>
        BY <4>1
      <4>3. e[1][2] = g.name /\ e[2][2] = c.to
        BY <4>2 DEF Identity
      <4>4. <<g.name, c.to>> \in NameRelation(DOMAIN program)
        BY DEF NameRelation
      <4> QED BY <4>3, <4>4
    <3> QED BY <3>1
  <2>5. Recursive(NameRelation(DOMAIN program), f[2])
    BY <1>1, <2>4, RecursiveProjected
  <2>6. Recursive(Edges, m)
    BY <2>1, <2>3, <2>5, PairsOfNames, RecursiveByName DEF WholeGraph
  <2> QED BY <2>1, <2>3, <2>6, RefusedIsRecursive DEF Marked
<1>2. LinkInv => AcceptedAcyclic
  BY <1>1 DEF AcceptedAcyclic
<1> QED BY <1>2, LinkHolds, PTL

\* Whatever the program and the memory, once validate_mem_region_metadata has let it pass
\* every region a unit keeps objects in is in the linker's configuration as the unit
\* declares it, its size taken with 16 bits.
THEOREM RegionsHold == Spec => []RegionsAgree
<1>1. ASSUME LinkInv, phase = "linked", NEW u \in DOMAIN program, NEW r \in program[u].regions
      PROVE  \E m \in Memory : /\ m.name = r.name /\ m.start = r.start /\ m.type = r.type
                               /\ m.size = Extent(r) % TopAddress
  <2>1. BaseInv /\ AllExported /\ RegionsChecked /\ program \in Programs
    BY <1>1 DEF LinkInv, BaseInv
  <2>2. u \in DOMAIN exports
    BY <2>1, ObjectsShape, ProgramShape DEF AllExported
  <2> DEFINE x == <<r.name, r.start, Extent(r) % TopAddress, r.type>>
  <2>3. x \in exports[u].regions
    BY <2>1, <2>2 DEF BaseInv, ExportRight, RegionMarks
  <2>4. RegionAgrees(x)
    BY <2>1, <2>2, <2>3 DEF RegionsChecked, RegionRecords
  <2> QED BY <2>4 DEF RegionAgrees
<1>2. LinkInv => RegionsAgree
  BY <1>1 DEF RegionsAgree
<1> QED BY <1>2, LinkHolds, PTL

-----------------------------------------------------------------------------
(* The counters, and the lowlinks of all nodes *)

Lows == \A i \in Nodes : low[i] <= index[i]

LEMMA EnteringLow ==
  ASSUME WalkInv, Lows, NEW v \in Nodes, NEW fs, Enter(v, fs), nodes' = nodes
  PROVE  Lows'
<1>1. /\ Nodes' = Nodes /\ index' = [index EXCEPT ![v] = Cardinality(Reached) + 1]
      /\ low' = [low EXCEPT ![v] = Cardinality(Reached) + 1]
      /\ index \in [Nodes -> Nat] /\ low \in [Nodes -> Nat]
  BY DEF Enter, Nodes, WalkInv, WalkTyped
<1>2. Cardinality(Reached) + 1 \in Nat
  BY Shape
<1>3. \A i \in Nodes : i # v => index'[i] = index[i] /\ low'[i] = low[i]
  BY <1>1
<1>4. index'[v] = Cardinality(Reached) + 1 /\ low'[v] = Cardinality(Reached) + 1
  BY <1>1
<1> QED BY <1>1, <1>2, <1>3, <1>4 DEF Lows

LEMMA LoweringLow ==
  ASSUME WalkInv, Lows, nodes' = nodes, index' = index, NEW v \in Nodes, NEW n \in Nat,
         low' = [low EXCEPT ![v] = n], n <= low[v]
  PROVE  Lows'
<1>1. Nodes' = Nodes /\ index \in [Nodes -> Nat] /\ low \in [Nodes -> Nat]
  BY DEF Nodes, WalkInv, WalkTyped
<1> QED BY <1>1 DEF Lows

LEMMA LowsKeep ==
  ASSUME WalkInv, Lows, Walk
  PROVE  Lows'
<1>1. nodes' = nodes
  BY DEF Walk, VisitRoot, SkipEdge, Descend, SeenEdge, Return, graphVars
<1>2. CASE VisitRoot
  <2>1. Lowest(Nodes \ Reached) \in Nodes
    <3>1. Nodes \ Reached # {} /\ Nodes \ Reached \subseteq Nat
      BY <1>2, Shape DEF VisitRoot, Reached
    <3> QED BY <3>1, LowestIn
  <2> QED BY <1>1, <1>2, <2>1, EnteringLow DEF VisitRoot
<1>3. CASE SkipEdge
  BY <1>1, <1>3 DEF SkipEdge, Lows, Nodes
<1>4. CASE Descend
  <2>1. Target \in Nodes
    <3>1. Len(frames) \in DOMAIN frames /\ Top.edge \in DOMAIN edges
      BY <1>4, Positions DEF Descend, AtEdge, Top
    <3> QED BY <3>1, Numeric DEF Target
  <2> QED BY <1>1, <1>4, <2>1, EnteringLow DEF Descend
<1>5. CASE SeenEdge
  <2>1. /\ Len(frames) \in DOMAIN frames /\ Top.edge \in DOMAIN edges
        /\ Top.node = Gray(Len(frames))
    BY <1>5, Positions DEF SeenEdge, AtEdge, Top, Gray
  <2>2. Target \in Nodes /\ index[Target] \in Nat /\ Top.node \in Nodes /\ low[Top.node] \in Nat
    BY <2>1, Numeric DEF Target
  <2> DEFINE n == IF Joins(Target) THEN Least(low[Top.node], index[Target]) ELSE low[Top.node]
  <2>3. n \in Nat /\ n <= low[Top.node]
    BY <2>2 DEF Least
  <2>4. low' = [low EXCEPT ![Top.node] = n] /\ index' = index
    BY <1>5 DEF SeenEdge
  <2> HIDE DEF n
  <2> QED BY <1>1, <2>2, <2>3, <2>4, LoweringLow
<1>6. CASE Return
  <2>1. Ending
    BY <1>6 DEF Return, Ending
  <2>2. EndedCalls /\ index' = index
    BY <1>6, <2>1, EndedTop DEF Return
  <2>3. Top.node = Gray(Inmost)
    BY DEF Top, Gray, Inmost
  <2>4. Inmost \in DOMAIN frames /\ low[Gray(Inmost)] \in Nat
    BY <2>2, Numeric DEF EndedCalls
  <2>5. CASE Caller = 0
    <3>1. low' = low
      BY <1>6, <2>2, <2>5 DEF Return, EndedCalls
    <3> QED BY <1>1, <2>2, <3>1 DEF Lows, Nodes
  <2>6. CASE Caller # 0
    <3> DEFINE n == Least(low[Gray(Caller)], low[Gray(Inmost)])
    <3>1. low' = [low EXCEPT ![Gray(Caller)] = n]
      BY <1>6, <2>2, <2>3, <2>6 DEF Return, EndedCalls
    <3>2. Caller \in DOMAIN frames
      BY <2>2, <2>6 DEF EndedCalls, Inmost, Caller
    <3>3. Gray(Caller) \in Nodes /\ low[Gray(Caller)] \in Nat
      BY <3>2, Numeric
    <3>4. n \in Nat /\ n <= low[Gray(Caller)]
      BY <2>4, <3>3 DEF Least
    <3> HIDE DEF n
    <3> QED BY <1>1, <2>2, <3>1, <3>3, <3>4, LoweringLow
  <2> QED BY <2>5, <2>6
<1> QED BY <1>2, <1>3, <1>4, <1>5, <1>6 DEF Walk

\* The phases, and how far the counters go.
CountersInv ==
  /\ phase \in {"compile", "analyze", "abi", "regions", "collect", "enforce"} \/ Ended
  /\ unit \in 1..(Len(program) + 1) /\ at \in Nat \ {0} /\ call \in Nat
  /\ phase \in {"analyze", "enforce"} => Lows

\* Whatever the program, positions name nodes and calls, a node on the stack of the walk is
\* in no component, and a lowlink never exceeds the index.
THEOREM TypeHolds == Spec => []TypeOK
<1>1. Init => CountersInv
  <2> SUFFICES ASSUME Init
               PROVE  CountersInv
    OBVIOUS
  <2>1. program \in Programs /\ phase = "compile" /\ unit = 1 /\ at = 1 /\ call = 0
    BY DEF Init
  <2> QED BY <2>1, ProgramShape DEF CountersInv
<1>2. ASSUME LinkInv, CountersInv, [Next]_vars
      PROVE  CountersInv'
  <2>1. /\ program \in Programs /\ program' = program /\ Len(program) \in Nat
        /\ unit \in Nat /\ 1 <= unit /\ unit <= Len(program) + 1
        /\ at \in Nat \ {0} /\ call \in Nat
    <3>1. program' = program
      BY <1>2 DEF Next, vars, linkVars, CompileFunction, CompileCall, BeginAnalysis, Analyze,
                  EmitUnit, ValidateAbi, ValidateRegions, Collect, BeginEnforcement, Enforce,
                  Judge, Done, Refuse
    <3>2. program \in Programs
      BY <1>2 DEF LinkInv, BaseInv
    <3>3. Len(program) \in Nat
      BY <3>2, ProgramShape
    <3> QED BY <1>2, <3>1, <3>2, <3>3 DEF CountersInv
  <2>2. CASE CompileFunction \/ CompileCall
    <3>1. /\ phase = "compile" /\ phase' = "compile" /\ unit' = unit
          /\ at' \in {at, at + 1} /\ call' \in {0, 1, call, call + 1}
      BY <2>2 DEF CompileFunction, CompileCall, Compiling
    <3> QED BY <1>2, <2>1, <3>1 DEF CountersInv
  <2>3. CASE BeginAnalysis \/ BeginEnforcement
    <3>1. Lows'
      BY <2>3 DEF BeginAnalysis, BeginEnforcement, StartWalk, Lows, Nodes, graphVars
    <3> QED BY <1>2, <2>1, <2>3, <3>1 DEF CountersInv, BeginAnalysis, BeginEnforcement, Ended
  <2>4. CASE Analyze \/ Enforce
    <3>1. Lows'
      BY <1>2, <2>4, LowsKeep DEF LinkInv, Analyze, Enforce, CountersInv
    <3> QED BY <1>2, <2>1, <2>4, <3>1 DEF CountersInv, Analyze, Enforce, linkVars, Ended
  <2>5. CASE EmitUnit
    <3>1. unit <= Len(program)
      <4>1. UnitGraph
        BY <1>2, <2>5 DEF LinkInv, EmitUnit
      <4>2. unit \in 1 .. Len(program)
        BY <2>1, <4>1, ProgramShape DEF UnitGraph
      <4> QED BY <2>1, <4>2
    <3>2. /\ phase' \in {"bad region", "unit refused", "abi", "compile"}
          /\ unit' \in {unit, unit + 1} /\ at' \in {1, at} /\ call' \in {0, call}
      BY <2>5 DEF EmitUnit, Refuse
    <3>3. phase' \notin {"analyze", "enforce"} /\ (phase' \in {"abi", "compile"} \/ Ended')
      BY <3>2 DEF Ended
    <3>4. /\ unit' \in 1 .. Len(program) + 1 /\ at' \in Nat \ {0} /\ call' \in Nat
      <4> DEFINE n == Len(program)
      <4>1. /\ n \in Nat /\ unit \in Nat /\ unit <= n /\ at \in Nat \ {0} /\ call \in Nat
            /\ unit' = unit \/ unit' = unit + 1
            /\ at' = 1 \/ at' = at
            /\ call' = 0 \/ call' = call
        BY <2>1, <3>1, <3>2
      <4>2. 1 <= unit
        BY <2>1
      <4> HIDE DEF n
      <4>3. unit' \in 1 .. n + 1
        BY ONLY <4>1, <4>2
      <4>4. at' \in Nat \ {0} /\ call' \in Nat
        BY ONLY <4>1
      <4> QED BY <4>3, <4>4 DEF n
    <3> QED BY <2>1, <3>3, <3>4 DEF CountersInv
  <2>6. CASE ValidateAbi \/ ValidateRegions
    <3>1. /\ phase' \in {"abi refused", "regions", "region refused", "collect"}
          /\ unit' \in {unit, 1} /\ at' = at /\ call' = call
      BY <2>6 DEF ValidateAbi, ValidateRegions, Refuse
    <3>2. phase' \notin {"analyze", "enforce"} /\ (phase' \in {"regions", "collect"} \/ Ended')
      BY <3>1 DEF Ended
    <3>3. /\ unit' \in 1 .. Len(program) + 1 /\ at' \in Nat \ {0} /\ call' \in Nat
      <4> DEFINE n == Len(program)
      <4>1. /\ n \in Nat /\ unit \in Nat /\ unit <= n + 1 /\ at \in Nat \ {0} /\ call \in Nat
            /\ unit' = unit \/ unit' = 1
            /\ at' = at /\ call' = call
        BY <2>1, <3>1
      <4>2. 1 <= unit
        BY <2>1
      <4> HIDE DEF n
      <4>3. unit' \in 1 .. n + 1
        BY ONLY <4>1, <4>2
      <4>4. at' \in Nat \ {0} /\ call' \in Nat
        BY ONLY <4>1
      <4> QED BY <4>3, <4>4 DEF n
    <3> QED BY <2>1, <3>2, <3>3 DEF CountersInv
  <2>7. CASE Collect
    <3>1. unit <= Len(program)
      BY <1>2, <2>7 DEF Collect, LinkInv, AllExported
    <3> QED BY <1>2, <2>1, <2>7, <3>1 DEF CountersInv, Collect, Ended
  <2>8. CASE Judge
    BY <1>2, <2>1, <2>8 DEF CountersInv, Judge, Refuse, Ended
  <2>9. CASE Done \/ UNCHANGED vars
    BY <1>2, <2>1, <2>9
       DEF CountersInv, Done, vars, linkVars, graphVars, walkVars, Ended, Lows, Nodes
  <2> QED BY <1>2, <2>2, <2>3, <2>4, <2>5, <2>6, <2>7, <2>8, <2>9 DEF Next
<1>3. LinkInv /\ CountersInv => TypeOK
  <2> SUFFICES ASSUME LinkInv, CountersInv
               PROVE  TypeOK
    OBVIOUS
  <2>1. Edges \subseteq Nodes \X Nodes
    <3>1. edges \in Seq(Nodes \X Nodes)
      BY DEF LinkInv, GraphOfNames
    <3>2. \A k \in DOMAIN edges : edges[k] \in Nodes \X Nodes
      BY <3>1
    <3> QED BY <3>2 DEF Edges
  <2>2. Len(exports) <= Len(program)
    BY DEF LinkInv, BaseInv
  <2>3. ASSUME phase \in {"analyze", "enforce"}
        PROVE  /\ \A i \in Nodes : /\ low[i] <= index[i] /\ component[i] <= count
                                   /\ OnStack(i) <=> (index[i] # 0 /\ component[i] = 0)
               /\ \A k \in DOMAIN frames : frames[k].node \in Nodes
    <3>1. WalkInv /\ Lows
      BY <2>3 DEF LinkInv, CountersInv
    <3> QED BY <3>1, Numeric DEF WalkInv, WalkTyped, Stacked, Lows, Gray
  <2> QED BY <2>1, <2>2, <2>3 DEF TypeOK, CountersInv
<1> QED BY <1>1, <1>2, <1>3, LinkHolds, PTL DEF Spec

-----------------------------------------------------------------------------
(* The overloads of a name *)

\* The candidates of a scan over cost that are behind position n, and what is
\* known then: b is a cheapest of them, l its cost, and there is another one as
\* cheap exactly if t.
Behind(cost, n) == {j \in 1..(n - 1) : cost[j] >= 0}
Scanned(cost, n, b, l, t) ==
  /\ b = 0 => Behind(cost, n) = {} /\ ~t
  /\ b # 0 => /\ b \in Behind(cost, n) /\ l = cost[b]
              /\ \A j \in Behind(cost, n) : l <= cost[j]
              /\ t <=> \E j \in Behind(cost, n) : j # b /\ cost[j] = l

CostsNow == [j \in DOMAIN table |-> Cost(table[j], args)]
Unanswered == answer = "open"
Resolved == {"chosen", "ambiguous", "builtin", "no viable overload"}

TypeInv ==
  /\ table \in Seq(Declarations)
  /\ next \in 0..(Len(table) + 1)
  /\ next # 0 => args \in Calls
  /\ best \in Nat /\ least \in Int

ScanInv == next # 0 => Scanned(CostsNow, next, best, least, tie)
StartInv == next = 0 /\ Unanswered => best = 0 /\ ~tie
AnswerInv == answer \in Resolved => next = Len(table) + 1 /\ answer = Outcome

TieInv == tie \in BOOLEAN
ResolutionInv == TypeInv /\ TieInv /\ ScanInv /\ StartInv /\ AnswerInv

LEMMA ResolutionStarts == ResolutionInit => ResolutionInv
<1> SUFFICES ASSUME ResolutionInit PROVE ResolutionInv
  OBVIOUS
<1>1. table = <<>> /\ next = 0 /\ best = 0 /\ least = 0 /\ tie = FALSE /\ answer = "open"
  BY DEF ResolutionInit
<1>2. table \in Seq(Declarations) /\ next \in 0..(Len(table) + 1)
  BY <1>1
<1>3. TypeInv
  BY <1>1, <1>2 DEF TypeInv
<1>4. ScanInv
  BY <1>1 DEF ScanInv
<1>5. StartInv
  BY <1>1 DEF StartInv
<1>6. AnswerInv
  BY <1>1 DEF AnswerInv, Resolved
<1>7. TieInv
  BY <1>1 DEF TieInv
<1> QED BY <1>3, <1>4, <1>5, <1>6, <1>7 DEF ResolutionInv

\* Declarations are remembered before a call is looked at.
LEMMA RememberKeeps ==
  ASSUME ResolutionInv, NEW f \in Declarations, Remember(f) PROVE ResolutionInv'
<1>1. /\ next = 0 /\ next' = 0 /\ best' = best /\ least' = least /\ tie' = tie
      /\ answer = "open" /\ answer' = "open"
  BY DEF Remember
<1>2. table' \in Seq(Declarations)
  <2>1. CASE EntryOf(f) = {}
    BY <2>1 DEF Remember, ResolutionInv, TypeInv
  <2>2. CASE EntryOf(f) # {}
    <3> DEFINE i == CHOOSE i \in EntryOf(f) : TRUE
    <3>1. i \in DOMAIN table
      BY <2>2 DEF EntryOf
    <3>2. table' = table \/ table' = [table EXCEPT ![i] = f]
      BY <2>2 DEF Remember
    <3>3. table \in Seq(Declarations)
      BY DEF ResolutionInv, TypeInv
    <3> HIDE DEF i
    <3> QED BY <3>1, <3>2, <3>3
  <2> QED BY <2>1, <2>2
<1>3. TypeInv'
  BY <1>1, <1>2 DEF ResolutionInv, TypeInv
<1>4. ScanInv'
  BY <1>1 DEF ScanInv
<1>5. StartInv'
  BY <1>1 DEF ResolutionInv, StartInv, Unanswered
<1>6. AnswerInv'
  BY <1>1 DEF AnswerInv, Resolved
<1>7. TieInv'
  BY <1>1 DEF ResolutionInv, TieInv
<1> QED BY <1>3, <1>4, <1>5, <1>6, <1>7 DEF ResolutionInv

LEMMA AskKeeps ==
  ASSUME ResolutionInv, NEW as \in Calls, Ask(as) PROVE ResolutionInv'
<1>1. /\ next = 0 /\ next' = 1 /\ table # <<>> /\ table' = table /\ args' = as
      /\ best' = best /\ least' = least /\ tie' = tie
      /\ answer = "open" /\ answer' = "open"
  BY DEF Ask
<1>2. best = 0 /\ ~tie
  BY <1>1 DEF ResolutionInv, StartInv, Unanswered
<1>3. Scanned(CostsNow', 1, best', least', tie')
  BY <1>1, <1>2 DEF Scanned, Behind
<1>4. TypeInv'
  <2>1. table \in Seq(Declarations) /\ best \in Nat /\ least \in Int
    BY DEF ResolutionInv, TypeInv
  <2>2. 1 \in 0..(Len(table) + 1)
    BY <2>1
  <2> QED BY <1>1, <2>1, <2>2 DEF TypeInv
<1>5. ScanInv'
  BY <1>1, <1>3 DEF ScanInv
<1>6. StartInv'
  BY <1>1 DEF StartInv
<1>7. AnswerInv'
  BY <1>1 DEF AnswerInv, Resolved
<1>8. TieInv'
  BY <1>1 DEF ResolutionInv, TieInv
<1> QED BY <1>4, <1>5, <1>6, <1>7, <1>8 DEF ResolutionInv

\* The heart: one more candidate, cheaper, as cheap or dearer than the best.
LEMMA OneMore ==
  ASSUME NEW m \in Nat, NEW cost \in [1..m -> Int], NEW n \in 1..m,
         NEW b \in Nat, NEW l \in Int, NEW t \in BOOLEAN, Scanned(cost, n, b, l, t)
  PROVE  /\ cost[n] < 0 => Scanned(cost, n + 1, b, l, t)
         /\ cost[n] >= 0 /\ (b = 0 \/ cost[n] < l) => Scanned(cost, n + 1, n, cost[n], FALSE)
         /\ cost[n] >= 0 /\ ~(b = 0 \/ cost[n] < l) =>
              Scanned(cost, n + 1, b, l, t \/ cost[n] = l)
<1> DEFINE B == Behind(cost, n)
           C == Behind(cost, n + 1)
<1>1. \A j : j \in C <=> j \in B \/ (j = n /\ cost[n] >= 0)
  BY DEF Behind
<1>2. \A j \in C : cost[j] \in Int
  BY DEF Behind
<1>3. n \notin B
  BY DEF Behind
<1>4. /\ b = 0 => B = {} /\ ~t
      /\ b # 0 => /\ b \in B /\ l = cost[b]
                  /\ \A j \in B : l <= cost[j]
                  /\ t <=> \E j \in B : j # b /\ cost[j] = l
  BY DEF Scanned
<1>5. n # 0 /\ cost[n] \in Int
  OBVIOUS
<1> HIDE DEF B, C
<1>6. ASSUME cost[n] < 0 PROVE Scanned(cost, n + 1, b, l, t)
  <2>1. ~(cost[n] >= 0)
    BY <1>5, <1>6
  <2>2. C = B
    BY <2>1, <1>1, Zenon
  <2> QED BY <2>2 DEF Scanned, B, C
<1>7. ASSUME cost[n] >= 0, b = 0 \/ cost[n] < l
      PROVE  Scanned(cost, n + 1, n, cost[n], FALSE)
  <2>1. \A j \in B : cost[n] < cost[j]
    BY <1>1, <1>2, <1>4, <1>5, <1>7
  <2>2. n \in C /\ \A j \in C : cost[n] <= cost[j]
    BY <2>1, <1>1, <1>2, <1>5, <1>7
  <2>3. ~\E j \in C : j # n /\ cost[j] = cost[n]
    BY <2>1, <1>1, <1>2, <1>5
  <2> QED BY <2>2, <2>3, <1>5 DEF Scanned, C
<1>8. ASSUME cost[n] >= 0, ~(b = 0 \/ cost[n] < l)
      PROVE  Scanned(cost, n + 1, b, l, t \/ cost[n] = l)
  <2>1. b \in C /\ l = cost[b] /\ \A j \in C : l <= cost[j]
    BY <1>1, <1>4, <1>5, <1>8
  <2>2. (t \/ cost[n] = l) <=> \E j \in C : j # b /\ cost[j] = l
    BY <1>1, <1>3, <1>4, <1>8
  <2> QED BY <2>1, <2>2, <1>8 DEF Scanned, C
<1> QED BY <1>6, <1>7, <1>8

LEMMA CostsTyped ==
  ASSUME TypeInv, args \in Calls PROVE CostsNow \in [1..Len(table) -> Int]
<1>1. \A j \in 1..Len(table) : table[j] \in Declarations
  BY DEF TypeInv
<1> QED BY <1>1, CostAssumption DEF CostsNow, TypeInv

LEMMA ConsiderKeeps ==
  ASSUME ResolutionInv, Consider PROVE ResolutionInv'
<1>1. /\ next \in 1..Len(table) /\ next' = next + 1
      /\ table' = table /\ args' = args /\ answer' = answer
  BY DEF Consider, ResolutionInv, TypeInv
<1>2. args \in Calls /\ TypeInv /\ best \in Nat /\ least \in Int /\ Len(table) \in Nat
  BY <1>1 DEF ResolutionInv, TypeInv
<1>3. CostsNow \in [1..Len(table) -> Int]
  BY <1>2, CostsTyped
<1> DEFINE c == CostsNow[next]
<1>4. c = Cost(table[next], args) /\ c \in Int
  BY <1>1, <1>3 DEF CostsNow
<1>5. CostsNow' = CostsNow
  BY <1>1 DEF CostsNow
<1>6. Scanned(CostsNow, next, best, least, tie)
  BY <1>1 DEF ResolutionInv, ScanInv
<1> HIDE DEF c
<1>7. Scanned(CostsNow, next + 1, best', least', tie') /\ tie' \in BOOLEAN
      /\ best' \in {best, next} /\ least' \in {least, c}
  <2>0. tie \in BOOLEAN
    BY DEF ResolutionInv, TieInv
  <2>1. CASE c < 0
    <3>1. best' = best /\ least' = least /\ tie' = tie
      BY <2>1, <1>4 DEF Consider
    <3>2. Scanned(CostsNow, next + 1, best, least, tie)
      BY <2>0, <2>1, <1>1, <1>2, <1>3, <1>6, OneMore DEF c
    <3> QED BY <3>1, <3>2, <2>0
  <2>2. CASE c >= 0 /\ (best = 0 \/ c < least)
    <3>1. best' = next /\ least' = c
      BY <2>2, <1>4 DEF Consider
    <3>2. tie' = FALSE
      <4>1. tie' = Tied(c)
        BY <2>2, <1>4 DEF Consider
      <4>2. Tied(c) = FALSE
        BY <2>2, Zenon DEF Tied
      <4> QED BY <4>1, <4>2
    <3>3. Scanned(CostsNow, next + 1, next, c, FALSE)
      BY <2>0, <2>2, <1>1, <1>2, <1>3, <1>6, OneMore DEF c
    <3> QED BY <3>1, <3>2, <3>3
  <2>3. CASE c >= 0 /\ ~(best = 0 \/ c < least)
    <3>1. best' = best /\ least' = least
      BY <2>3, <1>4 DEF Consider
    <3>2. tie' = (tie \/ c = least)
      BY <2>3, <1>4 DEF Consider, Tied
    <3>3. Scanned(CostsNow, next + 1, best, least, tie \/ c = least)
      BY <2>0, <2>3, <1>1, <1>2, <1>3, <1>6, OneMore DEF c
    <3> QED BY <3>1, <3>2, <3>3
  <2> QED BY <2>1, <2>2, <2>3, <1>4
<1>9. ScanInv'
  BY <1>1, <1>5, <1>7 DEF ScanInv
<1>10. TypeInv'
  <2>1. best' \in Nat /\ least' \in Int
    BY <1>1, <1>2, <1>4, <1>7
  <2> QED BY <2>1, <1>1, <1>2 DEF TypeInv
<1>11. StartInv'
  BY <1>1, <1>2 DEF TypeInv, StartInv
<1>12. AnswerInv'
  <2>1. answer \notin Resolved
    BY <1>1, <1>2 DEF ResolutionInv, AnswerInv
  <2> QED BY <2>1, <1>1 DEF AnswerInv, Resolved
<1>13. TieInv'
  BY <1>7 DEF TieInv
<1> QED BY <1>9, <1>10, <1>11, <1>12, <1>13 DEF ResolutionInv

LEMMA AnswerKeeps ==
  ASSUME ResolutionInv, Answer PROVE ResolutionInv'
<1>1. /\ next = Len(table) + 1 /\ next' = next /\ table' = table /\ args' = args
      /\ best' = best /\ least' = least /\ tie' = tie /\ kind' = kind /\ answer' = Outcome
  BY DEF Answer
<1>2. CostsNow' = CostsNow /\ Outcome' = Outcome
  BY <1>1 DEF CostsNow, Outcome
<1>3. TypeInv'
  BY <1>1 DEF ResolutionInv, TypeInv
<1>4. ScanInv'
  BY <1>1, <1>2 DEF ResolutionInv, ScanInv
<1>5. StartInv'
  BY <1>1 DEF ResolutionInv, TypeInv, StartInv
<1>6. AnswerInv'
  BY <1>1, <1>2 DEF AnswerInv
<1>7. TieInv'
  BY <1>1 DEF ResolutionInv, TieInv
<1> QED BY <1>3, <1>4, <1>5, <1>6, <1>7 DEF ResolutionInv

LEMMA DesignateKeeps ==
  ASSUME ResolutionInv, NEW wanted, Designate(wanted) PROVE ResolutionInv'
<1>1. /\ next = 0 /\ next' = 0 /\ table' = table /\ least' = least /\ tie' = tie
      /\ answer' \in {"designated", "not a designator", "no overload matches"}
  BY DEF Designate
<1>2. best' \in Nat
  <2> DEFINE M == UNION {Matches(wanted[k]) : k \in DOMAIN wanted}
  <2>1. M \subseteq DOMAIN table
    BY DEF Matches
  <2>2. DOMAIN table \subseteq Nat
    BY DEF ResolutionInv, TypeInv
  <2>3. M # {} => (CHOOSE i \in M : TRUE) \in Nat
    BY <2>1, <2>2
  <2>4. best' = (IF wanted = <<>> /\ Len(table) = 1 THEN 1
                 ELSE IF M = {} THEN 0 ELSE CHOOSE i \in M : TRUE)
    BY DEF Designate
  <2> HIDE DEF M
  <2> QED BY <2>3, <2>4
<1>3. TypeInv'
  BY <1>1, <1>2 DEF ResolutionInv, TypeInv
<1>4. ScanInv'
  BY <1>1 DEF ScanInv
<1>5. StartInv' /\ AnswerInv'
  BY <1>1 DEF StartInv, AnswerInv, Unanswered, Resolved
<1>6. TieInv'
  BY <1>1 DEF ResolutionInv, TieInv
<1> QED BY <1>3, <1>4, <1>5, <1>6 DEF ResolutionInv

LEMMA ResolutionKeeps == ResolutionInv /\ [ResolutionNext]_resolutionVars => ResolutionInv'
<1> SUFFICES ASSUME ResolutionInv, [ResolutionNext]_resolutionVars PROVE ResolutionInv'
  OBVIOUS
<1>1. CASE \E f \in Declarations : Remember(f)
  BY <1>1, RememberKeeps
<1>2. CASE \E as \in Calls : Ask(as)
  BY <1>2, AskKeeps
<1>3. CASE Consider
  BY <1>3, ConsiderKeeps
<1>4. CASE Answer
  BY <1>4, AnswerKeeps
<1>5. CASE Designate(<<>>)
  BY <1>5, DesignateKeeps
<1>6. CASE \E e \in Expected : Designate(<<e>>)
  BY <1>6, DesignateKeeps
<1>7. CASE UNCHANGED resolutionVars
  <2>1. /\ table' = table /\ next' = next /\ args' = args /\ best' = best
        /\ least' = least /\ tie' = tie /\ answer' = answer /\ kind' = kind
    BY <1>7 DEF resolutionVars
  <2>2. CostsNow' = CostsNow /\ Outcome' = Outcome
    BY <2>1 DEF CostsNow, Outcome
  <2>3. TypeInv' /\ TieInv' /\ ScanInv'
    BY <2>1, <2>2 DEF ResolutionInv, TypeInv, TieInv, ScanInv
  <2>4. StartInv' /\ AnswerInv'
    BY <2>1, <2>2 DEF ResolutionInv, StartInv, AnswerInv, Unanswered
  <2> QED BY <2>3, <2>4 DEF ResolutionInv
<1> QED BY <1>1, <1>2, <1>3, <1>4, <1>5, <1>6, <1>7 DEF ResolutionNext

\* When the call is answered the scan has every overload behind it.
LEMMA AnswerFollows == ResolutionInv => AnswerIsLeast
<1> SUFFICES ASSUME ResolutionInv, answer \in Resolved PROVE AnswerIsLeast
  BY DEF AnswerIsLeast, Resolved
<1>1. next = Len(table) + 1 /\ answer = Outcome /\ TypeInv /\ Len(table) \in Nat
  BY DEF ResolutionInv, AnswerInv, TypeInv
<1>2. Scanned(CostsNow, next, best, least, tie)
  BY <1>1 DEF ResolutionInv, ScanInv
<1>3. CostsNow \in [1..Len(table) -> Int]
  BY <1>1, CostsTyped DEF TypeInv
<1> DEFINE B == Behind(CostsNow, next)
<1>4. \A j \in DOMAIN table : Cost(table[j], args) = CostsNow[j]
  BY DEF CostsNow
<1>5. DOMAIN table = 1..Len(table)
  BY <1>1 DEF TypeInv
<1>6. Viable = B
  BY <1>1, <1>4, <1>5 DEF Viable, Behind
<1>7. Cheapest = {i \in B : \A j \in B : CostsNow[i] <= CostsNow[j]}
  <2>1. \A j \in Viable : j \in DOMAIN table
    BY DEF Viable
  <2> QED BY <2>1, <1>4, <1>6 DEF Cheapest
<1>8. /\ best = 0 => B = {} /\ ~tie
      /\ best # 0 => /\ best \in B /\ least = CostsNow[best]
                     /\ \A j \in B : least <= CostsNow[j]
                     /\ tie <=> \E j \in B : j # best /\ CostsNow[j] = least
  BY <1>2 DEF Scanned
<1>9. \A j \in B : CostsNow[j] \in Int
  BY <1>1, <1>3 DEF Behind
<1> HIDE DEF B
<1>10. answer = "chosen" => Cheapest = {best}
  <2> HAVE answer = "chosen"
  <2>1. ~tie /\ best # 0
    BY <1>1 DEF Outcome
  <2>2. best \in Cheapest
    BY <2>1, <1>7, <1>8
  <2>3. \A j \in Cheapest : j = best
    BY <2>1, <1>7, <1>8, <1>9
  <2> QED BY <2>2, <2>3
<1>11. answer = "ambiguous" => \E i, j \in Cheapest : i # j
  <2> HAVE answer = "ambiguous"
  <2>1. tie /\ best # 0
    BY <1>1, <1>8 DEF Outcome
  <2>2. PICK j \in B : j # best /\ CostsNow[j] = least
    BY <2>1, <1>8
  <2>3. best \in Cheapest /\ j \in Cheapest
    BY <2>1, <2>2, <1>7, <1>8
  <2> QED BY <2>2, <2>3
<1>12. answer \in {"builtin", "no viable overload"} => Viable = {}
  <2> HAVE answer \in {"builtin", "no viable overload"}
  <2>1. best = 0
    BY <1>1 DEF Outcome
  <2> QED BY <2>1, <1>6, <1>8
<1> QED BY <1>10, <1>11, <1>12 DEF AnswerIsLeast

\* Whatever is declared and called, in whatever order, a call is bound to the
\* one overload of least cost, or refused because there is none or a tie
\* (compile_overload.c 700-727 and 1047-1099).
THEOREM LeastWins == ResolutionSpec => []AnswerIsLeast
<1>1. ResolutionSpec => []ResolutionInv
  BY ResolutionStarts, ResolutionKeeps, PTL DEF ResolutionSpec
<1> QED BY <1>1, AnswerFollows, PTL

-----------------------------------------------------------------------------
(* One symbol each *)

\* What a declaration repeats takes the place of what it repeats.
SignaturesDiffer == \A i, j \in DOMAIN table : i # j => ~Same(table[i], table[j])

LEMMA RememberKeepsSignatures ==
  ASSUME TypeInv, SignaturesDiffer, NEW f \in Declarations, Remember(f)
  PROVE  SignaturesDiffer'
<1>1. table \in Seq(Declarations)
  BY DEF TypeInv
<1>2. CASE EntryOf(f) = {}
  <2>1. table' = Append(table, f)
    BY <1>2 DEF Remember
  <2> DEFINE n == Len(table)
  <2>2. /\ n \in Nat /\ DOMAIN table = 1..n /\ DOMAIN table' = 1..(n + 1)
        /\ \A i \in 1..n : table'[i] = table[i]
        /\ table'[n + 1] = f
    BY <1>1, <2>1
  <2>3. \A i \in 1..n : ~Same(table[i], f)
    BY <1>2, <2>2 DEF EntryOf
  <2>4. \A i \in 1..n : ~Same(f, table[i])
    BY <2>3 DEF Same
  <2>5. ASSUME NEW i \in 1..(n + 1), NEW j \in 1..(n + 1), i # j
        PROVE  ~Same(table'[i], table'[j])
    <3>1. CASE i \in 1..n /\ j \in 1..n
      BY <3>1, <2>2, <2>5 DEF SignaturesDiffer
    <3>2. CASE i = n + 1
      BY <3>2, <2>2, <2>4, <2>5
    <3>3. CASE j = n + 1
      BY <3>3, <2>2, <2>3, <2>5
    <3> QED BY <3>1, <3>2, <3>3, <2>2
  <2> QED BY <2>2, <2>5 DEF SignaturesDiffer, Same, Signature
<1>3. CASE EntryOf(f) # {}
  <2> DEFINE k == CHOOSE i \in EntryOf(f) : TRUE
  <2>1. k \in DOMAIN table /\ Same(table[k], f)
    BY <1>3 DEF EntryOf
  <2>2. table' = table \/ table' = [table EXCEPT ![k] = f]
    BY <1>3 DEF Remember
  <2> HIDE DEF k
  <2>3. DOMAIN table' = DOMAIN table
    BY <1>1, <2>2
  <2>4. \A i \in DOMAIN table : Signature(table'[i]) = Signature(table[i])
    BY <2>1, <2>2, Zenon DEF Same
  <2> QED BY <2>3, <2>4 DEF SignaturesDiffer, Same, Signature
<1> QED BY <1>2, <1>3

LEMMA TableStarts == ResolutionInit => SignaturesDiffer
BY DEF ResolutionInit, SignaturesDiffer

LEMMA StepKeepsSignatures ==
  ASSUME TypeInv, SignaturesDiffer, [ResolutionNext]_resolutionVars PROVE SignaturesDiffer'
<1>1. CASE \E f \in Declarations : Remember(f)
  BY <1>1, RememberKeepsSignatures
<1>2. CASE ~\E f \in Declarations : Remember(f)
  <2>1. table' = table
    BY <1>2 DEF ResolutionNext, Ask, Consider, Answer, Designate, resolutionVars
  <2> QED BY <2>1 DEF SignaturesDiffer, Same, Signature
<1> QED BY <1>1, <1>2

\* Equal symbols and equal bounds make equal signatures.
LEMMA SymbolTellsSignature ==
  ASSUME NEW f \in Declarations, NEW g \in Declarations, Mangled(f) = Mangled(g)
  PROVE  /\ Len(f.params) = Len(g.params)
         /\ (\A k \in DOMAIN f.params : f.params[k].dims = g.params[k].dims) => Same(f, g)
<1> DEFINE P == f.params
           Q == g.params
<1>1. P \in Seq(Parameter) /\ Q \in Seq(Parameter)
  BY DeclarationsAssumption
<1>2. f.variadic = g.variadic
  BY DEF Mangled
<1>3. [i \in DOMAIN P |-> <<P[i].type, P[i].ref, P[i].depth, Len(P[i].dims)>>]
      = [i \in DOMAIN Q |-> <<Q[i].type, Q[i].ref, Q[i].depth, Len(Q[i].dims)>>]
  BY DEF Mangled
<1> HIDE DEF P, Q
<1>4. DOMAIN P = DOMAIN Q
  BY <1>3
<1>5. Len(P) = Len(Q)
  BY <1>1, <1>4
<1>6. \A k \in DOMAIN P : /\ P[k].type = Q[k].type /\ P[k].ref = Q[k].ref
                          /\ P[k].depth = Q[k].depth
  BY <1>3, <1>4
<1>7. ASSUME \A k \in DOMAIN P : P[k].dims = Q[k].dims PROVE P = Q
  <2>1. ASSUME NEW k \in DOMAIN P PROVE P[k] = Q[k]
    <3>1. P[k] \in Parameter /\ Q[k] \in Parameter
      BY <1>1, <1>4
    <3> QED BY <3>1, <1>6, <1>7 DEF Parameter
  <2> QED BY <2>1, <1>1, <1>4, <1>5
<1> QED BY <1>2, <1>5, <1>7 DEF Same, Signature, P, Q

LEMMA SymbolsFollow == ASSUME TypeInv, SignaturesDiffer PROVE OneSymbolEach
<1> SUFFICES ASSUME NEW i \in DOMAIN table, NEW j \in DOMAIN table, i # j,
                    Symbol(table[i]) = Symbol(table[j])
             PROVE  /\ Len(table[i].params) = Len(table[j].params)
                    /\ \E k \in DOMAIN table[i].params :
                         table[i].params[k].dims # table[j].params[k].dims
  BY DEF OneSymbolEach
<1>1. table[i] \in Declarations /\ table[j] \in Declarations /\ ~(Len(table) <= 1)
  BY DEF TypeInv
<1>2. Mangled(table[i]) = Mangled(table[j])
  BY <1>1 DEF Symbol
<1>3. ~Same(table[i], table[j])
  BY DEF SignaturesDiffer
<1> QED BY <1>1, <1>2, <1>3, SymbolTellsSignature

\* Whatever is declared, in whatever order, two overloads of a name have
\* different symbols, unless they differ in the bounds of an array only
\* (compile_overload.c, function_symbol_name and remember_function).
THEOREM SymbolsDiffer == ResolutionSpec => []OneSymbolEach
<1>1. ResolutionSpec => []ResolutionInv
  BY ResolutionStarts, ResolutionKeeps, PTL DEF ResolutionSpec
<1>2. ResolutionInv => TypeInv
  BY DEF ResolutionInv
<1>3. TypeInv /\ SignaturesDiffer /\ [ResolutionNext]_resolutionVars => SignaturesDiffer'
  BY StepKeepsSignatures
<1>4. TypeInv /\ SignaturesDiffer => OneSymbolEach
  BY SymbolsFollow
<1> QED BY <1>1, <1>2, <1>3, <1>4, TableStarts, PTL DEF ResolutionSpec
=============================================================================
