------------------------------ MODULE Codegen ------------------------------
(***************************************************************************)
(* The compiler's back end at work: one of the programs is lowered and     *)
(* linked, and the machine runs the code from the start-up's call of main  *)
(* to its halt.  The globals x and y hold the input; what the globals hold *)
(* at the end is the result.                                               *)
(***************************************************************************)
EXTENDS Machine, Control

CONSTANTS
  Programs,   \* the programs, a sequence
  Restricted, \* whether only those Supported calls right are run
  Inputs      \* the values of the globals x and y

ASSUME CodegenAssumption == Restricted \in BOOLEAN

VARIABLES which, input
vars == <<machine, code, which, input>>

M == INSTANCE Meaning
S == INSTANCE Supported

Program == Programs[which]
Checked == TypedProgram(Program)

\* Memory before the start: the input, zeros for the other data, and what
\* happens to be there on the stack.
Fill == 170
Initial ==
  LET zero == [a \in 0 .. Top |-> IF a < StackBase THEN 0 ELSE Fill]
      put(m, x, v) == Written(m, AddressOf(Program, "", x),
                              Size(ShapeOfData(Program, "", x)), v)
  IN  put(put(zero, "x", input[1]), "y", input[2])

Init ==
  /\ which \in {n \in DOMAIN Programs :
                Restricted => S!Right(TypedProgram(Programs[n]))}
  /\ input \in Inputs
  /\ code = << >> /\ pc = 0 /\ hw = << >>
  /\ fp = 0 /\ sp = 0 /\ ptr0 = 0 /\ arg1 = 0 /\ mem = << >>

Compile ==
  /\ code = << >>
  /\ code' = Linked(Assembly(Checked))
  /\ pc' = 1
  /\ fp' = StackBase /\ sp' = StackBase
  /\ mem' = Initial
  /\ UNCHANGED <<ptr0, arg1, hw, which, input>>

\* A started program runs on; the start-up code stays at its halt.
Execute == Step /\ UNCHANGED <<which, input>>
Stopped == Halted /\ UNCHANGED vars
Next == Compile \/ Execute \/ Stopped
Spec == Init /\ [][Next]_vars /\ WF_vars(Execute)

(***************************************************************************)
(* What must hold.                                                         *)
(***************************************************************************)

\* The values of the one- and two-byte globals when the machine has stopped.
Results ==
  LET scalars == SelectSeq(Program.data,
                   LAMBDA o : o.of = "" /\ o.sh.d = 0 /\ o.sh.n = 0)
  IN  [i \in DOMAIN scalars |->
         <<scalars[i].name,
           Read(AddressOf(Program, "", scalars[i].name),
                Size(scalars[i].sh), Signed(scalars[i].sh.t))>>]
MeantState(prog) ==
  M!Run(prog.funs["main"].body,
        [mem |-> [pl \in {<<<<0, "", "x">>, 0>>, <<<<0, "", "y">>, 0>>} |->
                    IF pl[1][3] = "x" THEN input[1] ELSE input[2]],
         next |-> 2],
        [prog |-> prog, fn |-> "main", act |-> 1, next |-> 0]).st
Agree(st) ==
  \A i \in DOMAIN Results : Results[i][2] = M!At0(st, <<<<0, "", Results[i][1]>>, 0>>)
\* ResultsRight: the compiled program leaves in every global what the
\* statements of the program say, whatever temporaries, frames and pointers
\* it took to compute it.
ResultsRight == Halted => Agree(MeantState(Checked))

\* FrameAgrees: whenever a call is made the stack pointer is where the
\* compiler thinks it is, at the top of the argument area, although it counts
\* while it walks the tree and the temporaries of all that is around the call are
\* pushed: the callee finds its parameters and return slot relative to nothing
\* else.  (StatementsCounted, CompoundCounted and SymbolsSafe of Supported are the
\* calls for which the compiler miscounts.)
FrameAgrees == At("jsr") \/ At("jsrptr") => sp = fp + I.top

\* LevelOnReturn: a function leaves with the stack pointer where it was when
\* it was entered, on every path that leads to its return without leaving a
\* switch but by its end or a break of it.  (SwitchesEnd of Supported: the other
\* ways out of a switch leave its bytes on the stack.)
LevelOnReturn == At("rts") => sp = fp

\* Finishes: a started program comes to its end: no loop the generator emits
\* turns for ever, and no return takes a wrong way.
Finishes == Running ~> Halted
=============================================================================
