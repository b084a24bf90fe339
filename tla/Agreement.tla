------------------------------ MODULE Agreement ------------------------------
(***************************************************************************)
(* Compiler, objects and linker with the fingerprints of abi_meta.c, and   *)
(* what their comparison is for.                                           *)
(***************************************************************************)
EXTENDS Contract, Fingerprint

Depth == 8

\* Two units disagree on a function or an object that they share.
Differ(u, v) ==
  \/ \E f \in Range(Functions(u)), g \in Range(Functions(v)) :
       /\ f.name = g.name /\ ~f.static /\ ~g.static
       /\ ~Alike(program[u].types, f.sig, program[v].types, g.sig, Depth)
  \/ \E o \in program[u].objects, p \in program[v].objects :
       /\ o.name = p.name
       /\ o.mode # p.mode \/ ~Alike(program[u].types, o.type, program[v].types, p.type, Depth)

(* In a linked program every two units agree, byte for byte, on each        *)
(* function and object they share, and the linker's configuration has each  *)
(* region as they declare it; a program is refused for its records only if  *)
(* two units disagree.                                                      *)
AcceptedAgree ==
  /\ phase = "linked" => \A u, v \in DOMAIN program : ~Differ(u, v)
  /\ RegionsAgree
  /\ phase = "abi refused" => \E u, v \in DOMAIN program : Differ(u, v)
==============================================================================
