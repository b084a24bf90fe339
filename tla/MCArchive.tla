------------------------------- MODULE MCArchive -------------------------------
(* Two names, one of them in two directories, and archives of up to three     *)
(* members: whole, with one name twice, torn, made elsewhere, or no archive.  *)
EXTENDS Archive

A == <<"here", "a">>
B == <<"here", "b">>
LibA == <<"lib", "a">>
MCPaths == {A, B, LibA}
MCArgLists == {<<A>>, <<LibA, B>>, <<A, LibA>>}

CONSTANTS d, e
M(n, x) == [name |-> n, data |-> x]
Whole(ms) == [members |-> ms, torn |-> "no"]
MCArchives ==
  {None, Junk, Whole(<<M("a", d)>>), Whole(<<M("b", e), M("a", e)>>), Whole(<<M("a", d), M("a", e)>>),
   Whole(<<M("../c", d), M("b", d)>>)}
  \cup {[members |-> <<M("b", d)>>, torn |-> t] : t \in {"header", "a", "b"}}
\* File contents differ from path to path, or a file is missing.
MCFiles == {[p \in MCPaths |-> IF p = missing THEN None ELSE IF p = A THEN d ELSE e] :
              missing \in {A, LibA, <<>>}}
=============================================================================
