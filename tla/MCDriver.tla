-------------------------------- MODULE MCDriver --------------------------------
(* Command lines of up to three files; the array of names has room for two at  *)
(* first, so that it grows at the third file and at the fifth.                 *)
EXTENDS Driver

MCInputs == UNION {[1 .. n -> Kinds] : n \in 1 .. 3}
C(mode, inputs, libs, nostdlib, dry) ==
  [mode |-> mode, inputs |-> inputs, libs |-> libs, nostdlib |-> nostdlib, dry |-> dry]
MCCommands ==
  {C(mode, inputs, <<>>, FALSE, dry) : mode \in {"link", "-c", "-S"}, inputs \in MCInputs, dry \in BOOLEAN}
  \cup {C("link", <<"obj", "n", "n">>, libs, nostdlib, FALSE) :
          libs \in {<<"found">>, <<"found", "found">>, <<"found", "missing">>}, nostdlib \in BOOLEAN}
=============================================================================
