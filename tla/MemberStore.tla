------------------------------ MODULE MemberStore ------------------------------
(***************************************************************************)
(* What n65ar promises of an archive (archiver/README.md): r replaces the  *)
(* members that have the names of the given files and adds the files, q    *)
(* appends them, and nobody ever sees the archive in between.              *)
(***************************************************************************)
EXTENDS Naturals, Sequences

CONSTANTS
  None,      \* there is no archive
  Members,   \* what an archive may hold: name and data
  Batches    \* what one command may bring: sequences of members

VARIABLES
  store,     \* the members in their order, or None when there is no archive
  damaged    \* it is not a whole archive

Old == IF store = None THEN <<>> ELSE store
NamesOf(batch) == {batch[k].name : k \in DOMAIN batch}

\* What is left of the first i members without those of the given names.
Without(members, names) ==
  LET left[i \in 0 .. Len(members)] ==
        IF i = 0 THEN <<>>
        ELSE IF members[i].name \in names THEN left[i - 1] ELSE Append(left[i - 1], members[i])
  IN  left

Replace(batch) == store' = Without(Old, NamesOf(batch))[Len(Old)] \o batch
Add(batch) == store' = Old \o batch

Next == /\ ~damaged /\ UNCHANGED damaged
        /\ \E batch \in Batches : Replace(batch) \/ Add(batch)
Init == store \in Seq(Members) \cup {None} /\ damaged \in BOOLEAN
Spec == Init /\ [][Next]_<<store, damaged>>
=============================================================================
