-------------------------------- MODULE Archive --------------------------------
(***************************************************************************)
(* The archiver (archiver/n65ar.c): one process that replaces or appends   *)
(* members (the writer) and one that lists or extracts them (the reader),  *)
(* on one archive and one directory, with failures of the file system and  *)
(* a writer that is killed.                                                *)
(*                                                                         *)
(* The writer makes the new archive in <archive>.tmp and renames it.  A    *)
(* file stays readable for who has opened it: rename gives the name to     *)
(* another file.  The name of .tmp is fixed and nothing locks it, so that  *)
(* two writers must not run at a time; they do not here.                   *)
(***************************************************************************)
EXTENDS Naturals, Sequences, FiniteSets, SequencesExt

CONSTANTS
  Names,       \* the last components of paths
  Suspicious,  \* names with a slash, which only archives made elsewhere hold
  Data,        \* contents of files
  None,        \* no such file
  Paths,       \* files: directory and name; Here is where extraction writes
  ArgLists,    \* the files, or members, that a command may name
  FirstArchives, FirstFiles,   \* what is there at the beginning
  MaxCommands  \* bound on the commands that are given

Here == "here"
ASSUME PathsAssumption == /\ \A path \in Paths : path[2] \in Names
                          /\ {Here} \X Names \subseteq Paths
                          /\ Names \cap Suspicious = {}
                          /\ {"no", "header"} \cap Names = {}

BaseName(path) == path[2]
Partial == "cut short"     \* what is left of a file whose writing failed
Lost == "lost at close"    \* the same, but fclose failed and nobody noticed
Contents == Data \cup {Partial, Lost}
Members == [name: Names \cup Suspicious, data: Contents]

\* An archive: its whole members, and what comes after them (torn): nothing, less
\* than a header, or the header and part of the payload of a last member.
Archives == [members: Seq(Members), torn: {"no", "header"} \cup Names]
Junk == [members |-> <<>>, torn |-> "magic"]   \* a file that is no archive

WriteOps == {"r", "q"}
ReadOps == {"t", "x"}
ASSUME ArgsAssumption == \A args \in ArgLists : args \in Seq(Paths) /\ args # <<>>
ASSUME FirstAssumption == /\ FirstArchives \subseteq {None, Junk} \cup Archives
                          /\ FirstFiles \subseteq [Paths -> Data \cup {None}]
ASSUME MaxAssumption == MaxCommands \in Nat
ASSUME NoneAssumption == None \notin Seq(Members) /\ None \notin Archives \cup {Junk}
Idle == [pc |-> "idle", op |-> "none", args |-> <<>>, old |-> <<>>, torn |-> "no", at |-> 1, status |-> 0]

VARIABLES
  archive,  \* what is there under the name of the archive
  tmp,      \* what is there under the name of .tmp: members, or None
  files,    \* the other files, by path
  writer,   \* pc, command line, open archive (old, torn), position, exit status
  reader,   \* the same
  printed,  \* what the reader has printed, or extracted
  given     \* how many commands have been given

vars == <<archive, tmp, files, writer, reader, printed, given>>

NameSet(args) == {BaseName(args[k]) : k \in DOMAIN args}
Running(p) == p.pc # "idle"

Init ==
  /\ archive \in FirstArchives
  /\ tmp = None
  /\ files \in FirstFiles
  /\ writer = Idle /\ reader = Idle
  /\ printed = <<>> /\ given = 0

-----------------------------------------------------------------------------
\* replace_archive and append_archive up to the loop.  The command ends before
\* .tmp is made when the archive is none, and also when .tmp cannot be opened.
Finish(status) == writer' = [Idle EXCEPT !.status = status]

\* Mutant: what is left in .tmp is kept.
OldTmp == IF tmp = None THEN <<>> ELSE tmp
\* fopen "wb" and the header.
NewTmp == <<>>

StartWriter ==
  /\ ~Running(writer) /\ given < MaxCommands
  /\ given' = given + 1
  /\ \E op \in WriteOps, args \in ArgLists :
       \/ Finish(1) /\ UNCHANGED tmp
       \/ /\ archive # Junk
          /\ tmp' = NewTmp
          /\ writer' = [Idle EXCEPT !.pc = "copy", !.op = op, !.args = args,
                          !.old = IF archive = None THEN <<>> ELSE archive.members,
                          !.torn = IF archive = None THEN "no" ELSE archive.torn]
  /\ UNCHANGED <<archive, files, reader, printed>>

\* One turn of the loop over the old members: r leaves out those that are given.
CopyMember ==
  /\ writer.pc = "copy" /\ writer.at <= Len(writer.old)
  /\ LET m == writer.old[writer.at] IN
     tmp' = IF writer.op = "r" /\ m.name \in NameSet(writer.args) THEN tmp ELSE Append(tmp, m)
  /\ writer' = [writer EXCEPT !.at = @ + 1]
  /\ UNCHANGED <<archive, files, reader, printed, given>>

\* Mutant: .tmp is left behind.
FailWithTmp == Finish(1) /\ UNCHANGED <<archive, tmp, files, reader, printed, given>>
\* cleanup with a status other than 0 removes .tmp.
Fail == tmp' = None /\ Finish(1) /\ UNCHANGED <<archive, files, reader, printed, given>>

CopyEnd ==
  /\ writer.pc = "copy" /\ writer.at > Len(writer.old)
  /\ \/ writer.torn # "no" /\ Fail
     \/ /\ writer.torn = "no"
        /\ writer' = [writer EXCEPT !.pc = "add", !.at = 1]
        /\ UNCHANGED <<archive, tmp, files, reader, printed, given>>

\* append_member_from_file.
AddFile ==
  /\ writer.pc = "add" /\ writer.at <= Len(writer.args)
  /\ LET path == writer.args[writer.at] IN
     \/ files[path] = None /\ Fail
     \/ /\ files[path] # None
        /\ tmp' = Append(tmp, [name |-> BaseName(path), data |-> files[path]])
        /\ writer' = [writer EXCEPT !.at = @ + 1]
        /\ UNCHANGED <<archive, files, reader, printed, given>>

\* cleanup with status 0.
Rename ==
  /\ writer.pc = "add" /\ writer.at > Len(writer.args)
  /\ archive' = [members |-> tmp, torn |-> "no"]
  /\ tmp' = None
  /\ Finish(0)
  /\ UNCHANGED <<files, reader, printed, given>>

\* A read, write, close or rename that the system refuses; and a writer that is killed.
SystemFails == Running(writer) /\ Fail
Killed == Running(writer) /\ Finish(137) /\ UNCHANGED <<archive, tmp, files, reader, printed, given>>

-----------------------------------------------------------------------------
\* list_archive and extract_archive; no arguments means every member.
StartReader ==
  /\ ~Running(reader) /\ given < MaxCommands
  /\ given' = given + 1
  /\ \E op \in ReadOps, args \in ArgLists \cup {<<>>} :
       reader' = IF archive \in {None, Junk} THEN [Idle EXCEPT !.status = 1]
                 ELSE [Idle EXCEPT !.pc = "read", !.op = op, !.args = args,
                         !.old = archive.members, !.torn = archive.torn]
  /\ printed' = <<>>
  /\ UNCHANGED <<archive, tmp, files, writer>>

Asked(name) == reader.args = <<>> \/ name \in NameSet(reader.args)
AtMember == reader.pc = "read" /\ reader.at <= Len(reader.old)
Entry == reader.old[reader.at]
\* Mutant: the status is lost.
EndReaderQuiet(status) == reader' = [reader EXCEPT !.pc = "idle"]
EndReader(status) == reader' = [reader EXCEPT !.pc = "idle", !.status = status]

ListMember ==
  /\ AtMember /\ reader.op = "t"
  /\ printed' = IF Asked(Entry.name) THEN Append(printed, Entry) ELSE printed
  /\ reader' = [reader EXCEPT !.at = @ + 1]
  /\ UNCHANGED <<archive, tmp, files, writer, given>>

SkipMember ==
  /\ AtMember /\ reader.op = "x" /\ ~Asked(Entry.name)
  /\ reader' = [reader EXCEPT !.at = @ + 1]
  /\ UNCHANGED <<archive, tmp, files, writer, printed, given>>

RefuseMember ==
  /\ AtMember /\ reader.op = "x" /\ Asked(Entry.name) /\ Entry.name \in Suspicious
  /\ EndReader(1)
  /\ UNCHANGED <<archive, tmp, files, writer, printed, given>>

\* fopen cuts the file that was there, copy_n_bytes fills it.
OpenMember ==
  /\ AtMember /\ reader.op = "x" /\ Asked(Entry.name) /\ Entry.name \notin Suspicious
  /\ files' = [files EXCEPT ![<<Here, Entry.name>>] = Partial]
  /\ reader' = [reader EXCEPT !.pc = "fill"]
  /\ UNCHANGED <<archive, tmp, writer, printed, given>>

\* What is then still in the buffer is written by fclose, whose result is ignored.
Flushed(m) == {m.data, Lost}
FillMember ==
  /\ reader.pc = "fill"
  /\ \E x \in Flushed(Entry) : files' = [files EXCEPT ![<<Here, Entry.name>>] = x]
  /\ printed' = Append(printed, Entry)
  /\ reader' = [reader EXCEPT !.pc = "read", !.at = @ + 1]
  /\ UNCHANGED <<archive, tmp, writer, given>>

\* A read, open or write that the system refuses.
ReaderFails ==
  /\ Running(reader) /\ EndReader(1)
  /\ UNCHANGED <<archive, tmp, files, writer, printed, given>>

\* Behind the last whole member.
ReadEnd ==
  /\ reader.pc = "read" /\ reader.at > Len(reader.old)
  /\ LET name == reader.torn
         headed == reader.torn \in Names /\ Asked(name)
     IN  /\ EndReader(IF reader.torn = "no" THEN 0 ELSE 1)
         /\ files' = IF headed /\ reader.op = "x" THEN [files EXCEPT ![<<Here, name>>] = Partial]
                     ELSE files
         /\ printed' = IF headed /\ reader.op = "t"
                       THEN Append(printed, [name |-> name, data |-> Partial]) ELSE printed
  /\ UNCHANGED <<archive, tmp, writer, given>>

Next == \/ StartWriter \/ CopyMember \/ CopyEnd \/ AddFile \/ Rename \/ SystemFails \/ Killed
        \/ StartReader \/ ListMember \/ SkipMember \/ RefuseMember \/ OpenMember \/ FillMember
        \/ ReaderFails \/ ReadEnd
Spec == Init /\ [][Next]_vars

-----------------------------------------------------------------------------
Processes == [pc: {"idle", "copy", "add", "read", "fill"}, op: WriteOps \cup ReadOps \cup {"none"},
              args: ArgLists \cup {<<>>}, old: Seq(Members),
              torn: {"no", "header"} \cup Names, at: Nat \ {0}, status: {0, 1, 137}]

NotAsked == {name \in Names \cup Suspicious : ~Asked(name)}

\* The state variables hold what the archiver's variables and files can hold.
TypeOK ==
  /\ archive \in {None, Junk} \cup Archives
  /\ tmp \in {None} \cup Seq(Members)
  /\ files \in [Paths -> Contents \cup {None}]
  /\ writer \in Processes /\ writer.pc \in {"idle", "copy", "add"}
  /\ reader \in Processes /\ reader.pc \in {"idle", "read", "fill"}
  /\ printed \in Seq(Members)
  /\ given \in 0 .. MaxCommands

Store == INSTANCE MemberStore WITH
           Members <- Members,
           Batches <- UNION {[DOMAIN args -> [name : Names, data : Contents]] : args \in ArgLists},
           store <- IF archive = None THEN None ELSE archive.members,
           damaged <- archive # None /\ archive.torn # "no"
\* Whatever fails, whoever is killed and whatever an earlier command left behind,
\* the archive under its name only ever goes from one whole archive to the next,
\* which has the members the command was to replace or append; one that is
\* damaged is left as it is.
StoresMembers == Store!Spec

\* A command that has begun and ends in any way but being killed leaves no .tmp
\* behind, not even that of an earlier command that was killed.
NoTmpLeft ==
  [][Running(writer) /\ ~Running(writer') /\ writer'.status # 137 => tmp' = None]_vars

\* An extraction that reports success has left, for every name that was asked for,
\* the data of the last member of that name (or what fclose made of it); a listing
\* shows every such member.  The archive is the one that was there when the command
\* began, even if it has been replaced since; it was whole.
ReadsWholeArchive ==
  ~Running(reader) /\ reader.status = 0 =>
    /\ reader.torn = "no"
    /\ reader.op # "none" =>
         printed = Store!Without(reader.old, NotAsked)[Len(reader.old)]
    /\ reader.op = "x" =>
         \A k \in DOMAIN reader.old :
            LET m == reader.old[k] IN
            Asked(m.name) /\ (\A j \in k + 1 .. Len(reader.old) : reader.old[j].name # m.name)
              => files[<<Here, m.name>>] \in Flushed(m)
=============================================================================
