--------------------------------- MODULE Driver ---------------------------------
(***************************************************************************)
(* The driver (driver/n65driver.c): it runs the compiler, the assembler    *)
(* and the linker over the files of its command line, with temporary files *)
(* between them, and removes those at the end.                             *)
(*                                                                         *)
(* The names of the temporary files are in an array that grows             *)
(* (temp_store_t); the driver goes on with pointers into it.  A pointer is *)
(* the block that the array was in and an index.  Growing may move the     *)
(* array, and nobody knows what a pointer into the old block then says.    *)
(***************************************************************************)
EXTENDS Naturals, Sequences, FiniteSets, SequencesExt

CONSTANTS
  Commands,   \* command lines
  FirstCap,   \* room in the array when it is first made (8)
  Unknown     \* what memory holds that was given back

Kinds == {"n", "asm", "obj", "arc"}
CommandLines == [mode: {"link", "-c", "-S"}, inputs: Seq(Kinds), libs: Seq({"found", "missing"}),
                 nostdlib: BOOLEAN, dry: BOOLEAN]

\* parse_args refuses a command line without inputs.
ASSUME CommandsAssumption == \A c \in Commands : c \in CommandLines /\ c.inputs # <<>>
ASSUME FirstCapAssumption == FirstCap \in Nat \ {0}

\* The files: of an input, or of the program.
Names == [kind: {"input", "temp.s", "temp.o65", "named.s", "named.o65", "lib", "nlib", "hex"},
          of: Nat]
ASSUME UnknownAssumption == Unknown \notin Names

VARIABLES
  cmd,       \* opt
  pc,        \* where main is
  at,        \* i of main
  items,     \* temps.items: the temporary files, each with what it is for
  cap,       \* temps.cap
  block,     \* the block the array is in; blocks before it are given back
  asm, obj,  \* asm_path and obj_path
  links,     \* link_inputs, copied strings
  disk,      \* the temporary files that exist
  ran,       \* what was run, and on what
  status     \* exit status, or none as long as the driver runs

vars == <<cmd, pc, at, items, cap, block, asm, obj, links, disk, ran, status>>

\* Files: the input i itself, its assembly, its object; made by the driver or named
\* after the input.
File(kind, i) == [kind |-> kind, of |-> i]
Kind == cmd.inputs[at]
Running == status = "none"

Init ==
  /\ cmd \in Commands
  /\ pc = "input" /\ at = 1
  /\ items = <<>> /\ cap = 0 /\ block = 0
  /\ asm = <<>> /\ obj = <<>> /\ links = <<>>
  /\ disk = {} /\ ran = <<>> /\ status = "none"

Exit(s) == status' = s /\ UNCHANGED <<cmd, at, items, cap, block, asm, obj, links, disk>>
NextInput == pc' = "input" /\ at' = at + 1

\* Mutant: the last name of the array.
ReadLast(p) == items[Len(items)]
\* What a pointer says now.
Read(p) == IF p[1] = block THEN items[p[2]] ELSE Unknown

-----------------------------------------------------------------------------
\* temp_store_make_file and temp_store_add: the array is doubled when it is full,
\* and may have to move.
Grown == IF Len(items) < cap THEN cap ELSE IF cap = 0 THEN FirstCap ELSE 2 * cap
MakeFile(f) ==
  /\ items' = Append(items, f)
  /\ disk' = disk \cup {f}
  /\ cap' = Grown
  /\ block' \in IF Grown = cap THEN {block} ELSE {block, block + 1}

\* The head of the loop: the files an input needs, by mode and kind.
Refuse ==
  /\ Running /\ pc = "input" /\ at <= Len(cmd.inputs)
  /\ \/ cmd.mode = "-S" /\ Kind # "n"
     \/ cmd.mode = "-c" /\ Kind \in {"obj", "arc"}
  /\ Exit("1") /\ UNCHANGED <<pc, ran>>

MakeAsm ==
  /\ Running /\ pc = "input" /\ at <= Len(cmd.inputs)
  /\ Kind = "n" /\ cmd.mode # "-S"
  /\ MakeFile(File("temp.s", at))
  /\ asm' = <<block', Len(items')>>
  /\ pc' = IF cmd.mode = "-c" THEN "cc" ELSE "object"
  /\ UNCHANGED <<cmd, at, obj, links, ran, status>>

MakeObject ==
  /\ Running /\ cmd.mode = "link"
  /\ \/ pc = "object"
     \/ pc = "input" /\ at <= Len(cmd.inputs) /\ Kind = "asm"
  /\ MakeFile(File("temp.o65", at))
  /\ obj' = <<block', Len(items')>>
  /\ pc' = IF Kind = "n" THEN "cc" ELSE "as"
  /\ UNCHANGED <<cmd, at, asm, links, ran, status>>

\* Without files to make: -S compiles, -c assembles to a file named after the input.
Direct ==
  /\ Running /\ pc = "input" /\ at <= Len(cmd.inputs)
  /\ \/ cmd.mode = "-S" /\ Kind = "n" /\ pc' = "cc"
     \/ cmd.mode = "-c" /\ Kind = "asm" /\ pc' = "as"
  /\ UNCHANGED <<cmd, at, items, cap, block, asm, obj, links, disk, ran, status>>

\* Mutant: an object comes before what there is.
PassFirst ==
  /\ Running /\ pc = "input" /\ at <= Len(cmd.inputs)
  /\ cmd.mode = "link" /\ Kind \in {"obj", "arc"}
  /\ links' = <<File("input", at)>> \o links
  /\ NextInput
  /\ UNCHANGED <<cmd, items, cap, block, asm, obj, disk, ran, status>>

Pass ==
  /\ Running /\ pc = "input" /\ at <= Len(cmd.inputs)
  /\ cmd.mode = "link" /\ Kind \in {"obj", "arc"}
  /\ links' = Append(links, File("input", at))
  /\ NextInput
  /\ UNCHANGED <<cmd, items, cap, block, asm, obj, disk, ran, status>>

-----------------------------------------------------------------------------
\* run_vec_or_die: a tool that does not succeed ends the driver, at once.  A dry
\* run runs nothing.
Tool(name, from, to) == [tool |-> name, from |-> from, to |-> to]
Ends(t) == /\ ran' = IF cmd.dry THEN ran ELSE Append(ran, t)
           /\ ~cmd.dry
           /\ Exit("tool") /\ UNCHANGED pc

Compile ==
  /\ Running /\ pc = "cc"
  /\ LET t == Tool("n65cc", <<File("input", at)>>,
                   IF cmd.mode = "-S" THEN File("named.s", at) ELSE Read(asm))
     IN  \/ /\ ran' = IF cmd.dry THEN ran ELSE Append(ran, t)
            /\ IF cmd.mode = "-S" THEN NextInput ELSE pc' = "as" /\ UNCHANGED at
            /\ UNCHANGED <<cmd, items, cap, block, asm, obj, links, disk, status>>
         \/ Ends(t)

Assemble ==
  /\ Running /\ pc = "as"
  /\ LET to == IF cmd.mode = "-c" THEN File("named.o65", at) ELSE Read(obj)
         t == Tool("n65asm", <<IF Kind = "n" THEN Read(asm) ELSE File("input", at)>>, to)
     IN  \/ /\ ran' = IF cmd.dry THEN ran ELSE Append(ran, t)
            /\ links' = IF cmd.mode = "link" THEN Append(links, Read(obj)) ELSE links
            /\ NextInput
            /\ UNCHANGED <<cmd, items, cap, block, asm, obj, disk, status>>
         \/ Ends(t)

EndInputs ==
  /\ Running /\ pc = "input" /\ at > Len(cmd.inputs)
  /\ pc' = IF cmd.mode = "link" THEN "ld" ELSE "cleanup"
  /\ UNCHANGED <<cmd, at, items, cap, block, asm, obj, links, disk, ran, status>>

\* run_ld: the inputs, the libraries, and the default library last.
Libraries == [k \in DOMAIN cmd.libs |-> File("lib", k)]
             \o (IF cmd.nostdlib THEN <<>> ELSE <<File("nlib", 0)>>)
Link ==
  /\ Running /\ pc = "ld"
  /\ LET t == Tool("n65ld", links \o Libraries, File("hex", 0))
     IN  \/ /\ \E k \in DOMAIN cmd.libs : cmd.libs[k] = "missing"
            /\ Exit("1") /\ UNCHANGED <<pc, ran>>
         \/ /\ \A k \in DOMAIN cmd.libs : cmd.libs[k] = "found"
            /\ \/ /\ ran' = IF cmd.dry THEN ran ELSE Append(ran, t)
                  /\ pc' = "cleanup"
                  /\ UNCHANGED <<cmd, at, items, cap, block, asm, obj, links, disk, status>>
               \/ Ends(t)

\* Mutant: the loop stops before the first file.
RemovedButFirst == {items[k] : k \in 2 .. Len(items)}
Removed == ToSet(items)

\* temp_store_cleanup, at the end of main only.
Cleanup ==
  /\ Running /\ pc = "cleanup"
  /\ disk' = disk \ Removed
  /\ status' = "0"
  /\ UNCHANGED <<cmd, pc, at, items, cap, block, asm, obj, links, ran>>

Next == \/ Refuse \/ MakeAsm \/ MakeObject \/ Direct \/ Pass \/ Compile \/ Assemble
        \/ EndInputs \/ Link \/ Cleanup

\* The driver runs on, and so do the tools.
Spec == Init /\ [][Next]_vars /\ WF_vars(Next)

-----------------------------------------------------------------------------
Files == Names \cup {Unknown}
ToolRuns == [tool: {"n65cc", "n65asm", "n65ld"}, from: Seq(Files), to: Files]
Pointers == {<<>>} \cup (Nat \X (Nat \ {0}))

\* The state variables hold what the C variables can hold.
TypeOK ==
  /\ cmd \in Commands
  /\ pc \in {"input", "object", "cc", "as", "ld", "cleanup"}
  /\ at \in 1 .. Len(cmd.inputs) + 1
  /\ items \in Seq(Files) /\ cap \in Nat /\ Len(items) <= cap
  /\ block \in Nat
  /\ asm \in Pointers /\ obj \in Pointers
  /\ links \in Seq(Files)
  /\ disk \subseteq Files
  /\ ran \in Seq(ToolRuns)
  /\ status \in {"none", "0", "1", "tool"}

\* The array is full after the first temporary file of an input that has two.
TempsBefore(c, i) == 2 * Cardinality({j \in 1 .. i - 1 : c.inputs[j] = "n"})
                     + Cardinality({j \in 1 .. i - 1 : c.inputs[j] = "asm"})
GrowsBetween(c) ==
  c.mode = "link" /\ \E i \in DOMAIN c.inputs, k \in 0 .. Len(c.inputs) :
                        c.inputs[i] = "n" /\ TempsBefore(c, i) + 1 = FirstCap * 2 ^ k

Temps == {"temp.s", "temp.o65"}
Writers(f, k) == {j \in 1 .. k - 1 : ran[j].to = f}

\* No tool reads a temporary file that an earlier tool has not written for it, nor
\* one of another input; none is written twice.
FlowSound ==
  ~GrowsBetween(cmd) =>
    \A k \in DOMAIN ran :
      /\ \A f \in ToSet(ran[k].from) :
           /\ f # Unknown
           /\ f.kind \in Temps => /\ Cardinality(Writers(f, k)) = 1
                                  /\ \A j \in Writers(f, k) : ran[j].from[1].of = f.of
      /\ ran[k].to # Unknown /\ Writers(ran[k].to, k) = {}

\* Success means that everything was built: the file named after each input, or the
\* program, linked from one object or archive for each input in the order of the
\* command line (the linker's choice depends on it), the libraries, and the default
\* library last.
AllBuilt ==
  status = "0" /\ ~cmd.dry /\ ~GrowsBetween(cmd) =>
    LET outputs == {ran[k].to : k \in DOMAIN ran}
        inputs == DOMAIN cmd.inputs
    IN  /\ cmd.mode = "-S" => outputs = {File("named.s", i) : i \in inputs}
        /\ cmd.mode = "-c" => {File("named.o65", i) : i \in inputs} \subseteq outputs
        /\ cmd.mode = "link" =>
             /\ ran[Len(ran)].tool = "n65ld"
             /\ ran[Len(ran)].from =
                  [i \in inputs |->
                     File(IF cmd.inputs[i] \in {"n", "asm"} THEN "temp.o65" ELSE "input", i)]
                  \o Libraries

\* The driver ends, and leaves no temporary file unless something has failed.
EndsClean == <>[](~Running /\ (status = "0" => disk = {}))
=============================================================================
