# Verification of the n toolchain

TLA+ models, model-checking runs and machine-checked proofs for the *n*
toolchain: a compiler for the language n, an assembler, an archiver, a linker,
a driver, a simulator and run-time libraries for the 6502.

## 1. The system

| part | source | state it keeps | operations | how it is used |
|---|---|---|---|---|
| compiler `n65cc` | `compiler/` | syntax tree, symbol tables, call graph, metadata | parse, type, resolve overloads, generate | run by the driver; prints assembly |
| assembler `n65asm` | `assembler/` | statements with addresses and forms, segments, symbols | load, expand, pass loop, emit | writes hex or an o65 object |
| object writer | `assembler/o65.c` | packed segments, relocation lists | pack, write | its file is read by the linker |
| archiver `n65ar` | `archiver/n65ar.c` | the archive, `<archive>.tmp` | `r q t x` | its archive is read by the linker |
| linker `n65ld` | `linker/` | selected objects, call graph, region cursors, tables, image | select, check, place, relocate, write | writes a hex image |
| start-up code | `libraries/nlib/nrt0.s` | memory, zero-page registers | copy, clear, call | interprets tables of the linker |
| driver `n65driver` | `driver/n65driver.c` | table of temporary names | run tools in order | starts the other tools |
| simulator `n65sim` | `simulator/` | memory, registers, interrupt lines | load, step, interrupt, host call | runs hex images in tests |
| interrupt library | `libraries/nint/` | the 6502's stack | save, call, restore | linked into programs |
| libraries | `libraries/` | argument stack, break | arithmetic, `sprintf` | linked as archives |

The tools are sequential programs that talk through files, and most of what can
go wrong lies between them or in loops that run until nothing changes:

* the compiler computes, while it walks a tree, where the stack pointer of the
  running program will be; nothing in the output says whether it was right;
* it picks an overload by a table of costs, in a scan whose state (best, least,
  tie) depends on the order of declarations;
* it writes what it knows of types and calls into symbol names, and the linker,
  which knows nothing of the language, must find contradictions and cycles in them;
* the assembler chooses instruction sizes from addresses that depend on those
  sizes, pass after pass, and never takes a choice back;
* the assembler writes distances, packed offsets and halves of addresses that the
  linker must read in the same sense;
* the linker works through a worklist that grows while it is walked, over two
  kinds of definitions and an order that matters;
* the linker writes tables that a program in another language walks, byte by
  byte, before anything else runs;
* an archive is replaced while others read it, and a command may fail or be
  killed at any point;
* the driver holds pointers into an array that grows;
* an interrupt may come between any two instructions of a program, and a host
  call replaces an instruction of the program for a moment.

What makes each part correct, in a sentence: compiled code computes what the
program says and keeps the stack level; an overload that is chosen is the one
best candidate, and overloads have different symbols; a program is linked only
if its units agree and no function with parameters in storage of its own can be
entered again; relaxation reaches a fixpoint with legal, least forms and a layout
that agrees with them; relocations read back as recorded; the selection is the closure of
what is needed, and every import is bound once; blocks are disjoint and inside
their regions, and references land; start-up leaves every segment as the object
files say and writes nothing else; an archive is always a whole one; the driver
runs each tool on files that exist; the simulator starts exactly what the file
holds, adds exactly, and hides interrupts and host calls from the program.

PROJECT.json lists all components with their status, and under "hazards" the
places where the code can go wrong in ways a test hardly reaches.

## 2. Modules

| module | models | code |
|---|---|---|
| `Typing` | sizes, places and types of expressions | `compile_type.c`, `compile_expr_info.c`, `compile_declarator.c`, parts of `compile_function.c`, `compile_lvalue.c` |
| `Lowering` | code for expressions, conditions, calls | `compile_expr_slot.c`, `compile_expr_ops.c`, `compile_expr_flow.c`, `compile_call.c`, `compile_lvalue.c` |
| `Control` | code for statements and functions, linking of labels | `compile_stmt.c`, `compile_toplevel.c` |
| `Machine` | the machine that runs it: frames and runtime calls | what the compiler prints (`compile_support.c`, `compile_call.c`); the runtime library, from how it is called |
| `Meaning` | what a program means: the reference | `compiler/README.md` |
| `Supported` | the programs the code generator is right about | the lines that get the others wrong (section 3) |
| `Codegen` | compile, start, run | `compile.c` |
| `Overload` | declarations, ranking, symbols | `compile_overload.c`, parts of `compile_type.c` |
| `Fingerprint` | what a type looks like to the linker | `abi_meta.c` |
| `CallGraph` | Tarjan's walk, as both programs have it | `compile_function.c`, `n65ld.c` |
| `Contract` | records of a unit, the checks of the linker | `abi_meta.c`, `compile_function.c`, `n65ld.c`, `n65ld_abi.c` |
| `Agreement` | `Contract` with the records of `Fingerprint` | |
| `CompilerProofs` | theorems about `CallGraph`, `Contract` and `Overload` | |
| `AsmRelax` | passes, relaxation, emission | `asm_pass.c`, parts of `asm_state.c`, `o65.c`, `expr.c`, `ihex.c` |
| `AsmRelaxProofs` | theorems about `AsmRelax` | |
| `RelocTable` | relocations recorded, their table written and read | `o65.c:722-1111`, `n65ld_input.c:112-144` |
| `RelocTableProofs` | theorems about `RelocTable` | |
| `LinkSelect` | selection, globals, binding | `n65ld_input.c:541-709`, `n65ld.c:800-850, 1116-1220` |
| `SymbolClosure` | what the selection promises | `linker/README.md` |
| `LinkSelectProofs` | theorems about `LinkSelect` | |
| `LinkLayout` | placement, relocation, image | `n65ld.c:853-1345`, packing in `o65.c` |
| `LinkLayoutProofs` | theorems about `LinkLayout` and `Startup` | |
| `Startup` | the 6502 walking the linker's tables; extends `LinkLayout` | `nrt0.s` |
| `Archive` | the archiver, one writer and one reader | `n65ar.c` |
| `MemberStore` | what the archiver promises | `archiver/README.md` |
| `ArchiveProofs` | theorems about `Archive` | |
| `Driver` | the pipeline and the table of names | `n65driver.c` |
| `DriverProofs` | theorems about `Driver` | |
| `Sums` | the sum of a list of numbers | |
| `Cpu` | the 6502 core, all 256 opcodes | `mos6502.cpp` |
| `Simulator` | loader, main loop, host calls, interrupt lines; extends `Cpu` | `main.cpp` |
| `SimulatorProofs` | theorems about `Simulator` and `Cpu` | |
| `Nint` | the interrupt entries as programs of `Cpu` | `nrt0_int.s` |
| `MC...` | instances for TLC | |

`PROJECT.json` maps every definition to the lines it stands for.  Variables carry
the names of the C variables where TLA+ allows it; the comment beside each
VARIABLE names the one it stands for.

**Typing, Lowering, Control, Supported, Machine, Meaning, Codegen.** A program is a tree of
records, as the parser leaves it.  `Typing` fills in shapes and places.
`Lowering` follows `compile_expr_to_slot` and its kin path by path and emits
instructions that each stand for the group of 6502 instructions and the runtime
call the compiler prints together: `push`, `pop`, moves with conversion, operators
on frame offsets, calls.  What the compiler carries in its context, above all the
height of the frame (`ctx->locals`), is carried here, and offsets of temporaries
come from it.  `Control` adds statements, prologues and epilogues, and replaces
labels by places.  `Machine` executes the instructions on bytes: a callee finds
its parameters where the caller pushed them or not at all.  `Meaning` evaluates
the same tree without a stack, a frame or an address.  The compiler is an action
of the specification, the machine takes a step per instruction.  The operators
that walk trees are RECURSIVE, so that these modules are checked, not proved.
`Supported` says of a typed program whether the code generator is right about it:
`Right` is a conjunction of seven predicates, one for each thing it gets wrong, and a
run with `Restricted = TRUE` takes the programs for which it holds.

**Overload.** `Remember` adds a declaration, with the rules for redeclarations,
definitions and operators; `Ask` begins a call, `Consider` is one turn of the
resolver's loop over the candidates and `Answer` its end; `Designate` takes an
overload by the type of the function pointer it is assigned to.  The cost of an
argument is the code's table (`ArgumentCost`), the symbol its mangling (`Mangled`).
Its specification has names of its own (`ResolutionInit`, `ResolutionNext`,
`ResolutionSpec`), so that one module can extend it and `Contract`.

**CallGraph, Fingerprint, Contract, Agreement.** The compiler collects the calls of a
unit, a node when a function with a body begins (`CompileFunction`), an edge at each
call by name (`CompileCall`), walks them (`Analyze`), and refuses the unit or writes
its records (`EmitUnit`); the linker compares the ABI records, then the regions
(`ValidateAbi`, `ValidateRegions`), collects the calls of all objects, a symbol a step
(`Collect`), and walks them in the same way (`Enforce`, `Judge`).  The C function
recurses; `frames` is its call stack and a step looks at one edge.  What a type's
records hold is a constant of `Contract` (`RecordsOfFunction`, `RecordsOfGlobal`),
since neither walk nor linker looks into them; `Agreement` brings `Fingerprint`, which
gives them, and what the comparison is for.  A fingerprint is a tree instead of text:
what the text tells apart the tree tells apart.

**AsmRelax.** A statement is an index; a label is a statement without size, so an
expression names labels by index and a constant stands for the expression that
defines it.  `Gather`, `LayoutSized`, `LayoutOrg`, `LayoutRes` and `EndLayout` are
`asm_pass1` statement by statement, with the segment definitions at its head and
the exclusive-or signature around it; `Relax` is the second half of an iteration of
`asm_relax`, `Emit` a turn of `asm_pass2` or of the object writer.  The segments of
an object file all start at 0, and labels are offsets; what the writer then makes
of them is `Offset`, `LabelValue` and `EmitOK`.  Data directives are "bytes" of
some length; indexed operands relax as absolute ones do.

**RelocTable.** The emission of one o65 segment, the table written for it, and the
linker reading that table byte by byte.  A statement has a list of sites, the bytes of
it where something is relocated: any item of a `.byte` or `.word`, from its first byte
on, or the operand of an instruction.  A byte has `Byte` values, so that a skip
is six bytes long in the run and 254 in the code.

**LinkSelect.** Command-line objects and archive members form one sequence, as
`find_best_provider` walks them.  A symbol exported as `__weak_x` is the name
`<<"weak", x>>`.  `StartRound`, `Skip`, `Include` and `EndRound` are
`select_needed_objects`; `AddGlobals` to `Vectors` are the places that bind names
later, in the order of `main`.

**LinkLayout and Startup.** A link is a configuration and objects with named
segments, labels and references.  `PlaceObject`, `PlaceText`, `PlaceRun` and
`PlaceTables` are the loops of `layout_objects` with 16-bit cursors; `WriteObject`
and `WriteTables` relocate and write.  A reference is stored as the assembler
stores it (`Store`) and patched as the linker patches it (`Patch`), from packed
values through `MappedTo` (`find_layout_for_value`).  `Startup` takes the image as
memory and executes the loops of `nrt0.s`, one byte or record a step; unwritten
bytes hold the value `Byte`, which no program byte has.

**Archive.** A member is a name and contents; a damaged archive is its whole
members and what is torn behind them.  The writer and the reader take a step per
member, the writer can be refused any system call or be killed between any two,
and the reader goes on with the file it opened when the name is given to another.
A file whose extraction failed holds `Partial`; one whose last buffer `fclose`
could not write holds `Lost`, since nobody looks at the result of that `fclose`.

**Driver.** A pointer into the table of names is the block it points into and an
index; when the table grows the block may change, and a pointer into the old block
reads `Unknown`.

**Cpu, Simulator, Nint.** A machine is a record, and operators take it to the
machine after a call, so that decoding, addressing, arithmetic and interrupts can
be used by three actions: a step of the main loop, a line driven by the embedding
program between two instructions, and the host call at $FFFF with its planted RTS.
`held` is a history variable, what was interrupted and has not returned.  `Nint`
gives the entries of `nrt0_int.s` as bytes for the same processor.

### Abstract specifications

* `SymbolClosure`: starting from nothing, any object may be pulled in that has a
  missing symbol in the right kind, and it ends only when nothing can be.
  `LinkSelect` implements it with `chosen <- Sel, finished <- ~Selecting`
  (`SelectsClosure`, checked by TLC and proved).
* `MemberStore`: an archive goes in one step from members to members replaced or
  appended.  `Archive` implements it with the file under the archive's name
  (`StoresMembers`, checked by TLC and proved); `.tmp`, failures, kills and readers
  are stutters.
* `Meaning`: the value of every global at the end of a program, as a function of the
  tree and the input.  `Codegen` is compared with it at the halt (`ResultsRight`).

## 3. Runs

Runs that pass:

| run | instance | what it shows |
|---|---|---|
| `codegen` | 824 programs on 3 inputs, of which `Right` admits 622: 38 uses of an expression (assigned to each kind of place, index of an element read, written, compounded, stepped or through a pointer, statement, argument, operand, condition, result) with each of 21 expressions in it (calls, direct, nested and by pointer, elements, `++`, assignments, casts, comma, `?:`); every operator on one and two bytes, signed and not; conversions; pointers; all loops and labels; twelve ways out of a `switch`; recursive calls, static locals, references, parameters with symbols; 185 886 states | results are those of `Meaning` (`ResultsRight`), the stack pointer is at every call where the compiler thinks (`FrameAgrees`) and at every return where it was (`LevelOnReturn`), the code comes to its end (`Finishes`) |
| `overload` | up to 3 of 16 declarations of one name, in every order: integers of 1, 2, 4 and 8 bytes, pointers, arrays, refs, a variadic one, two parameters; 14 argument lists; 395 374 states | the answer is the least whatever the order (`AnswerIsLeast`), exact goes before converted and safe before unsafe, but for `Far` and `Overflows` below (`BestKindFirst`), one symbol per overload (`OneSymbolEach`) |
| `contract` | 4 800 programs of one or two units: call graphs in every direction between them, objects and functions of equal and unequal types, regions declared rightly and wrongly; 88 882 states | components are the strongly connected ones, what is linked is acyclic and agrees, what is refused has a cause |
| `asm_relax` | 6-7 statements, paddings around 128 and 256, one to three segments (two that shrink alike among them), hex and object; cap 12; 30 429 states | forms legal in every later layout (`ShortFormsFit`), least among all consistent choices (`LeastShortening`), stable addresses when the loop ends without a change (`StableLayout`), addresses only fall (`AddressesOnlyFall`), a fixpoint is reached (`ReachesFixpoint`) |
| `link_select` | a start-up object anywhere among two objects over two names with strong and weak definitions, or before three; vectors spread or missing; generated names taken; 78 033 states | closure complete and justified, order of definitions, refinement of `SymbolClosure`, termination |
| `link_boot` | 144 addresses, two configurations after `e2e_named_memory_regions` and `vcs_4k.cfg`, two objects with up to eight segments, 206 links, of which 39 are refused for want of room; 6 329 states | placement, relocation and image, then start-up to `main`, init functions in order |
| `reloc_table` | bytes of 8 values; instructions, long branches, `.byte` and `.word` of several items, from the first byte of the segment and from the one behind on; neighbours at distance 1, paddings of 0 to 14 bytes around skips of 6; word, half and import entries; a segment in two pieces, also one byte back; 36 312 states | the linker has always read a prefix of what was recorded, and at the end all |
| `archive` | 2 names, 3 paths, 9 first archives, 3 commands; 702 914 states | refinement of `MemberStore`, `.tmp` gone, a successful reader saw one whole archive |
| `driver` | all command lines of 1 to 3 inputs in all modes, room for 2 names at first; 6 149 states | data flow between the tools, completeness and order of the link, clean end |
| `simulator` | each opcode from 8 sets of registers, 1 936 sums and differences at the boundaries in both modes, a program under one IRQ and two NMIs at every instruction, printing and storing programs, every byte of a file damaged in three ways; 344 190 states | the loader, arithmetic, host calls; interrupts are invisible to the program, whose exit code they do not change |

Runs that find a violation, each a disagreement between the code and what the
repository says of it (PROJECT.json, "findings", has the details):

| run | the code does |
|---|---|
| `codegen_ref` | a `ref` parameter read by its name gives bytes of the pointer, in the very `swap` of `compiler/README.md:480-490` |
| `codegen_switch` | `continue` inside a `switch` leaves the switch's temporaries on the argument stack, once a turn |

The properties of the passing runs are stated for the inputs on which the code
works.  Each precondition stands for a divergence below or a documented limit:

* `Plain` (AsmRelax): no `.org` or `.res` by label and no segment behind another.
* `Anchored` (AsmRelax, `ReachesFixpoint`): no `.org` or `.res` goes by a label of a
  segment that starts behind another one.
* `InOrder` (RelocTable): relocations are recorded in the order of their places; a
  program that comes back to a named segment behind which it has packed another does not.
* `Separate` and `Sound` (LinkLayout).
* `InitsCallable` (Startup): no init label at the end of a segment or at address 0.
* `GrowsBetween` (Driver).
* `Far` and `Overflows` (Overload, `BestKindFirst`): an overload that may change a value
  can win when the other ones cost more than 100, and for a literal that no `int` holds.
  All other calls of the instance, literals and variadic ones too, are in the property.
* `Right` (Supported, `codegen`).  Whether the seven predicates say enough or too much can
  be seen by setting `Restricted` to FALSE and taking `ResultsRight`, `FrameAgrees` and
  `LevelOnReturn` one at a time: of the 824 programs, each of the 202 that are left out
  but ten breaks one of the three on some input, and none of the others does.  The ten
  compute an index twice that changes something, or may set what an index goes by, and come
  out right because the change is one that may be done twice (`i := 1`) or the index has
  the same value anyway.

Two more:
`TablesWhole` (LinkLayout, Startup) leaves out tables of 64K bytes (section 5), which no region
has room for when they are counted right, and `OwnBytes`, a part of `Sound`, says that
operands do not overlap, as the assembler emits them one after the other.  In
`link_boot` 167 links reach `main`, 55 of them with sound objects only; the others have
objects that are not and are still checked for placement and start-up.

### Divergences met while modelling

The models have these behaviours, and no property excludes them:

* `asm_pass.c:966`: relaxation judges an operand by the value of its label, in an
  object file an offset, so that a BSS label in the first 256 bytes gets a one-byte
  operand; `assembler/README.md:16` says "where legal".
* `o65.c:1102`: a program that comes back to a named segment has a negative distance
  in its relocation table, written modulo 256.
* `n65ld.c:985`: the label at the end of a segment is relocated to the start of the
  segment of its kind packed behind it, in whatever region that runs
  (`linker/README.md:155`).
* `n65ld.c:1201`: a LOW or HIGH relocation of an import plus a constant loses the
  constant (the compiler emits such operands, `compile_support.c:789`).
* `n65ld.c:1174`: a one-byte operand that names a zero-page label of its own object
  has a word relocation; the linker reads the next opcode as the high half.
* `n65driver.c:974`: with one `.s` input before four `.n` inputs the assembly file of
  the last is a name read from memory given back.
* `mos6502.cpp:1532`: an NMI edge while NMIs are inhibited is dropped;
  `mos6502.h:210-211` says an edge triggers an interrupt.  `n65sim` itself drives no
  line.
* `nrt0_int.s:15-17` speaks of the full machine state; the zero-page workspace of the
  runtime (`arg0`, `arg1`, `ptr0`..) is not saved.
* `compile_expr_flow.c:489-511`: the value of an expression statement lies in bytes that
  are pushed but not counted in `ctx->locals`, so that a call in it (`f(a) + 1;`,
  `a[f(i)]++;`, the step of a `for`, the left side of a comma) writes its arguments where
  the callee does not look, against `ABI.txt:3-12` (`StatementsCounted`; a call or an
  assignment by itself, and `a[f(i)];`, are right).
* `compile_expr_flow.c:926-936`: the target of a compound assignment is read after its
  temporaries are pushed and before they are counted (946-950): `a[f(i)] += 1`
  (`CompoundCounted`).
* `compile_expr_flow.c:549-560`: what is assigned to a symbol by name passes through bytes
  that are not pushed, so that a call in the index of the value (`r := b[f(k)]`, of another
  type) overwrites them, and `r := k++` takes the new value; when the types are equal
  `resolve_ref_argument_lvalue` (`compile_lvalue.c:169-181`) takes `k++` for `k`, and the
  step is not carried out (`SymbolsSafe`).
* The index in the target of `++` and of a compound assignment is computed once to read
  and once to write, and that of an assignment whose value is used once more: a side
  effect in it happens twice; and `k := a[k]++` has written `k` when it computes the place
  for the second time (`TargetsSteady`; a call of a function without side effects may be
  computed twice).
* `compile_call.c:359-361`: the scratch bytes of a parameter with a symbol lie above the
  return slot and the stack parameters, where the callee expects the end of the area
  (`ABI.txt:3,10-12`): a function that has both returns into the wrong bytes
  (`ScratchAlone`).
* `compile_expr_slot.c:472`: the name of a `ref` parameter gives its pointer
  (`RefsReadElsewhere`; run `codegen_ref`).
* `compile_stmt.c:1066-1070`: only the end of a `switch` and a break of it pop what it
  pushed.  `continue` (389), `return` (1082-1098), `goto` and labelled `break` out of it
  jump past, against `ABI.txt:40-42` (`SwitchesEnd`; run `codegen_switch`).
* Sizes of pushes are printed `& 0xff`: a frame, or the arguments of a call, of 256 bytes
  and more is pushed modulo 256 (`compile_call.c:365`).  (Not in the model, whose frames
  are small.)
* `compile_overload.c:310-325`: a change of sign at the same width costs 96 to 101,
  promotion 32 and 16 a byte.  So `f(s1)` is chosen over `f(s8)` for a `u1`, `f(s4)`
  and `f(s8)` tie for a `u4`, and one argument that changes its sign beats two that
  are promoted; `compiler/README.md:469` speaks of exact matches and safe promotions
  (`Far`).
* `compile_overload.c:289-293`, `compile_expr_info.c:165-172`: a literal is an `int`
  whatever its value, and costs 1 with every type that holds every `int`.  `f(100000)`
  with `f(int)` and `f(s4)` binds `f(int)` at cost 1, and the value is cut, against the
  safe promotions of `compiler/README.md:454,469` (`Overflows`).
* `compile_overload.c:552-575`: overloads that differ only in the bounds of an array
  have one symbol.
* `abi_meta.c:243`: the bounds of arrays are compared as text, `10` and `0x0A` differ.
* `abi_meta.c:520-530`: an array of function pointers has the record of a plain function
  pointer, bounds and all left out.  (Not in the instance, whose function pointers are
  plain.)
* `compile_expr_flow.c:338-347`: two pointers are compared at the size of what they
  point to.  (Not in the model, whose comparisons are of integers.)
* A weak definition that came with another object satisfies a symbol for which an
  archive has a strong one (`n65ld_input.c:696`), against `linker/README.md:193`;
  `linker/README.md:66-78` lists generated symbols that `add_generated_symbols` does
  not make.
* A program whose `.org` or `.res` depends on labels can have a form that is no
  longer legal when the layout is stable; the assembler then reports an error
  (never silently in hex mode).  After 50 passes it goes on with an unstable
  layout, although `assembler/README.md:225` speaks of "the stable pass": a segment whose
  length goes by a label of the segment that starts behind it is pushed further by every
  pass, and all 50 are used (`Anchored`).

### Bounds, and why they are enough

* `codegen`: a frame offset is wrong or right whatever the values are.  The family has a
  temporary of each kind around each other one: a call, an element, a change or a
  conversion in an operand, in an index, in the target of an assignment, in a condition,
  an argument and a result.  Calls are counted, and all that an expression can change is
  among the results.  Indexes are 0 or 1, and no expression changes what is read beside
  it, since the order of evaluation is the compiler's own.  Three inputs take both ways of
  each condition.  Memory is 161 bytes; none of the programs admitted reads beyond it.
* `overload`: a tie and its end need three candidates; the costs in the table differ
  with size, sign, byte order and kind of argument, and the declarations and
  arguments have each of these on both sides of 96.
* `contract`: a cycle that neither unit sees needs two units; three functions give
  components of one, two and three with edges between them.
* `asm_relax`: a branch's decision depends on the bytes between it and its target;
  with two branches, an operand and two paddings each decision can enable or be
  enabled by each other one, one or two passes later, and the paddings take the
  values on both sides of each threshold.  The cap is 12 instead of 50:
  `ReachesFixpoint` is asked of programs with at most four branches and operands
  (`PassesNeeded`), and one that never converges reaches the cap as well.
* `link_select`: rounds matter when an object included late needs something an
  earlier one had or lacks; three objects and two names give every such pattern,
  mutual imports included.
* `link_boot`: a byte of 12 values makes addresses two digits and 144 of them;
  segments are a few bytes, so that blocks can touch, be empty, fill a region
  exactly or be one byte too long (code of 25 to 33 bytes and BSS of 13 to 16 do
  that).
* `reloc_table`: only differences modulo a byte matter; paddings go past two skips, and
  the first relocation is at each offset from 0 on.
* `archive`: three commands let a writer run after a killed one while a reader is
  at work.
* `driver`: the table grows at the third and fifth name, within one input or
  between two.
* `simulator`: opcodes are run alone, so that each is seen from registers at the
  boundaries; the interrupted program has both modes, a subroutine, a BRK and a
  host call, and an NMI can come inside the handler of an IRQ.

Caps that are not in the code, or smaller: `MaxPass` (AsmRelax, 50 in the code),
`MaxCommands` (Archive), `MaxOverloads` (Overload),
and in Simulator `fuel`, `irqs` and `nmis` of a scenario.

### Fairness

The tools are sequential: weak fairness of the next step in `AsmRelax`,
`LinkSelect`, `Driver` and `Codegen` (of the machine) says only that a process that
can go on does (and, in `Driver`, that the tools it starts end).  In `Startup` only
the processor's steps are fair; nothing says that anyone runs the linker.
`Archive` states no fairness and no liveness: commands may be killed.  The
simulator, the contract, overloads and relocation tables state safety only.
Deadlock is not checked where the program ends; `Codegen` and `Contract` stay at
their end by a step of their own, and are checked for deadlock.

## 4. Theorems

Proved for every value of the constants, from the named assumptions on them:

`AsmRelaxProofs` (assumptions `ProgramsAssumption`: programs are well formed;
`MaxPassAssumption`: the cap is positive)
* `TypeCorrect`: `Spec => []TypeOK`.
* `ShortFormsStayLegal`: `Spec => []ShortFormsFit`.
* `AddressesNeverRise`: `Spec => AddressesOnlyFall`.
* `LayoutIsStable`: `Spec => []StableLayout`, also for programs with `.org` and `.res`.
* `ShorteningIsLeast`: `Spec => []LeastShortening`.

`ShortFormsFit` is not inductive: it speaks of finished layouts, and during a pass
addresses are half new, half old.  The inductive invariant `IInv` says that a
finished layout is in order (no statement overlaps the next of its segment,
`Spaced`) and legal; and, during a layout, that the part already placed is in
order, that the layout has reached no further than the old address of any
statement still to come (`PartialOld`), and that for every short branch the new
distance up to here and the old distance from here on add up to at most its reach
(`PartialFar`).  It is kept because sizes only ever fall.

`LayoutIsStable` needs another invariant (`TouchInv`), of any program: of the part laid
out so far, neighbours in a segment touch and the last one ends where the layout is;
a pass that changes no form leaves that true.  `ShorteningIsLeast` is an argument about
a fixed point: the layout that `LeastShortening` refers to is a sum over the
statements, `Laid` says that the addresses of a finished layout are that sum, and
`LeastSoFar` that every `Closed` choice of short forms has what is short by now.  A
statement is shortened only if it fits; with more statements short it would still fit
(`FitsWith` is monotone, because distances fall with sizes), so a closed choice has it.

`LinkSelectProofs` (assumptions `RootsAssumption`, `InputsAssumption`)
* `TypeCorrect`: `Spec => []TypeOK`.
* `SelectionComplete`: `Spec => []NothingMissed`.
* `SelectionJustified`: `Spec => []EachForAReason`.
* `SelectionRefines`: `Spec => SelectsClosure`.
* `BindingUnambiguous`: `Spec => []Bound`.

The invariant says that `wanted` holds exactly the roots and the imports of the
selected objects, that `needed` holds nothing else (and all of it as long as the
round made no progress), and that then every name before `at` is on offer or
exported by no input at all (`SeenSoFar`).
The last part survives an inclusion because what is on offer stays on offer; it
yields `NothingMissed` when a round ends without progress.
`BindingUnambiguous` counts what is entered: no name of the table is there twice
(`Unique`), all names of the objects before `at` are in it, and all imports of the
objects before `at` were found in it.

`CompilerProofs` (assumptions `ProgramsAssumption`: the functions of a unit have a name
each and call functions of their unit; `MemoryAssumption`: an area ends below the top;
`DeclarationsAssumption` and `CostAssumption`, of `Overload`)
* `ComponentsHold`: `Spec => []ComponentsRight`.
* `RefusalsHold`: `Spec => []RefusedForCause`, and `AcceptedHold`:
  `Spec => []AcceptedAcyclic`.
* `RegionsHold`: `Spec => []RegionsAgree`, a part of `AcceptedAgree`.
* `TypeHolds`: `Spec => []TypeOK`, and `LinkHolds`: `Spec => []LinkInv`.
* `LeastWins`: `ResolutionSpec => []AnswerIsLeast`, for every set of declarations and
  calls.
* `SymbolsDiffer`: `ResolutionSpec => []OneSymbolEach`.

That a depth-first walk with one stack finds the strongly connected components is
Tarjan's theorem; here it is proved of the loop the two programs share, for every graph.
When a node is finished its component is what lies above it on the stack, and the
verdict is right if that is all that is reached and reaches back.  `WalkInv` says, while
functions are still being visited: the nodes on the stack are numbered in its order
(`Numbered`, `Stacked`), the nested calls are a path (`Nested`), a finished node leads
only to numbered ones (`Explored`), a nested call reaches every node behind it on the stack,
and each of these reaches a nested call that was begun no later (`Connected`).  Of a
lowlink it says that it is the number of a node on the stack that is reached
(`LowReached`) and is not above any that an edge looked at so far leads to
(`LowBounds`).  A node whose lowlink is its own number therefore leads nowhere below
itself, so what is above it is one component (`Mutual`).  The arguments about paths go
by a set that is closed under the edges: what is reached from a node is the least such
set (`FromLeast`), which replaces an induction over paths.

`LinkInv` carries that to programs.  It says at every stage which graph is being walked:
while a unit is compiled, the nodes and edges are those of the functions and calls
behind `at` and `call` (`UnitGraph`); what has been exported names each compiled function
that is marked and each call by name, and nothing else (`ExportRight`); what the linker
has collected is what the records before `unit` and `at` say (`ReadGraph`).  When it
enforces, the graph is that of the whole program, with names for functions
(`WholeGraph`), and a cycle in it is a cycle of calls: names may run two static
functions together, so that an accepted program is acyclic in the finer sense and a
refused one has a cycle in the coarser, which is what the two properties say.

The resolver keeps one candidate and one flag.  That the flag means "another one is
as cheap" can only be kept if the invariant speaks of all candidates behind the scan:
`Scanned` says that `best` is a cheapest of them, `least` its cost, and `tie` that
there is another of that cost.  `OneMore` proves that a turn of the loop keeps it,
for any sequence of costs, and is cited with the costs of the declarations.
`SymbolsDiffer` rests on `SymbolTellsSignature`: from a symbol everything can be read
back that tells two signatures apart, except the bounds of arrays; the table never
holds two entries of one signature.

`LinkLayoutProofs` (assumptions `ByteAssumption`, and `LinksAssumption`: objects and
configurations are well formed)
* `PlacesApart`: `Spec => []BlocksDisjoint`, for any number of objects, of any size.
* `CursorsCount`: `Spec => []CountInv`, and `FailsOnlyWhenFull`: `Spec => []OverflowIffFull`.
* `WalkIsOnTrack`: `MachineSpec => []BInv`, and `StartupStaysInData`:
  `MachineSpec => StartupConfined`.
* `StartupDoes`: `MachineSpec => []ReadyInv`, and `MainFindsItsMemory`:
  `MachineSpec => []ReadyForMain`.
* `ReferencesAreRight`: `MachineSpec => []ReferencesLand`.

The invariant `IInv` says of the blocks placed so far (`SoFar`) that they pack: each
lies in its region below the region's cursor, and two of one region are apart; of
the cursors, that they stay in their regions, and in ROM below the vectors.
`AdvanceKeeps` shows that a 16-bit cursor then never wraps, and `PackMore` that
what `alloc_from_region` hands out packs with the rest; both speak of any set of
blocks, so that each loop of `layout_objects` only says which blocks it adds.  Blocks
of different regions are apart because the regions are (`Separate`).  The proof
brought to light that regions must not be empty: with `DATA` in a region of size 0
at address 0, `__stack_top` is `$FFFF` and the arena is all memory
(`n65ld.c:1113`), so `Separate` says so.  `FlattenIsSeq` shows that the recursion
behind a buffer's length has a value.

That the linker fails only when a region is full needs to know what a cursor counts.
`Demand` is a sum over all places of what each needs in a region, in an order that is
not the one of the linker's loops; `CountInv` says that a cursor is the start of its
region plus the sum over the places done so far, and that there are as many records as
those have data and BSS.  A refused block makes that sum, and so the whole `Demand`,
larger than the region.  The other direction has a premise: a table of 64K bytes or
more is counted as what is left of it in 16 bits (`n65ld.c:1098`), so that a link may
succeed although it does not fit (`TablesCounted`).

The start-up code is right to trust the tables, and the proof says why.  `RecInv`: each
record names the place and size of one placed segment, none is made for an empty one,
and none is of size 0, which would be read as the end.  `TablesWritten`: after
`build_rom_image` the words of the tables are in the image; what is written last
(init table, vectors) does not touch them, because the blocks are apart.  `BInv` adds
where the code is: at the start of a record, or within the bytes of the segment of a
record.  That a store leaves the tables alone (`TablesStay`) is `PlacesApart` again:
tables and segments are blocks, and a byte of one is no byte of the other, so that the
walk cannot corrupt what it still has to read.  The premise `TablesWhole` is the 16-bit
count again.

That main finds its memory right is that nothing is forgotten and nothing undone.
`CompleteInv` is the converse of `RecInv`: each segment placed so far whose bytes must
move or be cleared has its record, with its addresses, and no other has one.
`ImageInv` says that the image holds the relocated buffers of the objects written so
far: the load blocks are apart from each other and from the tables (`LoadsApart`), so
that `PutOutside` leaves the earlier ones alone; once linked it stays true because the
start-up code stores only into bytes of run blocks (`ByteInRun`), which are apart from
all load blocks (`RunsApart`).  `DoneInv` follows the start-up code: at every label, the
rows of the tables before `ptr0` are done, of the row at `ptr0` the bytes before
`arg0` are (`CopyProgress`, `ZeroProgress`), and the init functions called are those
before `ptr0` (`InitProgress`).  A copied row stays copied because no later store goes to
where it runs or to where it came from (`CopiesApart`).  With `DoneInv` at `main`, `ReadyIsReady` puts
the three together: what is copied from the load image is the relocated buffer.  The
init functions need a premise of their own, `InitsCallable`: a label at the end of a
segment is relocated to the next one (section 3), and a function at address 0 would end
the table.

That the relocated buffer is itself right is `ReferencesAreRight`.  The buffers are made
by two recursions over the references of an object, one of the assembler and one of the
linker, and each is followed by least counterexample: `StoredCarries` says that in the
object file every operand holds what the assembler knew (`Carries`), `RelocatedLands`
that after k turns of `apply_segment_relocs` the first k operands hold the address
(`Landed`) and the others still what the assembler left.  A turn disturbs no other operand because each has
bytes of its own (`OwnBytes`, part of `Sound`); a one-byte import is read and written as
two bytes, and the second is written back as it was (`TargetRight`).  A local label is
found in its own segment (`OwnerIsSegment`), provided that its packed address fits into
16 bits.  The linker does not check that; it follows from the placement:
everything that shares a packed base has its own place in the 64K of memory, and disjoint
intervals are no longer together than what they lie in (`ApartFits`, `PackedFits`).
`OkInv` adds that an object in the image is one whose references could all be patched.

`RelocTableProofs` (assumptions `ByteAssumption`, `ProgramsAssumption`)
* `RelocTyped`: `Spec => []TypeOK`, and `TableReadsBack`: `Spec => []ReadsBack`.

The reader does not know where an entry begins except by having read those before it,
so the proof needs to know, while the writer writes, which positions the reader will
come through.  The invariant says that there is a set of places, from the first to
where the writer is, with a skip or an entry at each that leads to another one of the
set (`Written`); writing appends, so it keeps what is there (`FollowsOn`).  Nothing is
computed from the file, and no induction is needed: the reader is at a place of the
set and steps to a place of the set (`Ready`).

`DriverProofs` (assumptions `CommandsAssumption`, `FirstCapAssumption`,
`UnknownAssumption`)
* `DriverTyped`: `Spec => []TypeOK`.
* `FlowIsSound`: `Spec => []FlowSound`, and `SuccessMeansBuilt`: `Spec => []AllBuilt`.

A pointer into the array is good as long as the array is where it was (`Held`).  The
array is as long as the inputs before this one need, plus the files made for this one
(`CountInv`), and its capacity is the first one doubled some times (`CapInv`); so it
can only move between the two files of an input if the number of files before is one
below such a capacity, which is `GrowsBetween`.  `RanInv` says of the runs what they
were run on, that no file was written twice, and that an assembler's temporary input
was written before.

`ArchiveProofs` (assumptions `PathsAssumption`, `ArgsAssumption`, `FirstAssumption`,
`MaxAssumption`, and `NoneAssumption`: no file is not a file)
* `TypeCorrect`: `Spec => []TypeOK`.
* `CleansUp`: `Spec => NoTmpLeft`.
* `StoreRefines`: `Spec => StoresMembers`, the archiver implements `MemberStore`
  whatever call is refused and whoever is killed.
* `ReadsAreWhole`: `Spec => []ReadsWholeArchive`.

A rename puts the right archive in place only if `.tmp` was right all along.  The
invariant `IInv` says that a writer in its loops holds in `old` what is under the
archive's name, and that `.tmp` is what the command takes over of the members copied
so far, followed by a batch named after the files added so far.  The batch is said
to exist rather than computed from the files, since a reader that extracts may change
a file after it was added.  `MemberStore` leaves members out by a recursive function;
that the recursion defines one for every length is `LeftExists`, by least
counterexample.  `ReadsAreWhole` follows the reader: what it has in `old` was the whole
archive when it opened it, and each member before `at` that was asked for has been
shown, or is in its file if no later one of its name was reached.

`SimulatorProofs` (assumption `ScenariosAssumption`: images, files, registers and
counts are what they are called; nothing is said of the programs)
* `SimulatorTyped`: `Spec => []TypeOK`.
* `ArithmeticIsExact`: `Spec => ArithmeticExact`.

The core has a row for every byte, so every instruction is one that `Op` gives a
meaning to (`TableKnown`: each group of rows is read off, and together they cover the
256 bytes, `EveryByte`); each group of instructions keeps a machine a machine
(`OpTyped`), and so do interrupts, the host and the loader (`TypedAlways`).  This is
what makes the arithmetic theorem a statement about every program: where an `ADC` runs
its operand is a byte, whatever wrote it.  `AddExact` and `SubtractExact` split on the
mode.  In binary the sum is the accumulator plus 256 times the carry.  In decimal the
code corrects the lower digit, then the upper one; `DecimalSum` and
`DecimalDifference` follow the four cases of the two corrections, for packed decimal
operands.  What is left is to see that the registers after the step are those after
the instruction (`StepExact`): that no interrupt was taken before it is
`Serviced = m`, that none is taken behind it is `NothingTaken`, and the hook, if the
program is at $FFFF, answers without touching the accumulator or the flags
(`AnswerKeeps`, `LoopKeeps`).

Each module has a type invariant.  Those of `AsmRelax`, `LinkSelect`, `Archive`,
`RelocTable`, `Driver`, `Simulator` and `Contract` are proved; that of the layout is part of the invariant there.
The others are there for the reader.  No run lists one, since a value out of its range
shows in each of them as a property that fails or an expression that cannot be
evaluated.

Only model-checked, and why:
* all liveness (outside the prover);
* the properties of `codegen`: what the recursive operators of `Typing`, `Lowering` and
  `Meaning` compute is an induction over data;
* `AcceptedAgree`: that equal fingerprints mean equal layouts is an induction over types
  (`Fingerprint` is recursive); its part about regions is proved;
* `BestKindFirst`: it is not true of every set of functions.  Costs are added up over the
  arguments, and an exact argument costs 1 by value and 0 by ref; with several parameters
  the sum can favour the overload that is worse in one of them.  It is a statement about
  the declarations of the instance;
* `LoadsExactly`, `ExitRight`, `NotReentered`, `Transparent`: they speak of the programs
  and records that the instance gives the simulator;
* `HostCallReturns`: it holds of the instance's programs, whose stack does not wrap and
  whose image covers $FFFF; in a program with the stack pointer at 0 the frame that the
  jump to the hook pushes wraps and changes $01FF.

## 5. Not modelled, and limits

* The compiler's lexer, parser and numbers; of its code generation aggregates and
  initialisers (`compile_init.c`), bit-fields, big-endian and float types, variadic
  lists, absolute refs, overloaded operators, pointer differences, asm statements,
  declarations under labels or inside sections of a switch, constant folding
  (`expropt.c`) and the peephole pass (`emit.c`); type declarations.
* The runtime library's assembly (arithmetic helpers, `sprintf`, floats): `Machine`
  has its stack and integer helpers from how the compiler calls them.
* The assembler's front end (includes, conditionals, macros), scopes of
  `asm_state.c`, opcode tables and listing; the linker's configuration parser and
  its output formats; petiteffs and the Atari library.
* Of the simulator: cycle counts, tracing, options, configuration text, dumps.  An
  opcode the core does not know stops it, and the main loop then spins
  (`main.cpp:648`); the model ends there.
* Regions that end at $FFFF, or cover the vectors under another name than ROM, are
  outside the instances (cursor wrap, n65ld.c:939; vectors, n65ld.c:1338).
* The sizes of the linker's tables are 16-bit numbers (`n65ld.c:1098-1106`).  With more
  records than fit (16,383 for BSS) the table is larger than what was allocated for
  it; `LinkLayout` wraps the size, as the code does, and writes the whole table, and
  `ReadyForMain`, `ReferencesLand` and `OverflowIffFull` speak of links below that.
* Two archive writers at a time share one `.tmp` name; the model has one.
* A region of 64K bytes, a static function that has the name of another unit's
  (`n65ld.c:578` takes them for one node), and loops nested more than 128 deep
  (`compile_stmt.c:134`) are behaviour of the code that no property excludes.

## 6. Plan

Done: code generation for integers and pointers, overloads, the contract between
compiler and linker, the assembler's pass loop, relocation tables, selection,
layout and image, start-up, archiver, driver, simulator and interrupts.

Next, in this order:

1. Aggregates, initialisers and bit-fields in `Typing`, `Lowering` and `Meaning`;
   pointer comparison and difference.
2. `AsmSource`: includes, conditionals and macros of `source_loader.c`; `AsmScopes`:
   scopes and visibility of `asm_state.c`.
3. The argument stack and the integer helpers of the runtime library as programs of
   `Cpu`, shown to implement the instructions of `Machine`.
4. The peephole pass (`emit.c`) as a relation between instruction sequences.
