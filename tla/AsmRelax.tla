------------------------------- MODULE AsmRelax -------------------------------
(***************************************************************************)
(* The layout and relaxation loop of the assembler n65asm, and the         *)
(* emission that follows it (assembler/asm_pass.c, asm_state.c, o65.c).    *)
(*                                                                         *)
(* asm_relax repeats a pass: asm_pass1 lays the statements out one after   *)
(* the other with their current sizes, then every conditional branch that  *)
(* is in reach gets its two-byte form and every operand that fits in a     *)
(* byte its zero-page form.  It stops after a pass that changed nothing,   *)
(* or after MaxPass passes, and the statements are emitted at the          *)
(* addresses of the last layout in the forms chosen last.                  *)
(*                                                                         *)
(* A label is a statement that takes no room, so that an expression names  *)
(* a label by the index of its statement.  Constants (name = expr) are     *)
(* replaced by the expressions they stand for.                             *)
(* Segments are numbered in the order in which the statements come to      *)
(* them, which is the order build_layouts packs them in.                   *)
(***************************************************************************)
EXTENDS Integers, Sequences, FiniteSets, FiniteSetsExt

CONSTANTS
  Programs,   \* the parsed programs (program_ir_t) the assembler may be given
  MaxPass     \* how many passes asm_relax makes at most (50 in the code)

Kinds == {"bytes", "branch", "operand", "org", "res"}
Modes == {"EM_REL_LONG", "EM_REL", "EM_ABS", "EM_ZP", "none"}
SegIds == {"TEXT", "DATA", "BSS", "ZP"}

\* address(plus) - address(minus) + off; index 0 is "no label"; ext tells that
\* the expression is an imported name, and which kind of import.
Exprs == [plus: Nat, minus: Nat, off: Int, ext: {"no", "abs", "zp"}]

\* zp: the operand carries no mode specifier and its opcode has the encoding of
\* the zero-page family.  bytes: what a "bytes" statement takes.
Stmts == [kind: Kinds, seg: Nat, bytes: Nat, expr: Exprs, zp: BOOLEAN]

\* One .segmentdef: base is the constant "base", plus the end of segment
\* "after" (the symbol <name>_END) when after # 0.
SegDefs == [base: Nat, after: Nat, size: Nat, id: SegIds]

WellFormed(p) ==
  /\ p \in [o65: BOOLEAN, segs: Seq(SegDefs), stmts: Seq(Stmts)]
  /\ \A i \in DOMAIN p.stmts :
        /\ p.stmts[i].seg \in DOMAIN p.segs
        /\ p.stmts[i].expr.plus \in 0 .. Len(p.stmts)
        /\ p.stmts[i].expr.minus \in 0 .. Len(p.stmts)
  /\ \A s \in DOMAIN p.segs :
        /\ p.segs[s].after \in 0 .. Len(p.segs)
        /\ p.segs[s].after # 0 => p.segs[p.segs[s].after].after = 0

ASSUME ProgramsAssumption == \A p \in Programs : WellFormed(p)
ASSUME MaxPassAssumption == MaxPass \in Nat \ {0}

VARIABLES
  prog,        \* ctx->prog and the options that came with it
  phase,       \* where main and asm_relax are
  pass,        \* iter of asm_relax
  at,          \* the statement the layout or the emission is at
  base,        \* seg->base
  cap,         \* seg->size
  pc,          \* seg->pc
  used,        \* seg->used_size
  before,      \* segment_signature_before
  address,     \* stmt->address
  final_mode,  \* stmt->u.insn.final_mode
  changed,     \* changed of asm_relax
  errors       \* what asm_error and writer_error have reported

vars == <<prog, phase, pass, at, base, cap, pc, used, before, address,
          final_mode, changed, errors>>

N == Len(prog.stmts)
Stmt(i) == prog.stmts[i]
SegSet == DOMAIN prog.segs

SizeOf == [EM_REL_LONG |-> 5, EM_REL |-> 2, EM_ABS |-> 3, EM_ZP |-> 2, none |-> 0]

\* Bytes a statement takes in its current form (stmt->u.insn.size, or the
\* length of a data directive).
Size(i) == Stmt(i).bytes + SizeOf[final_mode[i]]

InitialMode(kind) == IF kind = "branch" THEN "EM_REL_LONG"
                     ELSE IF kind = "operand" THEN "EM_ABS" ELSE "none"

AddressOf(i) == IF i = 0 THEN 0 ELSE address[i]
Value(e) == AddressOf(e.plus) - AddressOf(e.minus) + e.off

\* A branch displacement counts from the end of the two-byte form.
Displacement(i) == Value(Stmt(i).expr) - (address[i] + 2)
InReach(d) == d >= -128 /\ d <= 127
IsByte(v) == v >= 0 /\ v <= 255

-----------------------------------------------------------------------------
Init ==
  /\ prog \in Programs
  /\ phase = "gather" /\ pass = 1 /\ at = 1
  /\ base = [s \in SegSet |-> 0]
  /\ cap = [s \in SegSet |-> 65536]
  /\ pc = [s \in SegSet |-> 0]
  /\ used = [s \in SegSet |-> 0]
  /\ before = {}
  /\ address = [i \in 1 .. N |-> 0]
  /\ final_mode = [i \in 1 .. N |-> InitialMode(Stmt(i).kind)]
  /\ changed = FALSE
  /\ errors = {}

\* The exclusive or over all segments of base, size << 1 and used_size << 2,
\* as the set of the bits that are set in it.
Bits(n) == {k \in 0 .. 19 : (n \div 2 ^ k) % 2 = 1}
Signature(b, c, u) ==
  {k \in 0 .. 19 :
     Cardinality({x \in SegSet \X {"base", "size", "used"} :
                    k \in Bits(IF x[2] = "base" THEN b[x[1]]
                              ELSE IF x[2] = "size" THEN 2 * c[x[1]]
                              ELSE 4 * u[x[1]])}) % 2 = 1}

\* What gather_segment_defs sets a base to, with the sizes of the last layout.
DefinedBase(s) ==
  LET d == prog.segs[s] IN
  d.base + (IF d.after = 0 THEN 0 ELSE prog.segs[d.after].base + used[d.after])

\* Mutant: the counters of the last pass are kept.
KeptPc == pc
\* asm_reset_segments.
ZeroPc == [s \in SegSet |-> 0]

\* The head of a pass: the signature, a fresh symbol table, all pcs at 0, and
\* the segment definitions unless an object file is written.
Gather ==
  /\ phase = "gather"
  /\ before' = Signature(base, cap, used)
  /\ pc' = ZeroPc
  /\ IF prog.o65
     THEN UNCHANGED <<base, cap>>
     ELSE /\ base' = [s \in SegSet |-> DefinedBase(s)]
          /\ cap' = [s \in SegSet |-> prog.segs[s].size]
  /\ at' = 1
  /\ phase' = "layout"
  /\ UNCHANGED <<prog, pass, used, address, final_mode, changed, errors>>

-----------------------------------------------------------------------------
\* asm_pass1, one statement: it is placed where its segment's pc stands.
Place(i) == address' = [address EXCEPT ![i] = base[Stmt(i).seg] + pc[Stmt(i).seg]]

\* In the first pass of a symbol table only the labels behind a statement (and
\* the label of the statement itself) are defined.
Resolved(i, e) == e.ext = "no" /\ e.plus <= i /\ e.minus <= i
ValueHere(i, e) ==
  LET here(j) == IF j = 0 THEN 0
                 ELSE IF j = i THEN base[Stmt(i).seg] + pc[Stmt(i).seg]
                 ELSE address[j]
  IN  here(e.plus) - here(e.minus) + e.off

\* The value of .org (from the segment's base) and .res is known and not negative.
Accepted(i, e, n) == Resolved(i, e) /\ n >= 0

AtStmt(kinds) == phase = "layout" /\ at <= N /\ Stmt(at).kind \in kinds

LayoutSized ==
  /\ AtStmt({"bytes", "branch", "operand"})
  /\ Place(at)
  /\ pc' = [pc EXCEPT ![Stmt(at).seg] = @ + Size(at)]
  /\ at' = at + 1
  /\ UNCHANGED <<prog, phase, pass, base, cap, used, before, final_mode,
                 changed, errors>>

\* .org moves the pc to an absolute address, never below the segment's base.
LayoutOrg ==
  /\ AtStmt({"org"})
  /\ Place(at)
  /\ LET e == Stmt(at).expr
         s == Stmt(at).seg
         new_pc == ValueHere(at, e) - base[s]
     IN  IF Accepted(at, e, new_pc)
         THEN pc' = [pc EXCEPT ![s] = new_pc] /\ UNCHANGED errors
         ELSE errors' = errors \cup {<<at, "org">>} /\ UNCHANGED pc
  /\ at' = at + 1
  /\ UNCHANGED <<prog, phase, pass, base, cap, used, before, final_mode, changed>>

\* .res reserves as many bytes as its expression is worth now.
LayoutRes ==
  /\ AtStmt({"res"})
  /\ Place(at)
  /\ LET e == Stmt(at).expr
         n == ValueHere(at, e)
     IN  IF Accepted(at, e, n)
         THEN pc' = [pc EXCEPT ![Stmt(at).seg] = @ + n] /\ UNCHANGED errors
         ELSE errors' = errors \cup {<<at, "res">>} /\ UNCHANGED pc
  /\ at' = at + 1
  /\ UNCHANGED <<prog, phase, pass, base, cap, used, before, final_mode, changed>>

\* The tail of asm_pass1, and the signature once more.
EndLayout ==
  /\ phase = "layout" /\ at > N
  /\ used' = pc
  /\ changed' = (before # Signature(base, cap, pc))
  /\ phase' = "relax"
  /\ UNCHANGED <<prog, pass, at, base, cap, pc, before, address, final_mode, errors>>

-----------------------------------------------------------------------------
\* Mutants: the value is not tested; only the labels behind a branch are looked at.
CanShortenUntested(i) ==
  final_mode[i] = "EM_REL_LONG" \/ (final_mode[i] = "EM_ABS" /\ Stmt(i).zp)
CanShortenBehind(i) ==
  /\ final_mode[i] = "EM_REL_LONG" /\ Stmt(i).expr.ext = "no"
  /\ Stmt(i).expr.plus <= i /\ InReach(Displacement(i))

\* insn_can_relax_long_branch, can_relax_to_zp_family and the value test.
CanShorten(i) ==
  LET e == Stmt(i).expr IN
  \/ /\ final_mode[i] = "EM_REL_LONG"
     /\ e.ext = "no"
     /\ InReach(Displacement(i))
  \/ /\ final_mode[i] = "EM_ABS"
     /\ Stmt(i).zp
     /\ \/ e.ext = "no" /\ IsByte(Value(e))
        \/ e.ext = "zp"

Shorter(m) == IF m = "EM_REL_LONG" THEN "EM_REL" ELSE "EM_ZP"

\* Mutant: a shortened statement does not count as a change, only a new layout.
RelaxUnmarked ==
  /\ phase = "relax"
  /\ final_mode' = [i \in 1 .. N |->
                      IF CanShorten(i) THEN Shorter(final_mode[i]) ELSE final_mode[i]]
  /\ changed' = changed
  /\ IF changed' /\ pass < MaxPass
     THEN phase' = "gather" /\ pass' = pass + 1
     ELSE phase' = "emit" /\ UNCHANGED pass
  /\ at' = 1
  /\ UNCHANGED <<prog, base, cap, pc, used, before, address, errors>>

\* Mutant: the form chosen is not compared with the one the statement has.
RelaxAgain ==
  /\ phase = "relax"
  /\ final_mode' = [i \in 1 .. N |->
                      IF CanShorten(i) THEN Shorter(final_mode[i]) ELSE final_mode[i]]
  /\ changed' = (changed \/ \E i \in 1 .. N : CanShorten(i) \/ final_mode[i] \in {"EM_REL", "EM_ZP"})
  /\ IF changed' /\ pass < MaxPass
     THEN phase' = "gather" /\ pass' = pass + 1
     ELSE phase' = "emit" /\ UNCHANGED pass
  /\ at' = 1
  /\ UNCHANGED <<prog, base, cap, pc, used, before, address, errors>>

\* The second half of a pass: every statement is judged against the layout just
\* made; another pass follows when anything changed and the cap allows it.
Relax ==
  /\ phase = "relax"
  /\ final_mode' = [i \in 1 .. N |->
                      IF CanShorten(i) THEN Shorter(final_mode[i]) ELSE final_mode[i]]
  /\ changed' = (changed \/ \E i \in 1 .. N : CanShorten(i))
  /\ IF changed' /\ pass < MaxPass
     THEN phase' = "gather" /\ pass' = pass + 1
     ELSE phase' = "emit" /\ UNCHANGED pass
  /\ at' = 1
  /\ UNCHANGED <<prog, base, cap, pc, used, before, address, errors>>

-----------------------------------------------------------------------------
\* Emission.  asm_pass2 writes at absolute addresses; the object writer packs
\* the named segments of one o65 segment behind each other (register_layout),
\* and keeps a load image of a zero-page segment that holds bytes among the data.
HasImage(s) == /\ prog.segs[s].id = "ZP"
               /\ \E i \in 1 .. N : Stmt(i).seg = s /\ Stmt(i).kind # "res" /\ Size(i) > 0
Room(s, S) == MapThenSumSet(LAMBDA t : used[t], {t \in S : t < s})
DataSegs == {t \in SegSet : prog.segs[t].id = "DATA" \/ HasImage(t)}
Packed(s) == Room(s, IF prog.segs[s].id = "DATA" THEN DataSegs
                     ELSE {t \in SegSet : prog.segs[t].id = prog.segs[s].id})
Image(s) == IF HasImage(s) THEN Room(s, DataSegs) ELSE Packed(s)

\* Where a statement is written, and what a label is worth to the emitter.
Offset(i) == IF prog.o65
             THEN Image(Stmt(i).seg) + address[i] - base[Stmt(i).seg]
             ELSE address[i]
LabelValue(i) == IF i = 0 THEN 0
                 ELSE IF prog.o65
                 THEN Packed(Stmt(i).seg) + address[i] - base[Stmt(i).seg]
                 ELSE address[i]
Target(e) == LabelValue(e.plus) - LabelValue(e.minus) + e.off
EmittedDisplacement(i) == Target(Stmt(i).expr) - (Offset(i) + 2)

\* What the statement writes must lie in the 64K of the image.
Emitted(i) == IF Stmt(i).kind = "res" THEN Value(Stmt(i).expr) ELSE Size(i)
InImage(i) == Emitted(i) > 0 => Offset(i) >= 0 /\ Offset(i) + Emitted(i) <= 65536

\* The object writer takes one relocatable term, added, and no branch out of the
\* o65 segment; asm_pass2 needs every name resolved.
ObjectExprOK(i) == Stmt(i).expr.minus = 0
SameObjectSegment(i) ==
  LET t == Stmt(i).expr.plus IN
  t # 0 => prog.segs[Stmt(t).seg].id = prog.segs[Stmt(i).seg].id

EmitOK(i) ==
  LET e == Stmt(i).expr
      m == final_mode[i]
  IN  /\ InImage(i)
      /\ Stmt(i).kind = "res" => e.ext = "no" /\ Value(e) >= 0
      /\ m = "EM_REL" => InReach(EmittedDisplacement(i))
      /\ m = "EM_REL" /\ prog.o65 => SameObjectSegment(i)
      /\ m = "EM_ZP" /\ ~prog.o65 => IsByte(Value(e))
      /\ m # "none" => IF prog.o65 THEN ObjectExprOK(i) ELSE e.ext = "no"

\* Statements the object writer leaves out of the file.
Silent(i) == prog.o65 /\ \/ prog.segs[Stmt(i).seg].id = "BSS"
                         \/ /\ prog.segs[Stmt(i).seg].id = "ZP"
                            /\ Stmt(i).kind = "res" /\ ~HasImage(Stmt(i).seg)

\* asm_pass2 goes on after an error, the object writer stops at the first one;
\* an object is only written when there was no error before.
Emit ==
  /\ phase = "emit" /\ at <= N
  /\ prog.o65 => errors = {}
  /\ errors' = IF Silent(at) \/ EmitOK(at) THEN errors
               ELSE errors \cup {<<at, "emit">>}
  /\ at' = at + 1
  /\ UNCHANGED <<prog, phase, pass, base, cap, pc, used, before, address,
                 final_mode, changed>>

Finish ==
  /\ phase = "emit"
  /\ at > N \/ (prog.o65 /\ errors # {})
  /\ phase' = "done"
  /\ UNCHANGED <<prog, pass, at, base, cap, pc, used, before, address,
                 final_mode, changed, errors>>

Next == \/ Gather \/ LayoutSized \/ LayoutOrg \/ LayoutRes \/ EndLayout
        \/ Relax \/ Emit \/ Finish

Spec == Init /\ [][Next]_vars
FairSpec == Spec /\ WF_vars(Next)

-----------------------------------------------------------------------------
\* The programs for which relaxation is only ever downhill: every segment starts
\* at a constant, no directive places or reserves by an expression, a branch goes
\* to a label of its own segment, and an operand is a label of any segment (plus a
\* constant that is not negative) or a number.
Plain(p) ==
  /\ \A s \in DOMAIN p.segs : p.segs[s].after = 0
  /\ \A i \in DOMAIN p.stmts :
       LET e == p.stmts[i].expr IN
       /\ p.stmts[i].kind \in {"bytes", "branch", "operand"}
       /\ p.stmts[i].kind = "branch" /\ e.ext = "no" =>
            /\ e.plus # 0 /\ e.minus = 0 /\ e.off = 0
            /\ p.stmts[e.plus].seg = p.stmts[i].seg
       /\ p.stmts[i].kind = "operand" => e.minus = 0 /\ e.off >= 0

LaidOut == phase \in {"relax", "emit", "done"}
Relaxed == phase \in {"emit", "done"}
Short(i) == final_mode[i] \in {"EM_REL", "EM_ZP"}
ShortSet == {i \in 1 .. N : Short(i)}

\* The state variables hold what the C variables can hold.
TypeOK ==
  /\ prog \in Programs
  /\ phase \in {"gather", "layout", "relax", "emit", "done"}
  /\ pass \in 1 .. MaxPass
  /\ at \in 1 .. N + 1
  /\ base \in [SegSet -> Nat]
  /\ cap \in [SegSet -> Nat]
  /\ pc \in [SegSet -> Nat]
  /\ used \in [SegSet -> Nat]
  /\ before \subseteq 0 .. 19
  /\ address \in [1 .. N -> Nat]
  /\ final_mode \in [1 .. N -> Modes]
  /\ changed \in BOOLEAN
  /\ errors \subseteq (1 .. N) \X {"org", "res", "emit"}

\* A shortened statement fits its form in the layout of this moment.
Legal(i) ==
  /\ final_mode[i] = "EM_REL" => InReach(Displacement(i))
  /\ final_mode[i] = "EM_ZP" /\ Stmt(i).expr.ext = "no" => IsByte(Value(Stmt(i).expr))

\* A statement in a shortened form still fits it at every later layout: the
\* branch is in reach and the operand is a byte, so that no decision of an
\* earlier pass of asm_relax has to be taken back (it never is).
ShortFormsFit == Plain(prog) /\ LaidOut => \A i \in 1 .. N : Legal(i)

\* Statement j comes after i in their segment.
Neighbours(i, j) == /\ i < j /\ Stmt(i).seg = Stmt(j).seg
                    /\ \A k \in i + 1 .. j - 1 : Stmt(k).seg # Stmt(i).seg
Touching ==
  \A i, j \in 1 .. N :
     Neighbours(i, j) /\ Stmt(i).kind \notin {"org", "res"} => address[j] = address[i] + Size(i)

\* When asm_relax leaves its loop because nothing changed, the addresses that
\* the emitter will use agree with the sizes it will write: neighbours in a
\* segment touch, neither overlapping nor leaving a hole.
StableLayout == Relaxed /\ ~changed => Touching

\* Reference: the layout in which exactly the statements of S are short (what the
\* first n statements fill of each segment, and where that leaves a statement), and
\* the statements that would fit their short form in it.
FormWith(S, i) == LET long == InitialMode(Stmt(i).kind) IN IF i \in S THEN Shorter(long) ELSE long
SizeWith(S, i) == Stmt(i).bytes + SizeOf[FormWith(S, i)]
FilledWith(S) ==
  LET filled[n \in 0 .. N] ==
        IF n = 0 THEN [s \in SegSet |-> 0]
        ELSE [s \in SegSet |-> filled[n - 1][s] + (IF Stmt(n).seg = s THEN SizeWith(S, n) ELSE 0)]
  IN  filled
AddressWith(S, i) == base[Stmt(i).seg] + FilledWith(S)[i - 1][Stmt(i).seg]
FitsWith(S, i) ==
  LET e == Stmt(i).expr
      v == e.off + (IF e.plus = 0 THEN 0 ELSE AddressWith(S, e.plus))
  IN  \/ Stmt(i).kind = "branch" /\ e.ext = "no" /\ InReach(v - (AddressWith(S, i) + 2))
      \/ Stmt(i).kind = "operand" /\ Stmt(i).zp /\ (e.ext = "zp" \/ (e.ext = "no" /\ IsByte(v)))
Closed(S) == \A i \in 1 .. N : FitsWith(S, i) => i \in S

\* The forms asm_relax settles on are the least ones consistent with their own
\* layout: what is left long does not fit, and no statement was shortened that a
\* consistent choice could have left long.
LeastShortening ==
  Plain(prog) /\ phase = "done" /\ ~changed =>
     /\ Closed(ShortSet)
     /\ \A S \in SUBSET {i \in 1 .. N : Stmt(i).kind \in {"branch", "operand"}} :
          Closed(S) => ShortSet \subseteq S

\* In a plain program a later layout never moves a statement to a higher address.
AddressesOnlyFall ==
  [][Plain(prog) /\ pass > 1 => \A i \in 1 .. N : address'[i] <= address[i]]_vars

\* No .org or .res goes by a label of a segment that starts behind another one:
\* a segment whose length followed from where the one behind it lies would be
\* pushed further by every pass.
Anchored(p) ==
  \A i \in DOMAIN p.stmts :
     p.stmts[i].kind \in {"org", "res"} =>
       \A j \in {p.stmts[i].expr.plus, p.stmts[i].expr.minus} \ {0} :
          p.segs[p.stmts[j].seg].after = 0

\* Nothing is left to do: no statement would be shortened in the layout it was
\* judged in, the addresses agree with the sizes, and the loop has seen it.
Settled == ~changed /\ Touching /\ \A i \in 1 .. N : ~CanShorten(i)

Shortenable == {i \in 1 .. N : Stmt(i).kind \in {"branch", "operand"}}
PassesNeeded == Cardinality(Shortenable) + Cardinality(Shortenable) + 3

\* asm_relax reaches a fixpoint, and leaves its loop for it, not for the cap on
\* the passes.  A pass that shortens something may be followed by one that only
\* moves the ends of segments, and the next by one that only moves the segments
\* behind them; then a pass finds the layout as it was.  So two passes for each
\* branch and operand and three more are enough.
ReachesFixpoint ==
  Anchored(prog) /\ PassesNeeded <= MaxPass => <>(phase = "done" /\ Settled)

-----------------------------------------------------------------------------
=============================================================================
