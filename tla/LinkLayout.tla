------------------------------ MODULE LinkLayout ------------------------------
(***************************************************************************)
(* The linker's placement of the selected objects in memory, relocation,   *)
(* and the image (linker/n65ld.c, layout_objects to build_rom_image), on   *)
(* objects packed as the assembler packs them (assembler/o65.c,            *)
(* register_layout and maybe_add_expr_reloc).                              *)
(*                                                                         *)
(* A label is a named segment of an object and an offset in it, a          *)
(* reference a place in such a segment that holds (part of) the value of a *)
(* label plus a constant.  A byte has Byte values (256 in the code) and    *)
(* addresses have two bytes, so that the address space can be made small.  *)
(***************************************************************************)
EXTENDS Integers, Sequences, FiniteSets, FiniteSetsExt, SequencesExt, Sums

CONSTANTS
  Byte,    \* 256
  Links    \* configurations with the objects to link

ASSUME ByteAssumption == Byte \in Nat /\ Byte >= 3

Space == Byte * Byte     \* 0x10000
VectorTable == Space - 6 \* 0xFFFA
SegIds == {"TEXT", "DATA", "BSS", "ZP"}

\* region: what follows the dot in the name of the segment (DATA.region), or "".
Segments == [segid: SegIds, size: Nat, bytes: Seq(0 .. Byte - 1), region: STRING]
Labels == [obj: Nat, seg: Nat, off: Nat]
References == [seg: Nat, off: Nat, width: {1, 2}, part: {"WORD", "LOW", "HIGH"},
               to: Labels, plus: Nat]

IsLabel(l, x) == /\ x.obj \in DOMAIN l.objects
                 /\ x.seg \in DOMAIN l.objects[x.obj].segs
                 /\ x.off <= l.objects[x.obj].segs[x.seg].size

\* A configuration without a region ROM ends the link (build_rom_image).
WellFormed(l) ==
  /\ "ROM" \in DOMAIN l.mem
  /\ \A r \in DOMAIN l.mem : l.mem[r].start \in 0 .. Space - 1 /\ l.mem[r].size \in 0 .. Space - 1
  /\ l.objects \in Seq([segs: Seq(Segments) \ {<<>>}, refs: Seq(References)])
  /\ \A i \in DOMAIN l.objects :
       LET o == l.objects[i] IN
       /\ \A k \in DOMAIN o.segs :
            LET s == o.segs[k] IN
            /\ s.size < Space
            /\ s.segid \in {"TEXT", "DATA"} => Len(s.bytes) = s.size
            /\ s.segid = "ZP" => Len(s.bytes) \in {0, s.size}
            /\ s.segid = "BSS" => s.bytes = <<>>
       /\ \A n \in DOMAIN o.refs :
            LET r == o.refs[n] IN
            /\ IsLabel(l, r.to)
            /\ r.width = 2 => r.part = "WORD"
            /\ r.seg \in DOMAIN o.segs /\ r.off + r.width <= Len(o.segs[r.seg].bytes)
  /\ l.inits \in Seq(Labels)
  /\ \A n \in DOMAIN l.inits : IsLabel(l, l.inits[n])
  /\ IsLabel(l, l.nmi) /\ IsLabel(l, l.reset) /\ IsLabel(l, l.irqbrk)

ASSUME LinksAssumption == \A l \in Links : WellFormed(l)

VARIABLES
  link,          \* cfg and in->objects
  phase,         \* where main is
  at, lay,       \* i and j of layout_objects; the object that is relocated
  cur,           \* cursors[].cur of each region
  text_load,     \* obj->place_text_load
  data_load,     \* obj->place_data_load
  load_addr,     \* lay->load_addr
  run_addr,      \* lay->run_addr
  copy_records,  \* <<load, run, size>>
  zero_records,  \* <<run, size>>
  table,         \* where the copy, zero and init tables are
  stack,         \* stack_start and stack_top
  image          \* what build_rom_image has written; Byte where it has not

vars == <<link, phase, at, lay, cur, text_load, data_load, load_addr, run_addr,
          copy_records, zero_records, table, stack, image>>

Objs == DOMAIN link.objects
SegsOf(i) == link.objects[i].segs
Places == UNION {{<<i, k>> : k \in DOMAIN SegsOf(i)} : i \in Objs}

-----------------------------------------------------------------------------
\* The assembler's register_layout: which buffer of the object file holds the
\* bytes of a segment, and where in its o65 segment and in that buffer it starts.
ImageSeg(s) == IF s.segid \in {"TEXT", "DATA"} THEN s.segid
               ELSE IF s.segid = "ZP" /\ s.bytes # <<>> THEN "DATA" ELSE s.segid
Behind(segs, k, Sel(_)) ==
  Total([j \in DOMAIN segs |-> IF Sel(segs[j]) THEN segs[j].size ELSE 0], k - 1)
ImageBase(segs, k) == Behind(segs, k, LAMBDA s : ImageSeg(s) = ImageSeg(segs[k]))
PackedBase(segs, k) ==
  Behind(segs, k, LAMBDA s : IF segs[k].segid = "ZP" THEN s.segid = "ZP"
                                                      ELSE ImageSeg(s) = ImageSeg(segs[k]))
Buffer(segs, b) ==
  FlattenSeq([k \in DOMAIN segs |-> IF ImageSeg(segs[k]) = b THEN segs[k].bytes ELSE <<>>])
Length(segs, b) == Len(Buffer(segs, b))

-----------------------------------------------------------------------------
Init ==
  /\ link \in Links
  /\ phase = "config" /\ at = 1 /\ lay = 0
  /\ cur = [r \in DOMAIN link.mem |-> link.mem[r].start]
  /\ text_load = [i \in Objs |-> 0] /\ data_load = [i \in Objs |-> 0]
  /\ load_addr = [p \in Places |-> 0] /\ run_addr = [p \in Places |-> 0]
  /\ copy_records = <<>> /\ zero_records = <<>>
  /\ table = [copy |-> 0, zero |-> 0, init |-> 0]
  /\ stack = [start |-> 0, top |-> 0]
  /\ image = [a \in 0 .. Space - 1 |-> Byte]

\* The head of layout_objects: the regions the rules name must exist.
CheckConfig ==
  /\ phase = "config"
  /\ phase' = IF {link.code_load, link.data_load, link.run["DATA"], link.run["BSS"], link.run["ZP"]}
                  \subseteq DOMAIN link.mem
              THEN "place" ELSE "overflow"
  /\ UNCHANGED <<link, at, lay, cur, text_load, data_load, load_addr, run_addr,
                 copy_records, zero_records, table, stack, image>>

\* alloc_from_region.  The cursor is a 16-bit number.
EndOf(r) == link.mem[r].start + link.mem[r].size
\* Mutants: the vectors are not kept free; a region is never filled up.
RoomOverVectors(c, r, n) == r \in DOMAIN link.mem /\ c[r] + n <= EndOf(r)
RoomToSpare(c, r, n) ==
  /\ r \in DOMAIN link.mem
  /\ c[r] + n < EndOf(r)
  /\ r = "ROM" => c[r] + n <= VectorTable
Room(c, r, n) ==
  /\ r \in DOMAIN link.mem
  /\ c[r] + n <= Space
  /\ c[r] + n <= EndOf(r)
  /\ r = "ROM" => c[r] + n <= VectorTable
Advance(c, r, n) == [c EXCEPT ![r] = (@ + n) % Space]

\* The head of the loop over the objects: text, then the load image of the data.
PlaceObject ==
  /\ phase = "place" /\ at \in Objs /\ lay = 0
  /\ LET n == Length(SegsOf(at), "TEXT")
         m == Length(SegsOf(at), "DATA")
         c == Advance(cur, link.code_load, n)
     IN  IF Room(cur, link.code_load, n) /\ Room(c, link.data_load, m)
         THEN /\ text_load' = [text_load EXCEPT ![at] = cur[link.code_load]]
              /\ data_load' = [data_load EXCEPT ![at] = c[link.data_load]]
              /\ cur' = Advance(c, link.data_load, m)
              /\ lay' = 1
              /\ UNCHANGED phase
         ELSE phase' = "overflow" /\ UNCHANGED <<text_load, data_load, cur, lay>>
  /\ UNCHANGED <<link, at, load_addr, run_addr, copy_records, zero_records, table, stack, image>>

\* object_layout_load_addr.
LoadAddr(i, k) ==
  LET s == SegsOf(i)[k] IN
  IF ImageSeg(s) = "TEXT" THEN (text_load[i] + ImageBase(SegsOf(i), k)) % Space
  ELSE IF ImageSeg(s) = "DATA" THEN (data_load[i] + ImageBase(SegsOf(i), k)) % Space
  ELSE 0

\* The region a segment runs in: its suffix, or what the rule of its kind says.
RunRegion(s) == IF s.region # "" THEN s.region ELSE link.run[s.segid]

\* The next segment of the object, or the next object.
NextSegment == IF lay = Len(SegsOf(at)) THEN at' = at + 1 /\ lay' = 0
                                        ELSE lay' = lay + 1 /\ UNCHANGED at

\* A TEXT segment runs where it is loaded.
PlaceText ==
  /\ phase = "place" /\ at \in Objs /\ lay # 0 /\ SegsOf(at)[lay].segid = "TEXT"
  /\ load_addr' = [load_addr EXCEPT ![<<at, lay>>] = LoadAddr(at, lay)]
  /\ run_addr' = [run_addr EXCEPT ![<<at, lay>>] = LoadAddr(at, lay)]
  /\ NextSegment
  /\ UNCHANGED <<link, phase, cur, text_load, data_load, copy_records, zero_records,
                 table, stack, image>>

\* Mutant: everything without an image is cleared.
ClearedAll(s) == s.size > 0 /\ s.bytes = <<>>
Cleared(s) == s.size > 0 /\ s.segid = "BSS"

\* Any other gets room in its run region, and a record for the start-up code:
\* what has an image is copied, BSS is cleared, the rest is left alone.
PlaceRun ==
  /\ phase = "place" /\ at \in Objs /\ lay # 0 /\ SegsOf(at)[lay].segid # "TEXT"
  /\ LET s == SegsOf(at)[lay]
         r == RunRegion(s)
     IN  IF Room(cur, r, s.size)
         THEN /\ load_addr' = [load_addr EXCEPT ![<<at, lay>>] = LoadAddr(at, lay)]
              /\ run_addr' = [run_addr EXCEPT ![<<at, lay>>] = cur[r]]
              /\ cur' = Advance(cur, r, s.size)
              /\ copy_records' = IF s.size > 0 /\ ImageSeg(s) = "DATA"
                                 THEN Append(copy_records, <<LoadAddr(at, lay), cur[r], s.size>>)
                                 ELSE copy_records
              /\ zero_records' = IF Cleared(s)
                                 THEN Append(zero_records, <<cur[r], s.size>>)
                                 ELSE zero_records
              /\ NextSegment
              /\ UNCHANGED phase
         ELSE /\ phase' = "overflow"
              /\ UNCHANGED <<load_addr, run_addr, cur, copy_records, zero_records, at, lay>>
  /\ UNCHANGED <<link, text_load, data_load, table, stack, image>>

\* 16-bit numbers.
CopyTableSize == (6 * (Len(copy_records) + 1)) % Space
ZeroTableSize == (4 * (Len(zero_records) + 1)) % Space
InitTableSize == (2 * (Len(link.inits) + 1)) % Space

\* The arena of the stack is what is left of the region DATA runs in.
ArenaOf(c) == [start |-> c[link.run["DATA"]], top |-> (EndOf(link.run["DATA"]) - 1) % Space]

\* The three tables follow the last data image.
PlaceTables ==
  /\ phase = "place" /\ at \notin Objs
  /\ LET r == link.data_load
         c == Advance(cur, r, CopyTableSize)
         d == Advance(c, r, ZeroTableSize)
     IN  IF /\ Room(cur, r, CopyTableSize)
            /\ Room(c, r, ZeroTableSize)
            /\ Room(d, r, InitTableSize)
         THEN /\ table' = [copy |-> cur[r], zero |-> c[r], init |-> d[r]]
              /\ cur' = Advance(d, r, InitTableSize)
              /\ stack' = ArenaOf(cur')
              /\ phase' = "write" /\ at' = 1
         ELSE phase' = "overflow" /\ UNCHANGED <<table, cur, stack, at>>
  /\ UNCHANGED <<link, lay, text_load, data_load, load_addr, run_addr, copy_records,
                 zero_records, image>>

-----------------------------------------------------------------------------
\* Mutant: a value at the end of a segment belongs to it.
OwnerEarlier(segs, base, segid, v) ==
  LET around == {k \in DOMAIN segs : segs[k].segid = segid /\ base[k] <= v /\ v <= base[k] + segs[k].size}
  IN  IF around # {} THEN Min(around) ELSE 0

\* The first segment that has the value inside, else the last one that ends there,
\* else none (0).
Owner(segs, base, segid, v) ==
  LET of == {k \in DOMAIN segs : segs[k].segid = segid}
      inside == {k \in of : base[k] <= v /\ v < base[k] + segs[k].size}
      ending == {k \in of : v = base[k] + segs[k].size}
  IN  IF inside # {} THEN Min(inside) ELSE IF ending # {} THEN Max(ending) ELSE 0

\* find_layout_for_value.
MappedTo(i, segid, v) ==
  Owner(SegsOf(i), [k \in DOMAIN SegsOf(i) |-> PackedBase(SegsOf(i), k)], segid, v)

\* object_runtime_addr_for_value, with the segment that was found.
BaseAddr(i, k) == IF SegsOf(i)[k].segid = "TEXT" THEN load_addr[<<i, k>>] ELSE run_addr[<<i, k>>]
AddrIn(i, k, v) == (BaseAddr(i, k) + v - PackedBase(SegsOf(i), k)) % Space
RuntimeAddr(i, segid, v) == AddrIn(i, MappedTo(i, segid, v), v)

\* What the object file says of a label: its o65 segment and its packed value.
SegIdOf(l) == SegsOf(l.obj)[l.seg].segid
PackedValue(l) == PackedBase(SegsOf(l.obj), l.seg) + l.off
\* The value add_global is given for an exported label.
Global(l) == RuntimeAddr(l.obj, SegIdOf(l), PackedValue(l))

Low(v) == v % Byte
High(v) == (v \div Byte) % Byte

\* The assembler leaves in the code what it knows: the packed value of a label of
\* its own, or the constant that is added to an import.
Known(i, r) == (IF r.to.obj = i THEN PackedValue(r.to) + r.plus ELSE r.plus) % Space
RefPos(i, r) == ImageBase(SegsOf(i), r.seg) + r.off + 1
StoreAt(buf, r, p, known) ==
  LET low == [buf EXCEPT ![p] = IF r.part = "HIGH" THEN High(known) ELSE Low(known)]
  IN  IF r.width = 2 THEN [low EXCEPT ![p + 1] = High(known)] ELSE low
Store(i, buf, r) == StoreAt(buf, r, RefPos(i, r), Known(i, r))

\* current_word: a WORD relocation reads two bytes, however many the operand has;
\* LOW and HIGH take the other half of a value from the relocation entry (aux_low).
Found(buf, r, p, known) ==
  IF r.part = "WORD" THEN buf[p] + Byte * buf[p + 1]
  ELSE IF r.part = "LOW" THEN buf[p] + Byte * High(known)
  ELSE Low(known) + Byte * buf[p]

\* An import takes what was found as a constant, for WORD relocations only.
Target(i, r, found) ==
  IF r.to.obj = i THEN RuntimeAddr(i, SegIdOf(r.to), found)
  ELSE (Global(r.to) + (IF r.part = "WORD" THEN found ELSE 0)) % Space

Patched(buf, r, p, target) ==
  IF r.part = "WORD" THEN [buf EXCEPT ![p] = Low(target), ![p + 1] = High(target)]
  ELSE [buf EXCEPT ![p] = IF r.part = "LOW" THEN Low(target) ELSE High(target)]

\* One turn of apply_segment_relocs; what it cannot patch or map ends the link.
PatchFound(i, done, r, p, found) ==
  IF ~done.ok \/ (r.to.obj = i /\ MappedTo(i, SegIdOf(r.to), found) = 0)
  THEN [done EXCEPT !.ok = FALSE]
  ELSE [done EXCEPT !.buf = Patched(@, r, p, Target(i, r, found))]
PatchAt(i, done, r, p, known) ==
  IF r.part = "WORD" /\ p + 1 > Len(done.buf) THEN [done EXCEPT !.ok = FALSE]
  ELSE PatchFound(i, done, r, p, Found(done.buf, r, p, known))
Patch(i, done, r) == PatchAt(i, done, r, RefPos(i, r), Known(i, r))

\* The references of an object, one after the other; b is the buffer they are in.
RefsOf(i) == link.objects[i].refs
IsIn(i, b, r) == ImageSeg(SegsOf(i)[r.seg]) = b
Stored(i, b) ==
  LET buf[n \in 0 .. Len(RefsOf(i))] ==
        IF n = 0 THEN Buffer(SegsOf(i), b)
        ELSE IF IsIn(i, b, RefsOf(i)[n]) THEN Store(i, buf[n - 1], RefsOf(i)[n])
        ELSE buf[n - 1]
  IN  buf[Len(RefsOf(i))]
Relocated(i, b) ==
  LET done[n \in 0 .. Len(RefsOf(i))] ==
        IF n = 0 THEN [ok |-> TRUE, buf |-> Stored(i, b)]
        ELSE IF IsIn(i, b, RefsOf(i)[n]) THEN Patch(i, done[n - 1], RefsOf(i)[n])
        ELSE done[n - 1]
  IN  done[Len(RefsOf(i))]

\* image_write.
Put(img, from, bytes) ==
  [a \in DOMAIN img |->
     IF a \in from .. from + Len(bytes) - 1 THEN bytes[a - from + 1] ELSE img[a]]
Words(ws) == [b \in 1 .. 2 * Len(ws) |->
                IF b % 2 = 1 THEN Low(ws[(b + 1) \div 2]) ELSE High(ws[b \div 2])]

\* Relocation and image of one object.  The code relocates every object before it
\* writes any: nothing is kept of the image when one fails.
WriteObject ==
  /\ phase = "write" /\ at \in Objs
  /\ \E text \in {Relocated(at, "TEXT")}, data \in {Relocated(at, "DATA")} :
       IF text.ok /\ data.ok
       THEN /\ image' = Put(Put(image, text_load[at], text.buf), data_load[at], data.buf)
            /\ at' = at + 1
            /\ UNCHANGED phase
       ELSE phase' = "unmapped" /\ UNCHANGED <<image, at>>
  /\ UNCHANGED <<link, lay, cur, text_load, data_load, load_addr, run_addr, copy_records,
                 zero_records, table, stack>>

\* Mutants: load and run address are swapped; the vectors are in another order.
CopyTableSwapped ==
  Words(FlattenSeq(Append([k \in DOMAIN copy_records |->
                             <<copy_records[k][2], copy_records[k][1], copy_records[k][3]>>], <<0, 0, 0>>)))
VectorWordsReset == Words(<<Global(link.reset), Global(link.nmi), Global(link.irqbrk)>>)

CopyTable == Words(FlattenSeq(Append(copy_records, <<0, 0, 0>>)))
ZeroTable == Words(FlattenSeq(Append(zero_records, <<0, 0>>)))
InitTable == Words(Append([k \in DOMAIN link.inits |-> Global(link.inits[k])], 0))
VectorWords == Words(<<Global(link.nmi), Global(link.reset), Global(link.irqbrk)>>)

\* The tail of build_rom_image: the tables, and the vectors over whatever is there.
WriteTables ==
  /\ phase = "write" /\ at \notin Objs
  /\ image' = Put(Put(Put(Put(image, table.copy, CopyTable), table.zero, ZeroTable),
                      table.init, InitTable), VectorTable, VectorWords)
  /\ phase' = "linked"
  /\ UNCHANGED <<link, at, lay, cur, text_load, data_load, load_addr, run_addr, copy_records,
                 zero_records, table, stack>>

LinkNext == CheckConfig \/ PlaceObject \/ PlaceText \/ PlaceRun \/ PlaceTables \/ WriteObject \/ WriteTables
Spec == Init /\ [][LinkNext]_vars

-----------------------------------------------------------------------------
\* Configurations in which the regions are not empty and do not overlap, and only
\* ROM, which the allocator knows by name, reaches over the vectors.
Separate(l) ==
  /\ \A r \in DOMAIN l.mem : l.mem[r].size > 0
  /\ \A r, q \in DOMAIN l.mem :
       r # q => \/ l.mem[r].start + l.mem[r].size <= l.mem[q].start
                \/ l.mem[q].start + l.mem[q].size <= l.mem[r].start
  /\ \A r \in DOMAIN l.mem \ {"ROM"} : l.mem[r].start + l.mem[r].size <= VectorTable
  /\ "ROM" \in DOMAIN l.mem => l.mem["ROM"].start + l.mem["ROM"].size <= Space

Placed == phase \in {"write", "unmapped", "linked"}
Block(id, region, from, size) == [id |-> id, region |-> region, from |-> from, size |-> size]
Blocks ==
  {Block(<<"text", i>>, link.code_load, text_load[i], Length(SegsOf(i), "TEXT")) : i \in Objs}
  \cup {Block(<<"data", i>>, link.data_load, data_load[i], Length(SegsOf(i), "DATA")) : i \in Objs}
  \cup {LET s == SegsOf(p[1])[p[2]] IN Block(<<"run", p>>, RunRegion(s), run_addr[p], s.size) :
          p \in {q \in Places : SegsOf(q[1])[q[2]].segid # "TEXT"}}
  \cup {Block(<<"copy">>, link.data_load, table.copy, CopyTableSize),
        Block(<<"zero">>, link.data_load, table.zero, ZeroTableSize),
        Block(<<"init">>, link.data_load, table.init, InitTableSize)}

\* The state variables hold what the C variables can hold.
TypeOK ==
  /\ link \in Links
  /\ phase \in {"config", "place", "write", "overflow", "unmapped", "linked"}
  /\ at \in Nat \ {0} /\ lay \in Nat
  /\ cur \in [DOMAIN link.mem -> 0 .. Space - 1]
  /\ text_load \in [Objs -> 0 .. Space - 1] /\ data_load \in [Objs -> 0 .. Space - 1]
  /\ load_addr \in [Places -> 0 .. Space - 1] /\ run_addr \in [Places -> 0 .. Space - 1]
  /\ copy_records \in Seq((0 .. Space - 1) \X (0 .. Space - 1) \X (1 .. Space - 1))
  /\ zero_records \in Seq((0 .. Space - 1) \X (1 .. Space - 1))
  /\ table \in [{"copy", "zero", "init"} -> 0 .. Space - 1]
  /\ stack \in [{"start", "top"} -> 0 .. Space - 1]
  /\ image \in [0 .. Space - 1 -> 0 .. Byte]

Arena == stack.start .. stack.top
\* Whatever was placed in the course of the whole link lies inside its region, and
\* no two blocks (text, load images, what runs in RAM, tables) share a byte, nor
\* does any of them lie under the vectors or in the arena between __stack_start and
\* __stack_top, which is the end of the region that DATA runs in.
BlocksDisjoint ==
  Separate(link) /\ Placed =>
    LET r == link.run["DATA"] IN
    /\ \A b \in Blocks : b.size > 0 =>
         /\ link.mem[b.region].start <= b.from
         /\ b.from + b.size <= EndOf(b.region) /\ b.from + b.size <= VectorTable
         /\ Arena \cap (b.from .. b.from + b.size - 1) = {}
         /\ \A c \in Blocks \ {b} : c.size > 0 => \/ b.from + b.size <= c.from
                                                  \/ c.from + c.size <= b.from
    /\ Arena \subseteq link.mem[r].start .. EndOf(r) - 1
    /\ stack.top = (EndOf(r) - 1) % Space

\* The address a label has at run time, by the placement of its own segment.
Truth(x) == (BaseAddr(x.obj, x.seg) + x.off) % Space
Home(i, r) == (IF ImageSeg(SegsOf(i)[r.seg]) = "TEXT" THEN text_load[i] ELSE data_load[i])
              + ImageBase(SegsOf(i), r.seg) + r.off
Lands(i, r) ==
  LET v == (Truth(r.to) + r.plus) % Space IN
  /\ image[Home(i, r)] = IF r.part = "HIGH" THEN High(v) ELSE Low(v)
  /\ r.width = 2 => image[Home(i, r) + 1] = High(v)

Inside(x, plus) == x.off + plus < SegsOf(x.obj)[x.seg].size
\* A whole address, or half of one.
Faithful(i, r) ==
  IF r.to.obj = i
  THEN Inside(r.to, r.plus) /\ (r.part = "WORD" => r.width = 2)
  ELSE /\ Inside(r.to, 0)
       /\ r.part # "WORD" => r.plus = 0
       /\ r.part = "WORD" /\ r.width = 1 => Truth(r.to) + r.plus < Byte
Refs(i) == {link.objects[i].refs[n] : n \in DOMAIN link.objects[i].refs}
\* Every operand has bytes of its own, as the assembler emits them one after the other.
OwnBytes(i) ==
  \A m, n \in DOMAIN RefsOf(i) :
    LET r == RefsOf(i)[m]
        q == RefsOf(i)[n]
    IN  m # n /\ r.seg = q.seg => r.off + r.width <= q.off \/ q.off + q.width <= r.off
Sound(i) == OwnBytes(i) /\ \A r \in Refs(i) : Faithful(i, r)

\* The linker counts the bytes of a table in 16 bits and reserves too little for more
\* than 10921 records: what follows is about links with fewer.
TablesWhole ==
  /\ CopyTableSize = 6 * (Len(copy_records) + 1)
  /\ ZeroTableSize = 4 * (Len(zero_records) + 1)
  /\ InitTableSize = 2 * (Len(link.inits) + 1)

\* In the image every reference into the inside of a segment is the address of its
\* label, also across objects, o65 segments and regions, and stays it.
ReferencesLand ==
  Separate(link) /\ TablesWhole /\ phase = "linked" =>
    \A i \in Objs : Sound(i) => \A r \in Refs(i) : Lands(i, r)

\* What has to go into a region: of each object its text and its load image, of each
\* segment the place where it runs, and the tables with a record for each segment
\* that is copied or cleared.
Segment(p) == SegsOf(p[1])[p[2]]
HeadNeed(r) ==
  [i \in Objs |-> (IF link.code_load = r THEN Length(SegsOf(i), "TEXT") ELSE 0)
                  + (IF link.data_load = r THEN Length(SegsOf(i), "DATA") ELSE 0)]
RunsIn(p, r) == Segment(p).segid # "TEXT" /\ RunRegion(Segment(p)) = r
RunNeed(r) == [p \in Places |-> IF RunsIn(p, r) THEN Segment(p).size ELSE 0]
CopyNeed == [p \in Places |-> IF Segment(p).segid # "TEXT" /\ ImageSeg(Segment(p)) = "DATA"
                                 /\ Segment(p).size > 0 THEN 1 ELSE 0]
ZeroNeed == [p \in Places |-> IF Segment(p).segid = "BSS" /\ Segment(p).size > 0 THEN 1 ELSE 0]

Row(f, i) == [k \in DOMAIN SegsOf(i) |-> f[<<i, k>>]]
RowSums(f) == [i \in Objs |-> Total(Row(f, i), Len(SegsOf(i)))]
OverSegments(f) == Total(RowSums(f), Len(link.objects))
TableNeed == [copy |-> 6 * (1 + OverSegments(CopyNeed)), zero |-> 4 * (1 + OverSegments(ZeroNeed)),
              init |-> 2 * (1 + Len(link.inits))]
Demand(r) ==
  Total(HeadNeed(r), Len(link.objects)) + OverSegments(RunNeed(r))
  + (IF link.data_load = r THEN TableNeed.copy + TableNeed.zero + TableNeed.init ELSE 0)

\* The regions that something is placed in, and whether all of it fits.
Asked == {link.data_load} \cup {link.code_load : i \in Objs}
         \cup {RunRegion(Segment(p)) : p \in {q \in Places : Segment(q).segid # "TEXT"}}
Limit(r) == IF r = "ROM" /\ VectorTable < EndOf(r) THEN VectorTable ELSE EndOf(r)
Fits == \A r \in Asked : r \in DOMAIN link.mem /\ link.mem[r].start + Demand(r) <= Limit(r)
Rules == {link.code_load, link.data_load, link.run["DATA"], link.run["BSS"], link.run["ZP"]}

\* The linker counts the bytes of a table in 16 bits.
TablesCounted ==
  TableNeed.copy < Space /\ TableNeed.zero < Space /\ TableNeed.init < Space

\* A link fails for want of room only when a region is full, that is when the blocks
\* that have to go there (with those that would have come later) do not fit, or when
\* a rule names a region that is missing; and it does fail then, as long as no table
\* has more bytes than the linker can count.
OverflowIffFull ==
  Separate(link) =>
    /\ phase = "overflow" => ~Fits \/ ~(Rules \subseteq DOMAIN link.mem)
    /\ Placed /\ TablesCounted => Fits

-----------------------------------------------------------------------------
=============================================================================
