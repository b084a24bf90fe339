-------------------------------- MODULE Startup --------------------------------
(***************************************************************************)
(* The start-up code of the runtime library (libraries/nlib/nrt0.s) on the *)
(* image that the linker made: it copies initialised data to where it      *)
(* runs, clears BSS, sets the argument stack up, calls the init functions  *)
(* and then main.                                                          *)
(*                                                                         *)
(* The image becomes the memory of the machine; a byte that the linker has *)
(* not written holds anything, shown as Byte.  Interrupts are off (sei),   *)
(* the hardware stack and the zero-page registers are not in the image.    *)
(***************************************************************************)
EXTENDS LinkLayout

VARIABLES
  boot,     \* the label the processor is at
  ptr0,     \* the current record of a table
  ptr1,     \* where the next byte comes from; where it is cleared; what is called
  ptr2,     \* where the next byte goes
  arg0,     \* how many bytes are left
  sp,       \* sp and fp, the argument stack
  called    \* the addresses that _call_init_trampoline has jumped to

registers == <<boot, ptr0, ptr1, ptr2, arg0, sp, called>>
machine == <<vars, registers>>

WordAt(a) == (image[a % Space] + Byte * image[(a + 1) % Space]) % Space
Plus(a, n) == (a + n) % Space

StartupInit ==
  /\ Init
  /\ boot = "off"
  /\ ptr0 = 0 /\ ptr1 = 0 /\ ptr2 = 0 /\ arg0 = 0 /\ sp = 0 /\ called = <<>>

\* Only memory and the zero-page registers change after the link.
Linked == /\ phase = "linked"
          /\ UNCHANGED <<link, phase, at, lay, cur, text_load, data_load, load_addr, run_addr,
                         copy_records, zero_records, table, stack>>

\* __reset, with the reset vector pointing at it.
Reset ==
  /\ Linked /\ boot = "off"
  /\ WordAt(VectorTable + 2) = Global(link.reset)
  /\ ptr0' = table.copy
  /\ boot' = "_copy_record"
  /\ UNCHANGED <<image, ptr1, ptr2, arg0, sp, called>>

\* A record of size 0 ends the copy table.
CopyRecord ==
  /\ Linked /\ boot = "_copy_record"
  /\ ptr1' = WordAt(ptr0)
  /\ ptr2' = WordAt(ptr0 + 2)
  /\ arg0' = WordAt(ptr0 + 4)
  /\ IF arg0' = 0 THEN boot' = "_zero_record" /\ ptr0' = table.zero
                  ELSE boot' = "_copy_loop" /\ UNCHANGED ptr0
  /\ UNCHANGED <<image, sp, called>>

CopyByte ==
  /\ Linked /\ boot = "_copy_loop"
  /\ image' = [image EXCEPT ![ptr2] = image[ptr1]]
  /\ ptr1' = Plus(ptr1, 1)
  /\ ptr2' = Plus(ptr2, 1)
  /\ arg0' = arg0 - 1
  /\ IF arg0' = 0 THEN boot' = "_copy_record" /\ ptr0' = Plus(ptr0, 6)
                  ELSE UNCHANGED <<boot, ptr0>>
  /\ UNCHANGED <<sp, called>>

\* A record of size 0 ends the zero table; _start_init follows.
ZeroRecord ==
  /\ Linked /\ boot = "_zero_record"
  /\ ptr1' = WordAt(ptr0)
  /\ arg0' = WordAt(ptr0 + 2)
  /\ IF arg0' = 0
     THEN boot' = "_call_init_loop" /\ ptr0' = table.init /\ sp' = stack.start
     ELSE boot' = "_zero_loop" /\ UNCHANGED <<ptr0, sp>>
  /\ UNCHANGED <<image, ptr2, called>>

ZeroByte ==
  /\ Linked /\ boot = "_zero_loop"
  /\ image' = [image EXCEPT ![ptr1] = 0]
  /\ ptr1' = Plus(ptr1, 1)
  /\ arg0' = arg0 - 1
  /\ IF arg0' = 0 THEN boot' = "_zero_record" /\ ptr0' = Plus(ptr0, 4)
                  ELSE UNCHANGED <<boot, ptr0>>
  /\ UNCHANGED <<ptr2, sp, called>>

\* The init functions are called one after the other (they keep ptr0, which is
\* saved on the hardware stack); address 0 ends the table.
CallInit ==
  /\ Linked /\ boot = "_call_init_loop"
  /\ ptr1' = WordAt(ptr0)
  /\ IF ptr1' = 0
     THEN boot' = "main" /\ UNCHANGED <<ptr0, called>>
     ELSE called' = Append(called, ptr1') /\ ptr0' = Plus(ptr0, 2) /\ UNCHANGED boot
  /\ UNCHANGED <<image, ptr2, arg0, sp>>

StartupNext == Reset \/ CopyRecord \/ CopyByte \/ ZeroRecord \/ ZeroByte \/ CallInit
MachineNext == StartupNext \/ (LinkNext /\ UNCHANGED registers)

\* The processor does not stop; whether the linker is run is not its business.
MachineSpec == StartupInit /\ [][MachineNext]_machine /\ WF_machine(StartupNext)

-----------------------------------------------------------------------------
\* The state variables hold what the linker's variables and the registers can hold.
MachineTypeOK ==
  /\ TypeOK
  /\ boot \in {"off", "_copy_record", "_copy_loop", "_zero_record", "_zero_loop",
               "_call_init_loop", "main"}
  /\ {ptr0, ptr1, ptr2, sp} \subseteq 0 .. Space - 1
  /\ arg0 \in 0 .. Space - 1
  /\ called \in Seq(1 .. Space - 1)
  /\ Len(called) <= Len(link.inits)

\* The tables have room for their records (TablesWhole).
Bootable == Separate(link) /\ TablesWhole /\ phase = "linked"

\* The init functions are labels inside segments, and none is at address 0, which ends
\* their table.
InitsCallable ==
  \A k \in DOMAIN link.inits : Inside(link.inits[k], 0) /\ Truth(link.inits[k]) # 0

\* When main starts, every byte of every segment that the object files give a
\* value to has that value, relocated, where the segment runs, and BSS is zero;
\* every init function of the linked objects has been called once, in the order
\* of the objects, and the argument stack is empty, in its arena.
ReadyForMain ==
  Bootable /\ boot = "main" =>
    /\ InitsCallable => called = [k \in DOMAIN link.inits |-> Truth(link.inits[k])]
    /\ sp = stack.start
    /\ \A p \in Places :
         LET s == SegsOf(p[1])[p[2]]
             b == ImageSeg(s)
             home == BaseAddr(p[1], p[2])
         IN  IF s.segid = "BSS" THEN \A o \in 0 .. s.size - 1 : image[home + o] = 0
             ELSE LET buf == Relocated(p[1], b).buf IN
                  \A o \in DOMAIN s.bytes : image[home + o - 1] = buf[ImageBase(SegsOf(p[1]), p[2]) + o]

\* The segments that have a record for the start-up code.
Written(p) == LET s == SegsOf(p[1])[p[2]] IN s.segid = "BSS" \/ (s.segid # "TEXT" /\ s.bytes # <<>>)
RunBytes(p) == run_addr[p] .. run_addr[p] + SegsOf(p[1])[p[2]].size - 1

\* Start-up writes where initialised data and BSS run and nowhere else: not into
\* ROM, not into the zero-page variables (its own registers are among them), and
\* not into the arena of the stack.
StartupConfined ==
  [][Bootable =>
       {a \in DOMAIN image : image'[a] # image[a]} \subseteq
         UNION {RunBytes(p) : p \in {q \in Places : Written(q)}}]_machine

\* A linked program gets to main: the walk through the tables ends.
Boots == Bootable ~> (boot = "main")
=============================================================================
