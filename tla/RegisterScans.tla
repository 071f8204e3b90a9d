--------------------------- MODULE RegisterScans ---------------------------
(* What each script of scripts/ghidra that fills a table of register       *)
(* accesses enters for one instruction, and what it writes to its report.  *)
(* A table is a Python dictionary from keys to lists; here it is the set   *)
(* of the accesses that were entered, each with its key, so that the list  *)
(* of a key is those that have it, in the order of their instructions.     *)
(*                                                                         *)
(* api says whether Ghidra's operand objects have the accessors that some  *)
(* scripts call (getScalar, getOperands, getFunction by name).  They do    *)
(* not in the version whose reports the repository keeps; TRUE is what the *)
(* scripts suppose.                                                        *)
EXTENDS GhidraListing

Access(key, kind) == [key |-> key, kind |-> kind]

(* A search for one offset, or a body of a function, enters at most one    *)
(* access of a kind where the guard holds.                                 *)
When(guard, key, kind) == IF guard THEN {Access(key, kind)} ELSE {}

---------------------------------------------------------------------------
(* find_all_registers.py *)

(* A line that mentions the place of the MMIO base in the device structure.*)
AllRegistersBase(i) == When(HexIn(MmioBaseSlot, i), MmioBaseSlot, "BASE")

AllRegistersOffsets ==
  KnownOffsets \cup {12, 24, 28, 32, 264, 268, 272, 276, 512, 516, 520, 524, 768, 772, 776,
                     4096, 4100, 4104, 66312, 66316}

(* The write test looks for "=" in the text and for "[" in the first       *)
(* operand object, a register: neither is ever there.                      *)
AllRegistersKind(i) == IF i.mn \in Readers THEN "READ" ELSE "UNKNOWN"

AllRegistersAccess(i) ==
  LET k == OffsetOfDigits(Magnitude(i.disp))
  IN  When(/\ i.mn \in MemoryOpsLea
           /\ SignPattern(i)
           /\ k <= MaxOffset
           /\ k \in AllRegistersOffsets \/ (k % 4 = 0 /\ k < 4096),
           k, AllRegistersKind(i))

SampleRates == {44100, 48000, 88200, 96000, 176400, 192000, 22050, 24000, 32000}
AllRegistersRate(api, i) ==
  {Access(s.val, "RATE") : s \in {s \in Scalars(i) : api /\ s.val \in SampleRates}}

---------------------------------------------------------------------------
(* find_mmio_registers_enhanced.py *)

EnhancedBase(i) ==
  When(i.mn \in {"MOV", "LEA"} /\ HexIn(MmioBaseSlot, i) /\ HasBracket(i), MmioBaseSlot, "BASE")

EnhancedOffsets == {4 * n : n \in 1..71} \cup {512, 516, 520, 524, 768, 772, 4096, 4100, 4104,
                                               66304, 66308, 66312, 66316}

(* The offset is looked for in the objects of the operands, where only an  *)
(* immediate can show it, and for MOV in the text before the comma.        *)
EnhancedKind(i, k) ==
  IF i.imm # NoValue /\ Shows(Magnitude(i.imm), k) THEN "READ"
  ELSE IF i.mn # "MOV" THEN "ACCESS"
  ELSE IF i.mem = 0 THEN "WRITE" ELSE "READ"

EnhancedAccess(i) ==
  LET k == OffsetOfDigits(Magnitude(i.disp))
  IN  When(/\ i.mn \in MemoryOps
           /\ PlusPattern(i)
           /\ k > 0 /\ k % 4 = 0 /\ k <= MaxOffset
           /\ k \in EnhancedOffsets \/ k < 512,
           k, EnhancedKind(i, k))

---------------------------------------------------------------------------
(* find_registers_scalar_search.py: every operand object that is the       *)
(* scalar o.  The script appends one entry for each; where displacement and *)
(* immediate of one instruction are both o and of one kind, its list has   *)
(* the same entry twice and the set here has it once.                      *)
ScalarKind(i, o, op) ==
  LET shown(m) == i.mem = m /\ Displaced(i) /\ Shows(Magnitude(i.disp), o)
      write == i.mn \in Writers /\ op = 0
      read  == i.mn \in Readers /\ op = 1
      immediate == i.imm # NoValue /\ Shows(Magnitude(i.imm), o)
  IN  IF write \/ (~read /\ shown(0)) THEN "WRITE"
      ELSE IF read \/ shown(1) \/ immediate THEN "READ"
      ELSE "ACCESS"

ScalarAccess(api, o, i) ==
  LET hits == {s \in Scalars(i) : api /\ s.val = o}
  IN  IF HasBracket(i) /\ i.mn \in MemoryOpsLea
        THEN {Access(o, ScalarKind(i, o, s.op)) : s \in hits}
        ELSE {}

---------------------------------------------------------------------------
(* find_registers_simple.py: a line whose text shows the digits of o.      *)
SimpleKind(i) ==
  IF i.mn \in Writers THEN "WRITE" ELSE IF i.mn \in Readers THEN "READ" ELSE "ACCESS"

SimpleAccess(o, i) ==
  When(ShownIn(o, i) /\ HasBracket(i) /\ i.mn \in MemoryOpsLea, o, SimpleKind(i))

---------------------------------------------------------------------------
(* find_mmio_registers_simple.py: operands that are scalars, if the API    *)
(* has operands; the first one asked for raises otherwise.                 *)
MmioSimpleRaises(api, i) == ~api /\ i.mn \in MemoryOpsLea

ScalarOffsets == 0..1048576                                  \* 0x100000
MmioSimpleAccess(i) ==
  When(/\ i.mn \in MemoryOpsLea
       /\ i.imm # NoValue /\ i.imm \in ScalarOffsets
       /\ i.mn \in Readers,
       i.imm, "READ")

---------------------------------------------------------------------------
(* find_mmio_registers.py: the scan of the operands raises on the first    *)
(* instruction, whatever it is (an undefined name, or a reference type     *)
(* that is asked for a scalar); what fills the tables is the search for    *)
(* the known offsets that follows.                                         *)
KnownAccess(o, i) ==
  LET here == ShownIn(o, i) /\ HasBracket(i)
  IN  When(here /\ i.mn \in Writers, o, "WRITE") \cup When(here /\ i.mn \in Readers, o, "READ")

---------------------------------------------------------------------------
(* find_interrupt_handler.py: a MOV satisfies the write test in either     *)
(* direction, so the branch for a read is never taken.                     *)
InterruptOffsets == {4, 8, 16, 20, 256, 260, 264}
InterruptAccess(i) ==
  When(/\ i.mn \in {"MOV", "OR", "AND", "XOR"}
       /\ PlusPattern(i)
       /\ i.disp \in InterruptOffsets,
       i.disp, "WRITE")

(* analyze_function.py *)
FunctionAccess(i) ==
  When(/\ i.mn \in MemoryOps
       /\ PlusPattern(i)
       /\ i.disp \in 1..MaxOffset /\ i.disp % 4 = 0,
       i.disp, IF i.mn \in Writers THEN "WRITE" ELSE "READ")

---------------------------------------------------------------------------
(* trace_mmio_usage.py *)
UsageBase(i) == EnhancedBase(i)

(* The known registers of one function, then the known write of the other. *)
InitFunction    == "FUN_140003d60"
ControlFunction == "FUN_140002e30"
KnownRegisters == {0, 4, 8, 16, 20, 260, 66304, 66308}
UsageKnown(f, i) ==
  IF f = InitFunction
    THEN {Access(o, "KNOWN") : o \in {o \in KnownRegisters : HexIn(o, i)}}
    ELSE When(HexIn(256, i) /\ HexIn(8, i), 256, "KNOWN")

UsageAccess(o, i) == When(HexIn(o, i) /\ HasBracket(i) /\ i.mn \in MemoryOps, o, "ACCESS")

---------------------------------------------------------------------------
(* trace_stream_start_writes.py and trace_init_writes.py: the offset of a  *)
(* memory operand, on either side, and the immediate of the second one.    *)
StreamWrite(i) ==
  LET k == Magnitude(i.disp)
  IN  When(i.mn \in Writers /\ LoosePattern(i) /\ k <= MaxOffset /\ k % 4 = 0, k, "WRITE")
InitWrite(i) == StreamWrite(i)

AnyScalar(i) ==
  IF i.imm # NoValue THEN i.imm ELSE IF i.mem = 1 /\ Displaced(i) THEN i.disp ELSE NoValue
Immediate(i) == IF i.mem = 1 THEN NoValue ELSE i.imm

IsLikelyMmio(o) == o % 4 = 0 /\ (o \in 0..768 \/ o \in 66304..66560)
=============================================================================
