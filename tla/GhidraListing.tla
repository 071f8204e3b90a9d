--------------------------- MODULE GhidraListing ---------------------------
(* What the reverse-engineering scripts in scripts/ghidra see of the       *)
(* Windows driver: a listing of instructions, each with a mnemonic, at     *)
(* most one memory operand, at most one immediate, and the function that   *)
(* contains it.  The listing and the way it is printed are Ghidra's; this  *)
(* module also holds the text matching that several scripts share.         *)
(*                                                                         *)
(* An instruction i is a record:                                           *)
(*   mn    its mnemonic;                                                   *)
(*   mem   the operand that is a memory reference: 0, 1, or 2 for none;    *)
(*   disp  the displacement of that reference (0 is not printed);          *)
(*   imm   the immediate in the other operand, or NoValue;                 *)
(*   fn    the name of its function, or UNKNOWN;                           *)
(*   gap   whether the listing prints "[RCX + 0x100]" or "[RCX+0x100]".    *)
(* Registers are those whose names hold no digit, and CALL stands for the  *)
(* calls of IoConnectInterruptEx.                                          *)
EXTENDS Integers, Sequences, FiniteSets, FiniteSetsExt

CONSTANT NoValue

UNKNOWN == "UNKNOWN"

(* The mnemonics the scripts take for accesses that write and that read.  *)
Writers == {"MOV", "OR", "AND", "XOR", "ADD", "SUB"}
Readers == {"MOV", "CMP", "TEST"}
MemoryOps == Writers \cup Readers
MemoryOpsLea == MemoryOps \cup {"LEA"}
Mnemonics == MemoryOpsLea \cup {"CALL", "RET"}

(* KNOWN_MMIO_OFFSETS and the known_offsets lists, the same in every script. *)
KnownOffsets == {0, 4, 8, 16, 20, 256, 260, 66304, 66308}
MaxOffset == 131072                                          \* 0x20000
MmioBaseSlot == 200                                          \* 0xc8

Magnitude(n) == IF n < 0 THEN 0 - n ELSE n

(* Displacements, and immediates of instructions with a memory operand,    *)
(* have at most 32 bits: eight hexadecimal digits.                         *)
Places == 0..7
EightDigits == {n \in Int : Magnitude(n) \div 16^7 < 16}

Instruction ==
  [mn : Mnemonics, mem : 0..2, disp : EightDigits, imm : EightDigits \cup {NoValue},
   fn : STRING, gap : BOOLEAN]

HasBracket(i) == i.mem # 2

(* What the instruction really does to memory. *)
Stores(i) == i.mem = 0 /\ i.mn \in Writers

---------------------------------------------------------------------------
(* The three regular expressions for a displacement.  In a listing with    *)
(* gaps a positive one is printed "+ 0x8" and a negative one "+ -0x8", so  *)
(* a sign directly before 0x occurs in the negative ones only.             *)
Displaced(i) == HasBracket(i) /\ i.disp # 0

PlusPattern(i) == Displaced(i) /\ i.disp > 0 /\ ~i.gap       \* \+0x
SignPattern(i) == Displaced(i) /\ (i.disp < 0 \/ ~i.gap)     \* [+\-]0x
LoosePattern(i) == Displaced(i)                              \* [\+\-]\s*0x

(* The digits of the printed, hexadecimal number, and the number they are  *)
(* in base 10.                                                             *)
Digit(n, k) == (n \div 16^k) % 16
InBase10(n) ==
  Digit(n, 0) + 10 * (Digit(n, 1) + 10 * (Digit(n, 2) + 10 * (Digit(n, 3) +
  10 * (Digit(n, 4) + 10 * (Digit(n, 5) + 10 * (Digit(n, 6) + 10 * Digit(n, 7)))))))

(* How the scripts turn the digits of a match into an offset: base 16 when *)
(* one of them is a letter, base 10 otherwise.                             *)
OffsetOfDigits(n) == IF \E k \in Places : Digit(n, k) > 9 THEN n ELSE InBase10(n)

---------------------------------------------------------------------------
(* Searching the text of an instruction for a number. *)
NumbersIn(i) == {Magnitude(n) : n \in (IF Displaced(i) THEN {i.disp} ELSE {})
                                  \cup ({i.imm} \ {NoValue})}

(* "0x..." with the digits of o begins a number whose digits begin so.     *)
HexBegins(o, n) == IF o = 0 THEN n = 0 ELSE \E k \in Places : n \div 16^k = o
HexIn(o, i) == \E n \in NumbersIn(i) : HexBegins(o, n)

(* The decimal digits of o, read as hexadecimal digits; they occur among   *)
(* those of n.  A "0" is in every number, for the prefix 0x.               *)
DecimalDigits(o) == MapThenSumSet(LAMBDA k : ((o \div 10^k) % 10) * 16^k, Places)
DecimalWithin(o, n) ==
  LET d == DecimalDigits(o)
      w == CHOOSE w \in 1..7 : 16^(w - 1) <= d /\ d < 16^w
  IN  o = 0 \/ \E k \in Places : (n \div 16^k) % 16^w = d

(* The number n is printed so that its text shows o in either base. *)
DecimalShows(n, o) == DecimalWithin(o, n)
Shows(n, o) == HexBegins(o, n) \/ DecimalWithin(o, n)
ShownIn(o, i) == \E n \in NumbersIn(i) : Shows(n, o)

(* The scalars among the operand objects of an instruction, with the       *)
(* operand they belong to.                                                 *)
Scalars(i) ==
  (IF Displaced(i) THEN {[op |-> i.mem, val |-> i.disp]} ELSE {})
  \cup (IF i.imm # NoValue THEN {[op |-> 1, val |-> i.imm]} ELSE {})
=============================================================================
