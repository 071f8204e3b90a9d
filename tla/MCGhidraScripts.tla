-------------------------- MODULE MCGhidraScripts --------------------------
(* An instance of GhidraScripts for TLC: short listings over instructions  *)
(* that occur in the reports kept under notes/analysis.                    *)
EXTENDS GhidraScripts

Ins(mn, mem, disp, imm, fn) == [mn |-> mn, mem |-> mem, disp |-> disp, imm |-> imm, fn |-> fn]

(* The control function writes the control register, twice with one value; *)
(* the init function loads from a buffer register, stores -1 and its       *)
(* unsigned form, and uses a frame slot; others test, add and take         *)
(* addresses; one calls IoConnectInterruptEx.                              *)
Shapes ==
  {Ins("MOV", 0, 256, 8, ControlFunction),
   Ins("MOV", 0, 256, 0, ControlFunction),
   Ins("OR", 0, 16, NoValue, ControlFunction),
   Ins("MOV", 1, 66304, NoValue, InitFunction),
   Ins("MOV", 0, 16, -1, InitFunction),
   Ins("MOV", 0, 16, Word - 1, InitFunction),
   Ins("MOV", 0, -18, NoValue, InitFunction),
   Ins("MOV", 0, 12, NoValue, "FUN_14000d410"),
   Ins("CMP", 0, 18, 8, "FUN_14000d410"),
   Ins("ADD", 0, 8, 8, UNKNOWN),
   Ins("LEA", 1, 200, NoValue, InitFunction),
   Ins("CALL", 2, 0, NoValue, InitFunction),
   Ins("CALL", 2, 0, NoValue, "FUN_140001000"),
   Ins("MOV", 2, 0, 48000, InitFunction)}

(* Two instructions of any kind, or three of the control function.         *)
ControlShapes == {i \in Shapes : i.fn = ControlFunction}
Printed(i, g) == [mn |-> i.mn, mem |-> i.mem, disp |-> i.disp, imm |-> i.imm, fn |-> i.fn,
                  gap |-> g]
ListingsOver(S, k) == UNION {[1..k -> {Printed(i, g) : i \in S}] : g \in BOOLEAN}
MCListings ==
  UNION {ListingsOver(Shapes, k) : k \in 0..2} \cup
  ListingsOver(ControlShapes, 3)

(* Every script alone, and pairs that share a file or a kind of table.     *)
MCSessions ==
  {<<s>> : s \in Scripts} \cup
  {<<"mmio_simple", "mmio">>, <<"mmio", "mmio_simple">>, <<"all", "enhanced">>}

(* For what the traced writes lose: three writes of the control function.   *)
ControlListings == ListingsOver(ControlShapes, 3)
StreamSessions  == {<<"stream">>}

MCOffsets == <<0, 8, 16, 256, 66304>>
MCWord == 1048576
=============================================================================
