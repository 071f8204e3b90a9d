---------------------------- MODULE DuplexStreams ----------------------------
(***************************************************************************)
(* What the driver promises of its one joint engine: two PCM substreams    *)
(* that behave as if each had an engine of its own.  A direction moves     *)
(* from its start to its stop, and nothing the other direction does in     *)
(* between -- opening, setting or freeing parameters, starting, stopping   *)
(* -- makes it start or stop.  The pauses in which the engine is rebuilt   *)
(* are invisible here.                                                     *)
(***************************************************************************)
EXTENDS TLAPS

CONSTANTS
  Dirs,      (* the directions                                             *)
  MayFail    (* may a device fault or a lack of memory cut the streams off? *)

VARIABLES
  state,     (* the ALSA state of each direction                           *)
  moving     (* the directions whose samples move                          *)

vars == <<state, moving>>

States == {"closed", "open", "setup", "prepared", "running"}

Init == state = [d \in Dirs |-> "closed"] /\ moving = {}

Become(d, from, to) == state[d] \in from /\ state' = [state EXCEPT ![d] = to]

Open(d)      == Become(d, {"closed"}, "open") /\ UNCHANGED moving
Close(d)     == Become(d, {"open"}, "closed") /\ UNCHANGED moving
SetParams(d) == Become(d, {"open", "setup", "prepared"}, "setup") /\ UNCHANGED moving
Prepare(d)   == Become(d, {"setup", "prepared"}, "prepared") /\ UNCHANGED moving
(* Parameters are freed, or refused, which frees them too. *)
Free(d)      == Become(d, {"open", "setup", "prepared"}, "open") /\ UNCHANGED moving
Start(d)     == Become(d, {"prepared"}, "running") /\ moving' = moving \cup {d}
Stop(d)      == Become(d, {"running"}, "setup") /\ moving' = moving \ {d}

(* Everything that moved comes to rest, and ALSA is not told. *)
CutOff == MayFail /\ moving' = {} /\ UNCHANGED state

Next ==
  \/ \E d \in Dirs : \/ Open(d) \/ Close(d) \/ SetParams(d) \/ Prepare(d)
                     \/ Free(d) \/ Start(d) \/ Stop(d)
  \/ CutOff

Spec == Init /\ [][Next]_vars

TypeOK == state \in [Dirs -> States] /\ moving \subseteq Dirs

(* Only what has been started and not stopped moves; all of it does, unless *)
(* a fault may cut it off.                                                  *)
MovesAsAsked ==
  LET asked == {d \in Dirs : state[d] = "running"}
  IN  moving \subseteq asked /\ (MayFail \/ asked \subseteq moving)

(* Only streams that were started and not stopped move, and all of these   *)
(* do, unless faults may cut them off.                                     *)
THEOREM StreamsMoveAsAsked == Spec => [](TypeOK /\ MovesAsAsked)
<1>1. Init => TypeOK /\ MovesAsAsked
  BY DEF Init, TypeOK, States, MovesAsAsked
<1>2. TypeOK /\ MovesAsAsked /\ [Next]_vars => (TypeOK /\ MovesAsAsked)'
  <2> SUFFICES ASSUME TypeOK, MovesAsAsked, [Next]_vars
               PROVE  (TypeOK /\ MovesAsAsked)'
    OBVIOUS
  <2> USE DEF TypeOK, States, MovesAsAsked
  <2>1. CASE \E d \in Dirs : Open(d) \/ Close(d) \/ SetParams(d) \/ Prepare(d) \/ Free(d)
    BY <2>1 DEF Open, Close, SetParams, Prepare, Free, Become
  <2>2. CASE \E d \in Dirs : Start(d)
    BY <2>2 DEF Start, Become
  <2>3. CASE \E d \in Dirs : Stop(d)
    BY <2>3 DEF Stop, Become
  <2>4. CASE CutOff
    BY <2>4 DEF CutOff
  <2>5. CASE UNCHANGED vars
    BY <2>5 DEF vars
  <2> QED
    BY <2>1, <2>2, <2>3, <2>4, <2>5 DEF Next
<1> QED
  BY <1>1, <1>2, PTL DEF Spec
=============================================================================
