-------------------------- MODULE DuplexEngineSafety --------------------------
(***************************************************************************)
(* Type correctness of the joint engine and what the locks of the driver   *)
(* guarantee under every interleaving of the two directions, the interrupt *)
(* handler and the device, for every set of geometries, environment and    *)
(* combination of faults; then what they guarantee when the callbacks of   *)
(* the two directions do not overlap.                                      *)
(***************************************************************************)
EXTENDS DuplexEngine, TLAPS

USE DEF Dirs, mutexed, engine, device, core, locals

(* Geometries are records of naturals. *)
LEMMA GeometryFields ==
  /\ NoGeometry \in GeometryOrNone
  /\ Geometries \subseteq GeometryOrNone
  /\ \A g \in GeometryOrNone : g.rate \in Nat /\ g.bytes \in Nat
  /\ \A g \in Geometries : g.bytes > 0
BY GeometryAssumption DEF GeometryOrNone, NoGeometry

LEMMA InitTypeOK == Init => TypeOK
<1> SUFFICES ASSUME Init PROVE TypeOK
  OBVIOUS
<1>1. audio_rate \in Nat
  BY GeometryFields DEF Init
<1>2. \A d \in Dirs : LabelsFit(d)
  BY DEF Init, LabelsFit
<1> QED
  BY <1>1, <1>2, GeometryFields DEF Init, TypeOK, DriverOK, DeviceOK, CoreOK,
    LocalsOK, ControlOK, Ops, Labels

(* No step takes a callback to a point its operation does not have. *)
LEMMA StepControlOK == ControlOK /\ [Next]_vars => ControlOK'
<1> SUFFICES ASSUME ControlOK, [Next]_vars PROVE ControlOK'
  OBVIOUS
<1> USE DEF ControlOK, LabelsFit, Ops, Labels, StopLabels, At, In, Goto
<1>1. ASSUME NEW d \in Dirs, Open(d) PROVE ControlOK'
  BY <1>1 DEF Open
<1>2. ASSUME NEW d \in Dirs, Close(d) PROVE ControlOK'
  BY <1>2 DEF Close
<1>3. ASSUME NEW d \in Dirs, NEW g \in Geometries, CallHwParams(d, g) PROVE ControlOK'
  BY <1>3 DEF CallHwParams, Begin
<1>4. ASSUME NEW d \in Dirs, CallHwFree(d) PROVE ControlOK'
  BY <1>4 DEF CallHwFree, Begin
<1>5. ASSUME NEW d \in Dirs, CallPrepare(d) PROVE ControlOK'
  BY <1>5 DEF CallPrepare, Begin
<1>6. ASSUME NEW d \in Dirs, CallStart(d) PROVE ControlOK'
  BY <1>6 DEF CallStart, Begin
<1>7. ASSUME NEW d \in Dirs, CallStop(d) PROVE ControlOK'
  BY <1>7 DEF CallStop, Begin
<1>8. ASSUME NEW d \in Dirs, ReturnHwParams(d) PROVE ControlOK'
  BY <1>8 DEF ReturnHwParams, Return, ToIdle, Then
<1>9. ASSUME NEW d \in Dirs, ReturnHwFree(d) PROVE ControlOK'
  BY <1>9 DEF ReturnHwFree, Return, ToIdle, Then
<1>10. ASSUME NEW d \in Dirs, ReturnPrepare(d) PROVE ControlOK'
  BY <1>10 DEF ReturnPrepare, Return, ToIdle, Then
<1>11. ASSUME NEW d \in Dirs, ReturnStart(d) PROVE ControlOK'
  BY <1>11 DEF ReturnStart, Return, ToIdle, Then
<1>12. ASSUME NEW d \in Dirs, ReturnStop(d) PROVE ControlOK'
  BY <1>12 DEF ReturnStop, Return, ToIdle, Then
<1>13. ASSUME NEW d \in Dirs, StartEnter(d) PROVE ControlOK'
  BY <1>13 DEF StartEnter
<1>14. ASSUME NEW d \in Dirs, StopEnter(d) PROVE ControlOK'
  BY <1>14 DEF StopEnter
<1>15. ASSUME NEW d \in Dirs, Unmask(d) PROVE ControlOK'
  BY <1>15 DEF Unmask
<1>16. ASSUME NEW d \in Dirs, Run(d) PROVE ControlOK'
  BY <1>16 DEF Run
<1>17. ASSUME NEW d \in Dirs, Mask(d) PROVE ControlOK'
  BY <1>17 DEF Mask, Stopped
<1>18. ASSUME NEW d \in Dirs, Halt(d) PROVE ControlOK'
  BY <1>18 DEF Halt
<1>19. ASSUME NEW d \in Dirs, Poll(d) PROVE ControlOK'
  BY <1>19 DEF Poll
<1>20. ASSUME NEW d \in Dirs, Retire(d) PROVE ControlOK'
  BY <1>20 DEF Retire, Stopped
<1>21. ASSUME NEW d \in Dirs, Unmaster(d) PROVE ControlOK'
  BY <1>21 DEF Unmaster
<1>22. ASSUME NEW d \in Dirs, LockHwParams(d) PROVE ControlOK'
  BY <1>22 DEF LockHwParams, Reconfigure
<1>23. ASSUME NEW d \in Dirs, LockHwFree(d) PROVE ControlOK'
  BY <1>23 DEF LockHwFree
<1>24. ASSUME NEW d \in Dirs, LockPrepare(d) PROVE ControlOK'
  BY <1>24 DEF LockPrepare
<1>25. ASSUME NEW d \in Dirs, Sync(d) PROVE ControlOK'
  BY <1>25 DEF Sync, Reconfigure
<1>26. ASSUME NEW d \in Dirs, Switch(d) PROVE ControlOK'
  BY <1>26 DEF Switch
<1>27. ASSUME NEW d \in Dirs, Build(d) PROVE ControlOK'
  BY <1>27 DEF Build
<1>28. ASSUME NEW d \in Dirs, Detach(d) PROVE ControlOK'
  BY <1>28 DEF Detach
<1>29. ASSUME NEW d \in Dirs, Program(d) PROVE ControlOK'
  BY <1>29 DEF Program
<1>30. ASSUME NEW d \in Dirs, Fetch(d) PROVE ControlOK'
  BY <1>30 DEF Fetch
<1>31. ASSUME NEW d \in Dirs, Restore(d) PROVE ControlOK'
  BY <1>31 DEF Restore
<1>32. ASSUME NEW d \in Dirs, Unlock(d) PROVE ControlOK'
  BY <1>32 DEF Unlock
<1>33. ASSUME NEW d \in Dirs, IrqReport(d) PROVE ControlOK'
  BY <1>33 DEF IrqReport
<1>34. CASE DeviceStops
  BY <1>34 DEF DeviceStops
<1>35. CASE DeviceInterrupts
  BY <1>35 DEF DeviceInterrupts
<1>36. CASE IrqPick
  BY <1>36 DEF IrqPick
<1>37. CASE UNCHANGED vars
  BY <1>37 DEF vars
<1> QED
  BY <1>1, <1>2, <1>3, <1>4, <1>5, <1>6, <1>7, <1>8, <1>9, <1>10, <1>11,
    <1>12, <1>13, <1>14, <1>15, <1>16, <1>17, <1>18, <1>19, <1>20, <1>21,
    <1>22, <1>23, <1>24, <1>25, <1>26, <1>27, <1>28, <1>29, <1>30, <1>31,
    <1>32, <1>33, <1>34, <1>35, <1>36, <1>37 DEF Next, Call, Returns, Steps,
    Trigger, AudioStop, HwParams, Waits, IrqUnderrun

DataOK == DriverOK /\ DeviceOK /\ CoreOK /\ LocalsOK

(* No step takes a variable out of its range. *)
LEMMA StepDataOK == DataOK /\ [Next]_vars => DataOK'
<1> SUFFICES ASSUME DataOK, [Next]_vars PROVE DataOK'
  OBVIOUS
<1> USE DEF DataOK, DriverOK, DeviceOK, CoreOK, LocalsOK, Fails
<1>1. ASSUME NEW d \in Dirs, Open(d) PROVE DataOK'
  BY <1>1, GeometryFields DEF Open
<1>2. ASSUME NEW d \in Dirs, Close(d) PROVE DataOK'
  BY <1>2 DEF Close
<1>3. ASSUME NEW d \in Dirs, NEW g \in Geometries, CallHwParams(d, g) PROVE DataOK'
  BY <1>3, GeometryFields DEF CallHwParams, Begin, SyncStop, BufferReleased
<1>4. ASSUME NEW d \in Dirs, CallHwFree(d) PROVE DataOK'
  BY <1>4 DEF CallHwFree, Begin, SyncStop
<1>5. ASSUME NEW d \in Dirs, CallPrepare(d) PROVE DataOK'
  BY <1>5 DEF CallPrepare, Begin, SyncStop
<1>6. ASSUME NEW d \in Dirs, CallStart(d) PROVE DataOK'
  BY <1>6 DEF CallStart, Begin
<1>7. ASSUME NEW d \in Dirs, CallStop(d) PROVE DataOK'
  BY <1>7 DEF CallStop, Begin
<1>8. ASSUME NEW d \in Dirs, ReturnHwParams(d) PROVE DataOK'
  BY <1>8, GeometryFields DEF ReturnHwParams, Return
<1>9. ASSUME NEW d \in Dirs, ReturnHwFree(d) PROVE DataOK'
  BY <1>9, GeometryFields DEF ReturnHwFree, Return, BufferReleased
<1>10. ASSUME NEW d \in Dirs, ReturnPrepare(d) PROVE DataOK'
  BY <1>10, GeometryFields DEF ReturnPrepare, Return
<1>11. ASSUME NEW d \in Dirs, ReturnStart(d) PROVE DataOK'
  BY <1>11, GeometryFields DEF ReturnStart, Return
<1>12. ASSUME NEW d \in Dirs, ReturnStop(d) PROVE DataOK'
  BY <1>12, GeometryFields DEF ReturnStop, Return
<1>13. ASSUME NEW d \in Dirs, StartEnter(d) PROVE DataOK'
  BY <1>13 DEF StartEnter
<1>14. ASSUME NEW d \in Dirs, StopEnter(d) PROVE DataOK'
  BY <1>14 DEF StopEnter, Clear
<1>15. ASSUME NEW d \in Dirs, Unmask(d) PROVE DataOK'
  BY <1>15 DEF Unmask
<1>16. ASSUME NEW d \in Dirs, Run(d) PROVE DataOK'
  BY <1>16 DEF Run
<1>17. ASSUME NEW d \in Dirs, Mask(d) PROVE DataOK'
  BY <1>17 DEF Mask
<1>18. ASSUME NEW d \in Dirs, Halt(d) PROVE DataOK'
  BY <1>18 DEF Halt
<1>19. ASSUME NEW d \in Dirs, Poll(d) PROVE DataOK'
  BY <1>19 DEF Poll
<1>20. ASSUME NEW d \in Dirs, Retire(d) PROVE DataOK'
  BY <1>20 DEF Retire
<1>21. ASSUME NEW d \in Dirs, Unmaster(d) PROVE DataOK'
  BY <1>21 DEF Unmaster
<1>22. ASSUME NEW d \in Dirs, LockHwParams(d) PROVE DataOK'
  BY <1>22 DEF LockHwParams, Acquire, Snapshot
<1>23. ASSUME NEW d \in Dirs, LockHwFree(d) PROVE DataOK'
  BY <1>23 DEF LockHwFree, Acquire, Snapshot
<1>24. ASSUME NEW d \in Dirs, LockPrepare(d) PROVE DataOK'
  BY <1>24 DEF LockPrepare, Acquire
<1>25. ASSUME NEW d \in Dirs, Sync(d) PROVE DataOK'
  BY <1>25 DEF Sync
<1>26. ASSUME NEW d \in Dirs, Switch(d) PROVE DataOK'
  BY <1>26, GeometryFields DEF Switch, FreeResources, ClearRegisters
<1>27. ASSUME NEW d \in Dirs, Build(d) PROVE DataOK'
  <2>1. req[d].bytes \in Nat
    BY GeometryFields
  <2>2. DriverOK'
    BY <1>27, <2>1 DEF Build, BuildResources, FreeResources, ClearRegisters, Forget
  <2>3. DeviceOK' /\ CoreOK' /\ LocalsOK'
    BY <1>27 DEF Build, BuildResources, FreeResources, ClearRegisters
  <2> QED
    BY <2>2, <2>3
<1>28. ASSUME NEW d \in Dirs, Detach(d) PROVE DataOK'
  <2>1. runtime[Other(d)].bytes \in Nat
    BY GeometryFields DEF Other
  <2>2. DriverOK'
    BY <1>28, <2>1 DEF Detach, BuildResources, FreeResources, ClearRegisters, Forget
  <2>3. DeviceOK' /\ LocalsOK'
    BY <1>28 DEF Detach, BuildResources, FreeResources, ClearRegisters
  <2>4. CoreOK'
    BY <1>28, <2>2 DEF Detach, BuildResources, FreeResources
  <2> QED
    BY <2>2, <2>3, <2>4
<1>29. ASSUME NEW d \in Dirs, Program(d) PROVE DataOK'
  BY <1>29 DEF Program
<1>30. ASSUME NEW d \in Dirs, Fetch(d) PROVE DataOK'
  BY <1>30 DEF Fetch
<1>31. ASSUME NEW d \in Dirs, Restore(d) PROVE DataOK'
  BY <1>31 DEF Restore
<1>32. ASSUME NEW d \in Dirs, Unlock(d) PROVE DataOK'
  BY <1>32 DEF Unlock, Release
<1>33. ASSUME NEW d \in Dirs, IrqReport(d) PROVE DataOK'
  BY <1>33 DEF IrqReport
<1>34. CASE DeviceStops
  BY <1>34 DEF DeviceStops
<1>35. CASE DeviceInterrupts
  BY <1>35 DEF DeviceInterrupts
<1>36. CASE IrqPick
  BY <1>36 DEF IrqPick
<1>37. CASE UNCHANGED vars
  BY <1>37 DEF vars
<1> QED
  BY <1>1, <1>2, <1>3, <1>4, <1>5, <1>6, <1>7, <1>8, <1>9, <1>10, <1>11,
    <1>12, <1>13, <1>14, <1>15, <1>16, <1>17, <1>18, <1>19, <1>20, <1>21,
    <1>22, <1>23, <1>24, <1>25, <1>26, <1>27, <1>28, <1>29, <1>30, <1>31,
    <1>32, <1>33, <1>34, <1>35, <1>36, <1>37 DEF Next, Call, Returns, Steps,
    Trigger, AudioStop, HwParams, Waits, IrqUnderrun

(* TypeOK is inductive by itself: the control part and the data part do not *)
(* depend on each other.                                                    *)
THEOREM Typing == Spec => []TypeOK
<1>1. TypeOK /\ [Next]_vars => TypeOK'
  BY StepControlOK, StepDataOK DEF TypeOK, DataOK
<1> QED
  BY InitTypeOK, <1>1, PTL DEF Spec

---------------------------------------------------------------------------
(* A callback restores only what it has snapshot: both the bits and the    *)
(* pointers, and only when something ran.                                  *)
RestoreComplete ==
  /\ running_substream = running
  /\ \A d \in Dirs :
       \/ pc[d] = "restore"
       \/ pc[d] \in {"program", "fetch"} /\ op[d] # "prepare"
       => running[d] # {}

EngineInv == Bookkeeping /\ NoOrphanEngine /\ RestoreComplete

LEMMA InitEngineInv == Init => EngineInv
BY DirsAssumption DEF Init, EngineInv, Bookkeeping, NoOrphanEngine, RestoreComplete

(* Every step keeps the flags, the pointers and the engine in agreement. *)
LEMMA StepEngineInv ==
  TypeOK /\ EngineInv /\ [Next]_vars => EngineInv'
<1> SUFFICES ASSUME TypeOK, EngineInv, [Next]_vars
             PROVE  EngineInv'
  OBVIOUS
<1> USE DEF TypeOK, LocalsOK, ControlOK, LabelsFit, EngineInv, Bookkeeping,
  NoOrphanEngine, RestoreComplete, At, In, Goto, StopLabels
<1>1. ASSUME NEW d \in Dirs, Open(d) PROVE EngineInv'
  BY <1>1 DEF Open
<1>2. ASSUME NEW d \in Dirs, Close(d) PROVE EngineInv'
  BY <1>2 DEF Close
<1>3. ASSUME NEW d \in Dirs, NEW g \in Geometries, CallHwParams(d, g) PROVE EngineInv'
  BY <1>3 DEF CallHwParams, Begin
<1>4. ASSUME NEW d \in Dirs, CallHwFree(d) PROVE EngineInv'
  BY <1>4 DEF CallHwFree, Begin
<1>5. ASSUME NEW d \in Dirs, CallPrepare(d) PROVE EngineInv'
  BY <1>5 DEF CallPrepare, Begin
<1>6. ASSUME NEW d \in Dirs, CallStart(d) PROVE EngineInv'
  BY <1>6 DEF CallStart, Begin
<1>7. ASSUME NEW d \in Dirs, CallStop(d) PROVE EngineInv'
  BY <1>7 DEF CallStop, Begin
<1>8. ASSUME NEW d \in Dirs, ReturnHwParams(d) PROVE EngineInv'
  BY <1>8 DEF ReturnHwParams, Return, ToIdle, Then
<1>9. ASSUME NEW d \in Dirs, ReturnHwFree(d) PROVE EngineInv'
  BY <1>9 DEF ReturnHwFree, Return, ToIdle, Then
<1>10. ASSUME NEW d \in Dirs, ReturnPrepare(d) PROVE EngineInv'
  BY <1>10 DEF ReturnPrepare, Return, ToIdle, Then
<1>11. ASSUME NEW d \in Dirs, ReturnStart(d) PROVE EngineInv'
  BY <1>11 DEF ReturnStart, Return, ToIdle, Then
<1>12. ASSUME NEW d \in Dirs, ReturnStop(d) PROVE EngineInv'
  BY <1>12 DEF ReturnStop, Return, ToIdle, Then
<1>13. ASSUME NEW d \in Dirs, StartEnter(d) PROVE EngineInv'
  BY <1>13 DEF StartEnter
<1>14. ASSUME NEW d \in Dirs, StopEnter(d) PROVE EngineInv'
  BY <1>14 DEF StopEnter, Clear, Last
<1>15. ASSUME NEW d \in Dirs, Unmask(d) PROVE EngineInv'
  BY <1>15 DEF Unmask
<1>16. ASSUME NEW d \in Dirs, Run(d) PROVE EngineInv'
  BY <1>16 DEF Run
<1>17. ASSUME NEW d \in Dirs, Mask(d) PROVE EngineInv'
  BY <1>17 DEF Mask, Stopped
<1>18. ASSUME NEW d \in Dirs, Halt(d) PROVE EngineInv'
  BY <1>18 DEF Halt
<1>19. ASSUME NEW d \in Dirs, Poll(d) PROVE EngineInv'
  BY <1>19 DEF Poll
<1>20. ASSUME NEW d \in Dirs, Retire(d) PROVE EngineInv'
  BY <1>20 DEF Retire, Stopped
<1>21. ASSUME NEW d \in Dirs, Unmaster(d) PROVE EngineInv'
  BY <1>21 DEF Unmaster
<1>22. ASSUME NEW d \in Dirs, LockHwParams(d) PROVE EngineInv'
  BY <1>22 DEF LockHwParams, Snapshot, Reconfigure
<1>23. ASSUME NEW d \in Dirs, LockHwFree(d) PROVE EngineInv'
  BY <1>23 DEF LockHwFree, Snapshot
<1>24. ASSUME NEW d \in Dirs, LockPrepare(d) PROVE EngineInv'
  BY <1>24 DEF LockPrepare
<1>25. ASSUME NEW d \in Dirs, Sync(d) PROVE EngineInv'
  BY <1>25 DEF Sync, Reconfigure
<1>26. ASSUME NEW d \in Dirs, Switch(d) PROVE EngineInv'
  BY <1>26 DEF Switch
<1>27. ASSUME NEW d \in Dirs, Build(d) PROVE EngineInv'
  BY <1>27 DEF Build
<1>28. ASSUME NEW d \in Dirs, Detach(d) PROVE EngineInv'
  BY <1>28 DEF Detach
<1>29. ASSUME NEW d \in Dirs, Program(d) PROVE EngineInv'
  BY <1>29 DEF Program
<1>30. ASSUME NEW d \in Dirs, Fetch(d) PROVE EngineInv'
  BY <1>30 DEF Fetch
<1>31. ASSUME NEW d \in Dirs, Restore(d) PROVE EngineInv'
  BY <1>31 DEF Restore
<1>32. ASSUME NEW d \in Dirs, Unlock(d) PROVE EngineInv'
  BY <1>32 DEF Unlock
<1>33. ASSUME NEW d \in Dirs, IrqReport(d) PROVE EngineInv'
  BY <1>33 DEF IrqReport
<1>34. CASE DeviceStops
  BY <1>34 DEF DeviceStops
<1>35. CASE DeviceInterrupts
  BY <1>35 DEF DeviceInterrupts
<1>36. CASE IrqPick
  BY <1>36 DEF IrqPick
<1>37. CASE UNCHANGED vars
  BY <1>37 DEF vars
<1> QED
  BY <1>1, <1>2, <1>3, <1>4, <1>5, <1>6, <1>7, <1>8, <1>9, <1>10, <1>11,
    <1>12, <1>13, <1>14, <1>15, <1>16, <1>17, <1>18, <1>19, <1>20, <1>21,
    <1>22, <1>23, <1>24, <1>25, <1>26, <1>27, <1>28, <1>29, <1>30, <1>31,
    <1>32, <1>33, <1>34, <1>35, <1>36, <1>37 DEF Next, Call, Returns, Steps,
    Trigger, AudioStop, HwParams, Waits, IrqUnderrun

(* The pointers the handler follows are those of the running directions,   *)
(* and an engine that runs for nobody is about to be retired.              *)
THEOREM EngineSafety == Spec => [](Bookkeeping /\ NoOrphanEngine)
<1>1. TypeOK /\ EngineInv /\ [Next]_vars => EngineInv'
  BY StepEngineInv
<1>2. EngineInv => Bookkeeping /\ NoOrphanEngine
  BY DEF EngineInv
<1> QED
  BY InitEngineInv, Typing, <1>1, <1>2, PTL DEF Spec

(* NoOrphanEngine on its own: in no reachable state does the engine run    *)
(* for nobody, unless a trigger that stopped the last direction is inside  *)
(* quantum_audio_stop, masking, halting, polling or about to retire it.    *)
THEOREM NoEngineOrphaned == Spec => []NoOrphanEngine
<1>1. Bookkeeping /\ NoOrphanEngine => NoOrphanEngine
  OBVIOUS
<1> QED
  BY EngineSafety, <1>1, PTL

-----------------------------------------------------------------------------
(* Between its lock and its unlock a callback is in its critical section.  *)
InCritical(d) ==
  op[d] \in {"hw_params", "hw_free", "prepare"} /\ pc[d] \notin {"lock", "return"}

(* audio_mutex belongs to the callback in its critical section. *)
MutexHeld == \A d \in Dirs : InCritical(d) => audio_mutex = d

LEMMA InitMutexHeld == Init => MutexHeld
BY DEF Init, MutexHeld, InCritical

(* Only a callback that finds audio_mutex free enters. *)
LEMMA StepMutexHeld ==
  TypeOK /\ MutexHeld /\ [Next]_vars => MutexHeld'
<1> SUFFICES ASSUME TypeOK, MutexHeld, [Next]_vars
             PROVE  MutexHeld'
  OBVIOUS
<1> USE DEF TypeOK, ControlOK, LabelsFit, MutexHeld, InCritical, At, In,
  Goto, StopLabels
<1>1. ASSUME NEW d \in Dirs, Open(d) PROVE MutexHeld'
  BY <1>1 DEF Open
<1>2. ASSUME NEW d \in Dirs, Close(d) PROVE MutexHeld'
  BY <1>2 DEF Close
<1>3. ASSUME NEW d \in Dirs, NEW g \in Geometries, CallHwParams(d, g) PROVE MutexHeld'
  BY <1>3 DEF CallHwParams, Begin
<1>4. ASSUME NEW d \in Dirs, CallHwFree(d) PROVE MutexHeld'
  BY <1>4 DEF CallHwFree, Begin
<1>5. ASSUME NEW d \in Dirs, CallPrepare(d) PROVE MutexHeld'
  BY <1>5 DEF CallPrepare, Begin
<1>6. ASSUME NEW d \in Dirs, CallStart(d) PROVE MutexHeld'
  BY <1>6 DEF CallStart, Begin
<1>7. ASSUME NEW d \in Dirs, CallStop(d) PROVE MutexHeld'
  BY <1>7 DEF CallStop, Begin
<1>8. ASSUME NEW d \in Dirs, ReturnHwParams(d) PROVE MutexHeld'
  BY <1>8 DEF ReturnHwParams, Return, ToIdle, Then
<1>9. ASSUME NEW d \in Dirs, ReturnHwFree(d) PROVE MutexHeld'
  BY <1>9 DEF ReturnHwFree, Return, ToIdle, Then
<1>10. ASSUME NEW d \in Dirs, ReturnPrepare(d) PROVE MutexHeld'
  BY <1>10 DEF ReturnPrepare, Return, ToIdle, Then
<1>11. ASSUME NEW d \in Dirs, ReturnStart(d) PROVE MutexHeld'
  BY <1>11 DEF ReturnStart, Return, ToIdle, Then
<1>12. ASSUME NEW d \in Dirs, ReturnStop(d) PROVE MutexHeld'
  BY <1>12 DEF ReturnStop, Return, ToIdle, Then
<1>13. ASSUME NEW d \in Dirs, StartEnter(d) PROVE MutexHeld'
  BY <1>13 DEF StartEnter
<1>14. ASSUME NEW d \in Dirs, StopEnter(d) PROVE MutexHeld'
  BY <1>14 DEF StopEnter, Clear, Last
<1>15. ASSUME NEW d \in Dirs, Unmask(d) PROVE MutexHeld'
  BY <1>15 DEF Unmask
<1>16. ASSUME NEW d \in Dirs, Run(d) PROVE MutexHeld'
  BY <1>16 DEF Run
<1>17. ASSUME NEW d \in Dirs, Mask(d) PROVE MutexHeld'
  BY <1>17 DEF Mask, Stopped
<1>18. ASSUME NEW d \in Dirs, Halt(d) PROVE MutexHeld'
  BY <1>18 DEF Halt
<1>19. ASSUME NEW d \in Dirs, Poll(d) PROVE MutexHeld'
  BY <1>19 DEF Poll
<1>20. ASSUME NEW d \in Dirs, Retire(d) PROVE MutexHeld'
  BY <1>20 DEF Retire, Stopped
<1>21. ASSUME NEW d \in Dirs, Unmaster(d) PROVE MutexHeld'
  BY <1>21 DEF Unmaster
<1>22. ASSUME NEW d \in Dirs, LockHwParams(d) PROVE MutexHeld'
  BY <1>22, DirsAssumption DEF LockHwParams, Snapshot, Reconfigure, Acquire
<1>23. ASSUME NEW d \in Dirs, LockHwFree(d) PROVE MutexHeld'
  BY <1>23, DirsAssumption DEF LockHwFree, Snapshot, Acquire
<1>24. ASSUME NEW d \in Dirs, LockPrepare(d) PROVE MutexHeld'
  BY <1>24, DirsAssumption DEF LockPrepare, Acquire
<1>25. ASSUME NEW d \in Dirs, Sync(d) PROVE MutexHeld'
  BY <1>25 DEF Sync, Reconfigure
<1>26. ASSUME NEW d \in Dirs, Switch(d) PROVE MutexHeld'
  BY <1>26 DEF Switch
<1>27. ASSUME NEW d \in Dirs, Build(d) PROVE MutexHeld'
  BY <1>27 DEF Build
<1>28. ASSUME NEW d \in Dirs, Detach(d) PROVE MutexHeld'
  BY <1>28 DEF Detach
<1>29. ASSUME NEW d \in Dirs, Program(d) PROVE MutexHeld'
  BY <1>29 DEF Program
<1>30. ASSUME NEW d \in Dirs, Fetch(d) PROVE MutexHeld'
  BY <1>30 DEF Fetch
<1>31. ASSUME NEW d \in Dirs, Restore(d) PROVE MutexHeld'
  BY <1>31 DEF Restore
<1>32. ASSUME NEW d \in Dirs, Unlock(d) PROVE MutexHeld'
  BY <1>32, DirsAssumption DEF Unlock, Release
<1>33. ASSUME NEW d \in Dirs, IrqReport(d) PROVE MutexHeld'
  BY <1>33 DEF IrqReport
<1>34. CASE DeviceStops
  BY <1>34 DEF DeviceStops
<1>35. CASE DeviceInterrupts
  BY <1>35 DEF DeviceInterrupts
<1>36. CASE IrqPick
  BY <1>36 DEF IrqPick
<1>37. CASE UNCHANGED vars
  BY <1>37 DEF vars
<1> QED
  BY <1>1, <1>2, <1>3, <1>4, <1>5, <1>6, <1>7, <1>8, <1>9, <1>10, <1>11,
    <1>12, <1>13, <1>14, <1>15, <1>16, <1>17, <1>18, <1>19, <1>20, <1>21,
    <1>22, <1>23, <1>24, <1>25, <1>26, <1>27, <1>28, <1>29, <1>30, <1>31,
    <1>32, <1>33, <1>34, <1>35, <1>36, <1>37 DEF Next, Call, Returns, Steps,
    Trigger, AudioStop, HwParams, Waits, IrqUnderrun

(* At most one direction is in its critical section. *)
THEOREM MutualExclusion ==
  Spec => [](\A d, e \in Dirs : InCritical(d) /\ InCritical(e) => d = e)
<1>1. TypeOK /\ MutexHeld /\ [Next]_vars => MutexHeld'
  BY StepMutexHeld
<1>2. MutexHeld => \A d, e \in Dirs : InCritical(d) /\ InCritical(e) => d = e
  BY DEF MutexHeld
<1> QED
  BY InitMutexHeld, Typing, <1>1, <1>2, PTL DEF Spec

-----------------------------------------------------------------------------
(* Tables are built for the directions that have parameters, exist while   *)
(* they are being programmed, and are in the registers while they are      *)
(* being fetched.                                                          *)
TablesBuilt ==
  /\ tables \in {None, audio_params}
  /\ \A d \in Dirs :
       /\ pc[d] \in {"program", "fetch"} => tables # None
       /\ pc[d] = "fetch" => hw_table /\ audio_buffer_bytes > 0

TablesInv == PreparedMeansProgrammed /\ TablesBuilt

LEMMA InitTablesInv == Init => TablesInv
BY DEF Init, TablesInv, PreparedMeansProgrammed, TablesBuilt

(* Tables are rebuilt, freed and programmed under audio_mutex only, and
   whoever does so takes back what had been prepared. *)
LEMMA StepTablesInv ==
  TypeOK /\ MutexHeld /\ TablesInv /\ [Next]_vars => TablesInv'
<1> SUFFICES ASSUME TypeOK, MutexHeld, TablesInv, [Next]_vars
             PROVE  TablesInv'
  OBVIOUS
<1> USE DEF TypeOK, DriverOK, ControlOK, LabelsFit, MutexHeld, InCritical,
  TablesInv, PreparedMeansProgrammed, TablesBuilt, At, In, Goto, StopLabels
<1>1. ASSUME NEW d \in Dirs, Open(d) PROVE TablesInv'
  BY <1>1 DEF Open
<1>2. ASSUME NEW d \in Dirs, Close(d) PROVE TablesInv'
  BY <1>2 DEF Close
<1>3. ASSUME NEW d \in Dirs, NEW g \in Geometries, CallHwParams(d, g) PROVE TablesInv'
  BY <1>3 DEF CallHwParams, Begin
<1>4. ASSUME NEW d \in Dirs, CallHwFree(d) PROVE TablesInv'
  BY <1>4 DEF CallHwFree, Begin
<1>5. ASSUME NEW d \in Dirs, CallPrepare(d) PROVE TablesInv'
  BY <1>5 DEF CallPrepare, Begin
<1>6. ASSUME NEW d \in Dirs, CallStart(d) PROVE TablesInv'
  BY <1>6 DEF CallStart, Begin
<1>7. ASSUME NEW d \in Dirs, CallStop(d) PROVE TablesInv'
  BY <1>7 DEF CallStop, Begin
<1>8. ASSUME NEW d \in Dirs, ReturnHwParams(d) PROVE TablesInv'
  BY <1>8 DEF ReturnHwParams, Return, ToIdle, Then
<1>9. ASSUME NEW d \in Dirs, ReturnHwFree(d) PROVE TablesInv'
  BY <1>9 DEF ReturnHwFree, Return, ToIdle, Then
<1>10. ASSUME NEW d \in Dirs, ReturnPrepare(d) PROVE TablesInv'
  BY <1>10 DEF ReturnPrepare, Return, ToIdle, Then
<1>11. ASSUME NEW d \in Dirs, ReturnStart(d) PROVE TablesInv'
  BY <1>11 DEF ReturnStart, Return, ToIdle, Then
<1>12. ASSUME NEW d \in Dirs, ReturnStop(d) PROVE TablesInv'
  BY <1>12 DEF ReturnStop, Return, ToIdle, Then
<1>13. ASSUME NEW d \in Dirs, StartEnter(d) PROVE TablesInv'
  BY <1>13 DEF StartEnter
<1>14. ASSUME NEW d \in Dirs, StopEnter(d) PROVE TablesInv'
  BY <1>14 DEF StopEnter, Clear, Last
<1>15. ASSUME NEW d \in Dirs, Unmask(d) PROVE TablesInv'
  BY <1>15 DEF Unmask
<1>16. ASSUME NEW d \in Dirs, Run(d) PROVE TablesInv'
  BY <1>16 DEF Run
<1>17. ASSUME NEW d \in Dirs, Mask(d) PROVE TablesInv'
  BY <1>17 DEF Mask, Stopped
<1>18. ASSUME NEW d \in Dirs, Halt(d) PROVE TablesInv'
  BY <1>18 DEF Halt
<1>19. ASSUME NEW d \in Dirs, Poll(d) PROVE TablesInv'
  BY <1>19 DEF Poll
<1>20. ASSUME NEW d \in Dirs, Retire(d) PROVE TablesInv'
  BY <1>20 DEF Retire, Stopped
<1>21. ASSUME NEW d \in Dirs, Unmaster(d) PROVE TablesInv'
  BY <1>21 DEF Unmaster
<1>22. ASSUME NEW d \in Dirs, LockHwParams(d) PROVE TablesInv'
  BY <1>22 DEF LockHwParams, Snapshot, Reconfigure
<1>23. ASSUME NEW d \in Dirs, LockHwFree(d) PROVE TablesInv'
  BY <1>23 DEF LockHwFree, Snapshot
<1>24. ASSUME NEW d \in Dirs, LockPrepare(d) PROVE TablesInv'
  BY <1>24 DEF LockPrepare
<1>25. ASSUME NEW d \in Dirs, Sync(d) PROVE TablesInv'
  BY <1>25 DEF Sync, Reconfigure
<1>26. ASSUME NEW d \in Dirs, Switch(d) PROVE TablesInv'
  BY <1>26 DEF Switch, FreeResources, ClearRegisters
<1>27. ASSUME NEW d \in Dirs, Build(d) PROVE TablesInv'
  BY <1>27, NoneAssumption DEF Build, BuildResources, FreeResources,
    ClearRegisters, Forget
<1>28. ASSUME NEW d \in Dirs, Detach(d) PROVE TablesInv'
  BY <1>28, NoneAssumption DEF Detach, BuildResources, FreeResources,
    ClearRegisters, Forget
<1>29. ASSUME NEW d \in Dirs, Program(d) PROVE TablesInv'
  BY <1>29 DEF Program
<1>30. ASSUME NEW d \in Dirs, Fetch(d) PROVE TablesInv'
  BY <1>30 DEF Fetch
<1>31. ASSUME NEW d \in Dirs, Restore(d) PROVE TablesInv'
  BY <1>31 DEF Restore
<1>32. ASSUME NEW d \in Dirs, Unlock(d) PROVE TablesInv'
  BY <1>32 DEF Unlock
<1>33. ASSUME NEW d \in Dirs, IrqReport(d) PROVE TablesInv'
  BY <1>33 DEF IrqReport
<1>34. CASE DeviceStops
  BY <1>34 DEF DeviceStops
<1>35. CASE DeviceInterrupts
  BY <1>35 DEF DeviceInterrupts
<1>36. CASE IrqPick
  BY <1>36 DEF IrqPick
<1>37. CASE UNCHANGED vars
  BY <1>37 DEF vars
<1> QED
  BY <1>1, <1>2, <1>3, <1>4, <1>5, <1>6, <1>7, <1>8, <1>9, <1>10, <1>11,
    <1>12, <1>13, <1>14, <1>15, <1>16, <1>17, <1>18, <1>19, <1>20, <1>21,
    <1>22, <1>23, <1>24, <1>25, <1>26, <1>27, <1>28, <1>29, <1>30, <1>31,
    <1>32, <1>33, <1>34, <1>35, <1>36, <1>37 DEF Next, Call, Returns, Steps,
    Trigger, AudioStop, HwParams, Waits, IrqUnderrun

(* A direction that a start admits has parameters and fetched tables. *)
THEOREM PreparedSafety == Spec => []PreparedMeansProgrammed
<1>1. TypeOK /\ MutexHeld /\ [Next]_vars => MutexHeld'
  BY StepMutexHeld
<1>2. TypeOK /\ MutexHeld /\ TablesInv /\ [Next]_vars => TablesInv'
  BY StepTablesInv
<1>3. TablesInv => PreparedMeansProgrammed
  BY DEF TablesInv
<1> QED
  BY InitMutexHeld, InitTablesInv, Typing, <1>1, <1>2, <1>3, PTL DEF Spec
---------------------------------------------------------------------------
(***************************************************************************)
(* What the driver guarantees when the callbacks of the two directions do  *)
(* not overlap, as with one client that opens both.  Overlapping = {} is a *)
(* hypothesis of every statement that needs it.                            *)
(***************************************************************************)
OneAtATime == \A d, e \in Dirs : pc[d] # "idle" /\ pc[e] # "idle" => d = e

Serial == Overlapping = {} /\ OneAtATime

LEMMA InitOneAtATime == Init => OneAtATime
BY DEF Init, OneAtATime

(* A callback begins only when no other is in progress. *)
LEMMA StepSerial ==
  TypeOK /\ Serial /\ [Next]_vars => Serial'
<1> SUFFICES ASSUME TypeOK, Serial, [Next]_vars
             PROVE  Serial'
  OBVIOUS
<1> USE DEF TypeOK, ControlOK, Serial, OneAtATime, At, In, Goto, Idle
<1>1. ASSUME NEW d \in Dirs, Open(d) PROVE Serial'
  BY <1>1 DEF Open
<1>2. ASSUME NEW d \in Dirs, Close(d) PROVE Serial'
  BY <1>2 DEF Close
<1>3. ASSUME NEW d \in Dirs, NEW g \in Geometries, CallHwParams(d, g) PROVE Serial'
  BY <1>3 DEF CallHwParams, Begin
<1>4. ASSUME NEW d \in Dirs, CallHwFree(d) PROVE Serial'
  BY <1>4 DEF CallHwFree, Begin
<1>5. ASSUME NEW d \in Dirs, CallPrepare(d) PROVE Serial'
  BY <1>5 DEF CallPrepare, Begin
<1>6. ASSUME NEW d \in Dirs, CallStart(d) PROVE Serial'
  BY <1>6 DEF CallStart, Begin
<1>7. ASSUME NEW d \in Dirs, CallStop(d) PROVE Serial'
  BY <1>7 DEF CallStop, Begin
<1>8. ASSUME NEW d \in Dirs, ReturnHwParams(d) PROVE Serial'
  BY <1>8 DEF ReturnHwParams, Return, ToIdle, Then
<1>9. ASSUME NEW d \in Dirs, ReturnHwFree(d) PROVE Serial'
  BY <1>9 DEF ReturnHwFree, Return, ToIdle, Then
<1>10. ASSUME NEW d \in Dirs, ReturnPrepare(d) PROVE Serial'
  BY <1>10 DEF ReturnPrepare, Return, ToIdle, Then
<1>11. ASSUME NEW d \in Dirs, ReturnStart(d) PROVE Serial'
  BY <1>11 DEF ReturnStart, Return, ToIdle, Then
<1>12. ASSUME NEW d \in Dirs, ReturnStop(d) PROVE Serial'
  BY <1>12 DEF ReturnStop, Return, ToIdle, Then
<1>13. ASSUME NEW d \in Dirs, StartEnter(d) PROVE Serial'
  BY <1>13 DEF StartEnter
<1>14. ASSUME NEW d \in Dirs, StopEnter(d) PROVE Serial'
  BY <1>14 DEF StopEnter, Clear, Last
<1>15. ASSUME NEW d \in Dirs, Unmask(d) PROVE Serial'
  BY <1>15 DEF Unmask
<1>16. ASSUME NEW d \in Dirs, Run(d) PROVE Serial'
  BY <1>16 DEF Run
<1>17. ASSUME NEW d \in Dirs, Mask(d) PROVE Serial'
  BY <1>17 DEF Mask, Stopped
<1>18. ASSUME NEW d \in Dirs, Halt(d) PROVE Serial'
  BY <1>18 DEF Halt
<1>19. ASSUME NEW d \in Dirs, Poll(d) PROVE Serial'
  BY <1>19 DEF Poll
<1>20. ASSUME NEW d \in Dirs, Retire(d) PROVE Serial'
  BY <1>20 DEF Retire, Stopped
<1>21. ASSUME NEW d \in Dirs, Unmaster(d) PROVE Serial'
  BY <1>21 DEF Unmaster
<1>22. ASSUME NEW d \in Dirs, LockHwParams(d) PROVE Serial'
  BY <1>22 DEF LockHwParams, Snapshot, Reconfigure
<1>23. ASSUME NEW d \in Dirs, LockHwFree(d) PROVE Serial'
  BY <1>23 DEF LockHwFree, Snapshot
<1>24. ASSUME NEW d \in Dirs, LockPrepare(d) PROVE Serial'
  BY <1>24 DEF LockPrepare
<1>25. ASSUME NEW d \in Dirs, Sync(d) PROVE Serial'
  BY <1>25 DEF Sync, Reconfigure
<1>26. ASSUME NEW d \in Dirs, Switch(d) PROVE Serial'
  BY <1>26 DEF Switch
<1>27. ASSUME NEW d \in Dirs, Build(d) PROVE Serial'
  BY <1>27 DEF Build
<1>28. ASSUME NEW d \in Dirs, Detach(d) PROVE Serial'
  BY <1>28 DEF Detach
<1>29. ASSUME NEW d \in Dirs, Program(d) PROVE Serial'
  BY <1>29 DEF Program
<1>30. ASSUME NEW d \in Dirs, Fetch(d) PROVE Serial'
  BY <1>30 DEF Fetch
<1>31. ASSUME NEW d \in Dirs, Restore(d) PROVE Serial'
  BY <1>31 DEF Restore
<1>32. ASSUME NEW d \in Dirs, Unlock(d) PROVE Serial'
  BY <1>32 DEF Unlock
<1>33. ASSUME NEW d \in Dirs, IrqReport(d) PROVE Serial'
  BY <1>33 DEF IrqReport
<1>34. CASE DeviceStops
  BY <1>34 DEF DeviceStops
<1>35. CASE DeviceInterrupts
  BY <1>35 DEF DeviceInterrupts
<1>36. CASE IrqPick
  BY <1>36 DEF IrqPick
<1>37. CASE UNCHANGED vars
  BY <1>37 DEF vars
<1> QED
  BY <1>1, <1>2, <1>3, <1>4, <1>5, <1>6, <1>7, <1>8, <1>9, <1>10, <1>11,
    <1>12, <1>13, <1>14, <1>15, <1>16, <1>17, <1>18, <1>19, <1>20, <1>21,
    <1>22, <1>23, <1>24, <1>25, <1>26, <1>27, <1>28, <1>29, <1>30, <1>31,
    <1>32, <1>33, <1>34, <1>35, <1>36, <1>37 DEF Next, Call, Returns, Steps,
    Trigger, AudioStop, HwParams, Waits, IrqUnderrun

-----------------------------------------------------------------------------
(* A device that may move data belongs to a running engine, or is about to *)
(* lose the bus; an engine that stopped in time is at rest.  Tables are    *)
(* rebuilt under a retired engine, and RUN is written with tables in the   *)
(* registers.                                                              *)
DmaInv ==
  /\ DmaThroughLiveTables
  /\ hw_busy /\ master => audio_engine_running \/ \E d \in Dirs : pc[d] = "unmaster"
  /\ \A d \in Dirs :
       /\ pc[d] = "retire" /\ d \notin failed => ~hw_busy
       /\ pc[d] \in {"sync", "switch", "build", "detach", "program", "fetch", "restore"}
            => ~audio_engine_running
       /\ pc[d] \in {"fetch", "restore", "unmask", "run"} => tables # None /\ hw_table
       /\ pc[d] \in {"unmask", "run"} => audio_engine_running

LEMMA InitDmaInv == Init => DmaInv
BY DEF Init, DmaInv, DmaThroughLiveTables

(* No step leaves the device moving data through tables that are gone. *)
LEMMA StepDmaInv ==
  TypeOK /\ Serial /\ EngineInv /\ TablesInv /\ DmaInv /\ [Next]_vars => DmaInv'
<1> SUFFICES ASSUME TypeOK, Serial, EngineInv, TablesInv, DmaInv, [Next]_vars
             PROVE  DmaInv'
  OBVIOUS
<1> USE DEF TypeOK, DriverOK, DeviceOK, LocalsOK, ControlOK, LabelsFit,
  StopLabels, Serial, OneAtATime, EngineInv, NoOrphanEngine, Bookkeeping,
  TablesInv, TablesBuilt, PreparedMeansProgrammed, DmaInv,
  DmaThroughLiveTables, Ops, Labels, At, In, Goto, Fails
<1>1. ASSUME NEW d \in Dirs, Open(d) PROVE DmaInv'
  BY <1>1 DEF Open
<1>2. ASSUME NEW d \in Dirs, Close(d) PROVE DmaInv'
  BY <1>2 DEF Close
<1>3. ASSUME NEW d \in Dirs, NEW g \in Geometries, CallHwParams(d, g) PROVE DmaInv'
  BY <1>3 DEF CallHwParams, Begin
<1>4. ASSUME NEW d \in Dirs, CallHwFree(d) PROVE DmaInv'
  BY <1>4 DEF CallHwFree, Begin
<1>5. ASSUME NEW d \in Dirs, CallPrepare(d) PROVE DmaInv'
  BY <1>5 DEF CallPrepare, Begin
<1>6. ASSUME NEW d \in Dirs, CallStart(d) PROVE DmaInv'
  BY <1>6 DEF CallStart, Begin
<1>7. ASSUME NEW d \in Dirs, CallStop(d) PROVE DmaInv'
  BY <1>7 DEF CallStop, Begin
<1>8. ASSUME NEW d \in Dirs, ReturnHwParams(d) PROVE DmaInv'
  BY <1>8 DEF ReturnHwParams, Return, ToIdle, Then
<1>9. ASSUME NEW d \in Dirs, ReturnHwFree(d) PROVE DmaInv'
  BY <1>9 DEF ReturnHwFree, Return, ToIdle, Then
<1>10. ASSUME NEW d \in Dirs, ReturnPrepare(d) PROVE DmaInv'
  BY <1>10 DEF ReturnPrepare, Return, ToIdle, Then
<1>11. ASSUME NEW d \in Dirs, ReturnStart(d) PROVE DmaInv'
  BY <1>11 DEF ReturnStart, Return, ToIdle, Then
<1>12. ASSUME NEW d \in Dirs, ReturnStop(d) PROVE DmaInv'
  BY <1>12 DEF ReturnStop, Return, ToIdle, Then
<1>13. ASSUME NEW d \in Dirs, StartEnter(d) PROVE DmaInv'
  BY <1>13, NoneAssumption DEF StartEnter, Fails
<1>14. ASSUME NEW d \in Dirs, StopEnter(d) PROVE DmaInv'
  BY <1>14 DEF StopEnter, Clear, Last
<1>15. ASSUME NEW d \in Dirs, Unmask(d) PROVE DmaInv'
  BY <1>15 DEF Unmask
<1>16. ASSUME NEW d \in Dirs, Run(d) PROVE DmaInv'
  BY <1>16 DEF Run
<1>17. ASSUME NEW d \in Dirs, Mask(d) PROVE DmaInv'
  BY <1>17 DEF Mask, Stopped
<1>18. ASSUME NEW d \in Dirs, Halt(d) PROVE DmaInv'
  BY <1>18 DEF Halt
<1>19. ASSUME NEW d \in Dirs, Poll(d) PROVE DmaInv'
  BY <1>19 DEF Poll
<1>20. ASSUME NEW d \in Dirs, Retire(d) PROVE DmaInv'
  BY <1>20 DEF Retire, Stopped
<1>21. ASSUME NEW d \in Dirs, Unmaster(d) PROVE DmaInv'
  BY <1>21 DEF Unmaster
<1>22. ASSUME NEW d \in Dirs, LockHwParams(d) PROVE DmaInv'
  BY <1>22 DEF LockHwParams, Snapshot, Reconfigure
<1>23. ASSUME NEW d \in Dirs, LockHwFree(d) PROVE DmaInv'
  BY <1>23 DEF LockHwFree, Snapshot
<1>24. ASSUME NEW d \in Dirs, LockPrepare(d) PROVE DmaInv'
  BY <1>24 DEF LockPrepare
<1>25. ASSUME NEW d \in Dirs, Sync(d) PROVE DmaInv'
  BY <1>25 DEF Sync, Reconfigure
<1>26. ASSUME NEW d \in Dirs, Switch(d) PROVE DmaInv'
  BY <1>26 DEF Switch, FreeResources, ClearRegisters
<1>27. ASSUME NEW d \in Dirs, Build(d) PROVE DmaInv'
  BY <1>27 DEF Build, BuildResources, FreeResources, ClearRegisters, Forget
<1>28. ASSUME NEW d \in Dirs, Detach(d) PROVE DmaInv'
  BY <1>28 DEF Detach, BuildResources, FreeResources, ClearRegisters, Forget
<1>29. ASSUME NEW d \in Dirs, Program(d) PROVE DmaInv'
  BY <1>29 DEF Program
<1>30. ASSUME NEW d \in Dirs, Fetch(d) PROVE DmaInv'
  BY <1>30 DEF Fetch
<1>31. ASSUME NEW d \in Dirs, Restore(d) PROVE DmaInv'
  BY <1>31 DEF Restore
<1>32. ASSUME NEW d \in Dirs, Unlock(d) PROVE DmaInv'
  BY <1>32 DEF Unlock
<1>33. ASSUME NEW d \in Dirs, IrqReport(d) PROVE DmaInv'
  BY <1>33 DEF IrqReport
<1>34. CASE DeviceStops
  BY <1>34 DEF DeviceStops
<1>35. CASE DeviceInterrupts
  BY <1>35 DEF DeviceInterrupts
<1>36. CASE IrqPick
  BY <1>36 DEF IrqPick
<1>37. CASE UNCHANGED vars
  BY <1>37 DEF vars
<1> QED
  BY <1>1, <1>2, <1>3, <1>4, <1>5, <1>6, <1>7, <1>8, <1>9, <1>10, <1>11,
    <1>12, <1>13, <1>14, <1>15, <1>16, <1>17, <1>18, <1>19, <1>20, <1>21,
    <1>22, <1>23, <1>24, <1>25, <1>26, <1>27, <1>28, <1>29, <1>30, <1>31,
    <1>32, <1>33, <1>34, <1>35, <1>36, <1>37 DEF Next, Call, Returns, Steps,
    Trigger, AudioStop, HwParams, Waits, IrqUnderrun

(* RUN, the interrupt mask and the flag of the engine agree except between *)
(* the steps that a stop and a start take to change them one by one.       *)
FlagsInv ==
  /\ (\A d \in Dirs : pc[d] \notin {"halt", "poll", "retire", "unmask", "run"}) =>
       (audio_engine_running <=> hw_run) /\ (audio_engine_running <=> irq_mask)
  /\ \A d \in Dirs :
       /\ pc[d] = "halt" => ~irq_mask
       /\ pc[d] \in {"poll", "retire", "unmask"} => ~hw_run /\ ~irq_mask
       /\ pc[d] = "run" => ~hw_run /\ irq_mask

(* A direction that runs is streaming or being started, a snapshot is of   *)
(* streaming directions, and what is not streaming has its parameters set. *)
Started == {d \in Dirs : op[d] = "start" /\ pc[d] # "enter" /\ d \notin failed}
StreamsInv ==
  /\ audio_running \subseteq Streaming \cup Started
  /\ \A d \in Dirs :
       /\ running[d] \subseteq Streaming
       /\ pc[d] \in {"idle", "lock"} => running[d] = {}
       /\ op[d] \notin {"none", "stop"} => alsa[d] # "running"
       /\ op[d] = "start" /\ pc[d] = "enter" => d \notin failed
       /\ op[d] \in {"stop", "undo"} /\ pc[d] # "enter" => d \notin audio_running

(* From synchronize_irq to the restore the handler has nothing to report:  *)
(* it finds the engine retired.                                            *)
QuietInv ==
  \A d \in Dirs :
    running[d] # {} /\ pc[d] \in {"switch", "build", "detach", "program", "fetch", "restore"}
      => irq_held = {}

LEMMA InitPlay == Init => FlagsInv /\ StreamsInv /\ QuietInv
BY DEF Init, FlagsInv, StreamsInv, QuietInv

LEMMA StepFlagsInv ==
  TypeOK /\ Serial /\ DmaInv /\ FlagsInv /\ [Next]_vars => FlagsInv'
<1> SUFFICES ASSUME TypeOK, Serial, DmaInv, FlagsInv, [Next]_vars
             PROVE  FlagsInv'
  OBVIOUS
<1> USE DEF TypeOK, DriverOK, DeviceOK, ControlOK, LabelsFit, StopLabels, Serial,
  OneAtATime, DmaInv, FlagsInv, Ops, Labels, At, In, Goto, Idle, Fails
<1>1. ASSUME NEW d \in Dirs, Open(d) PROVE FlagsInv'
  BY <1>1 DEF Open
<1>2. ASSUME NEW d \in Dirs, Close(d) PROVE FlagsInv'
  BY <1>2 DEF Close
<1>3. ASSUME NEW d \in Dirs, NEW g \in Geometries, CallHwParams(d, g) PROVE FlagsInv'
  BY <1>3 DEF CallHwParams, Begin, BufferReleased
<1>4. ASSUME NEW d \in Dirs, CallHwFree(d) PROVE FlagsInv'
  BY <1>4 DEF CallHwFree, Begin
<1>5. ASSUME NEW d \in Dirs, CallPrepare(d) PROVE FlagsInv'
  BY <1>5 DEF CallPrepare, Begin
<1>6. ASSUME NEW d \in Dirs, CallStart(d) PROVE FlagsInv'
  BY <1>6 DEF CallStart, Begin
<1>7. ASSUME NEW d \in Dirs, CallStop(d) PROVE FlagsInv'
  BY <1>7 DEF CallStop, Begin
<1>8. ASSUME NEW d \in Dirs, ReturnHwParams(d) PROVE FlagsInv'
  BY <1>8 DEF ReturnHwParams, Return, ToIdle, Then
<1>9. ASSUME NEW d \in Dirs, ReturnHwFree(d) PROVE FlagsInv'
  BY <1>9 DEF ReturnHwFree, Return, ToIdle, Then
<1>10. ASSUME NEW d \in Dirs, ReturnPrepare(d) PROVE FlagsInv'
  BY <1>10 DEF ReturnPrepare, Return, ToIdle, Then
<1>11. ASSUME NEW d \in Dirs, ReturnStart(d) PROVE FlagsInv'
  BY <1>11 DEF ReturnStart, Return, ToIdle, Then
<1>12. ASSUME NEW d \in Dirs, ReturnStop(d) PROVE FlagsInv'
  BY <1>12 DEF ReturnStop, Return, ToIdle, Then
<1>13. ASSUME NEW d \in Dirs, StartEnter(d) PROVE FlagsInv'
  BY <1>13 DEF StartEnter
<1>14. ASSUME NEW d \in Dirs, StopEnter(d) PROVE FlagsInv'
  BY <1>14 DEF StopEnter, Clear, Last
<1>15. ASSUME NEW d \in Dirs, Unmask(d) PROVE FlagsInv'
  BY <1>15 DEF Unmask
<1>16. ASSUME NEW d \in Dirs, Run(d) PROVE FlagsInv'
  BY <1>16 DEF Run
<1>17. ASSUME NEW d \in Dirs, Mask(d) PROVE FlagsInv'
  BY <1>17 DEF Mask, Stopped
<1>18. ASSUME NEW d \in Dirs, Halt(d) PROVE FlagsInv'
  BY <1>18 DEF Halt
<1>19. ASSUME NEW d \in Dirs, Poll(d) PROVE FlagsInv'
  BY <1>19 DEF Poll
<1>20. ASSUME NEW d \in Dirs, Retire(d) PROVE FlagsInv'
  BY <1>20 DEF Retire, Stopped
<1>21. ASSUME NEW d \in Dirs, Unmaster(d) PROVE FlagsInv'
  BY <1>21 DEF Unmaster
<1>22. ASSUME NEW d \in Dirs, LockHwParams(d) PROVE FlagsInv'
  BY <1>22 DEF LockHwParams, Snapshot, Reconfigure
<1>23. ASSUME NEW d \in Dirs, LockHwFree(d) PROVE FlagsInv'
  BY <1>23 DEF LockHwFree, Snapshot
<1>24. ASSUME NEW d \in Dirs, LockPrepare(d) PROVE FlagsInv'
  BY <1>24 DEF LockPrepare
<1>25. ASSUME NEW d \in Dirs, Sync(d) PROVE FlagsInv'
  BY <1>25 DEF Sync, Reconfigure, IrqSynchronized
<1>26. ASSUME NEW d \in Dirs, Switch(d) PROVE FlagsInv'
  BY <1>26 DEF Switch, FreeResources, ClearRegisters
<1>27. ASSUME NEW d \in Dirs, Build(d) PROVE FlagsInv'
  BY <1>27 DEF Build, BuildResources, FreeResources, ClearRegisters, Forget
<1>28. ASSUME NEW d \in Dirs, Detach(d) PROVE FlagsInv'
  BY <1>28 DEF Detach, BuildResources, FreeResources, ClearRegisters, Forget
<1>29. ASSUME NEW d \in Dirs, Program(d) PROVE FlagsInv'
  BY <1>29 DEF Program
<1>30. ASSUME NEW d \in Dirs, Fetch(d) PROVE FlagsInv'
  BY <1>30 DEF Fetch
<1>31. ASSUME NEW d \in Dirs, Restore(d) PROVE FlagsInv'
  BY <1>31 DEF Restore
<1>32. ASSUME NEW d \in Dirs, Unlock(d) PROVE FlagsInv'
  BY <1>32 DEF Unlock
<1>33. ASSUME NEW d \in Dirs, IrqReport(d) PROVE FlagsInv'
  BY <1>33 DEF IrqReport
<1>34. CASE DeviceStops
  BY <1>34 DEF DeviceStops
<1>35. CASE DeviceInterrupts
  BY <1>35 DEF DeviceInterrupts
<1>36. CASE IrqPick
  BY <1>36 DEF IrqPick
<1>37. CASE UNCHANGED vars
  BY <1>37 DEF vars
<1> QED
  BY <1>1, <1>2, <1>3, <1>4, <1>5, <1>6, <1>7, <1>8, <1>9, <1>10,
    <1>11, <1>12, <1>13, <1>14, <1>15, <1>16, <1>17, <1>18, <1>19,
    <1>20, <1>21, <1>22, <1>23, <1>24, <1>25, <1>26, <1>27, <1>28,
    <1>29, <1>30, <1>31, <1>32, <1>33, <1>34, <1>35, <1>36, <1>37 DEF Next, Call,
    Returns, Steps,
    Trigger, AudioStop, HwParams, Waits, IrqUnderrun

LEMMA StepStreamsInv ==
  TypeOK /\ Serial /\ StreamsInv /\ [Next]_vars => StreamsInv'
<1> SUFFICES ASSUME TypeOK, Serial, StreamsInv, [Next]_vars
             PROVE  StreamsInv'
  OBVIOUS
<1> USE DEF TypeOK, DriverOK, CoreOK, LocalsOK, ControlOK, LabelsFit, StopLabels,
  Serial,
  OneAtATime, StreamsInv, Streaming, Started, Ops, Labels, At, In, Goto, Idle, Fails
<1>1. ASSUME NEW d \in Dirs, Open(d) PROVE StreamsInv'
  BY <1>1 DEF Open
<1>2. ASSUME NEW d \in Dirs, Close(d) PROVE StreamsInv'
  BY <1>2 DEF Close
<1>3. ASSUME NEW d \in Dirs, NEW g \in Geometries, CallHwParams(d, g)
      PROVE  StreamsInv'
  <2>1. /\ audio_running' = audio_running /\ running' = running
        /\ pc[d] = "idle" /\ pc' = [pc EXCEPT ![d] = "lock"]
        /\ failed' = failed \ {d}
    BY <1>3 DEF CallHwParams, Begin
  <2>2. \E o \in {"hw_params", "hw_free"} : op' = [op EXCEPT ![d] = o]
    BY <1>3 DEF CallHwParams, Begin
  <2>3. alsa[d] # "running" /\ (alsa' = alsa \/ alsa' = [alsa EXCEPT ![d] = "open"])
    BY <1>3, EnvironmentAssumption DEF CallHwParams
  <2> QED
    BY <2>1, <2>2, <2>3
<1>4. ASSUME NEW d \in Dirs, CallHwFree(d) PROVE StreamsInv'
  BY <1>4 DEF CallHwFree, Begin
<1>5. ASSUME NEW d \in Dirs, CallPrepare(d) PROVE StreamsInv'
  BY <1>5 DEF CallPrepare, Begin
<1>6. ASSUME NEW d \in Dirs, CallStart(d) PROVE StreamsInv'
  BY <1>6 DEF CallStart, Begin
<1>7. ASSUME NEW d \in Dirs, CallStop(d) PROVE StreamsInv'
  BY <1>7 DEF CallStop, Begin
<1>8. ASSUME NEW d \in Dirs, ReturnHwParams(d) PROVE StreamsInv'
  BY <1>8 DEF ReturnHwParams, Return, ToIdle, Then
<1>9. ASSUME NEW d \in Dirs, ReturnHwFree(d) PROVE StreamsInv'
  BY <1>9 DEF ReturnHwFree, Return, ToIdle, Then
<1>10. ASSUME NEW d \in Dirs, ReturnPrepare(d) PROVE StreamsInv'
  BY <1>10 DEF ReturnPrepare, Return, ToIdle, Then
<1>11. ASSUME NEW d \in Dirs, ReturnStart(d) PROVE StreamsInv'
  BY <1>11 DEF ReturnStart, Return, ToIdle, Then
<1>12. ASSUME NEW d \in Dirs, ReturnStop(d) PROVE StreamsInv'
  BY <1>12 DEF ReturnStop, Return, ToIdle, Then
<1>13. ASSUME NEW d \in Dirs, StartEnter(d) PROVE StreamsInv'
  BY <1>13 DEF StartEnter
<1>14. ASSUME NEW d \in Dirs, StopEnter(d) PROVE StreamsInv'
  BY <1>14 DEF StopEnter, Clear, Last
<1>15. ASSUME NEW d \in Dirs, Unmask(d) PROVE StreamsInv'
  BY <1>15 DEF Unmask
<1>16. ASSUME NEW d \in Dirs, Run(d) PROVE StreamsInv'
  BY <1>16 DEF Run
<1>17. ASSUME NEW d \in Dirs, Mask(d) PROVE StreamsInv'
  BY <1>17 DEF Mask, Stopped
<1>18. ASSUME NEW d \in Dirs, Halt(d) PROVE StreamsInv'
  BY <1>18 DEF Halt
<1>19. ASSUME NEW d \in Dirs, Poll(d) PROVE StreamsInv'
  BY <1>19 DEF Poll
<1>20. ASSUME NEW d \in Dirs, Retire(d) PROVE StreamsInv'
  BY <1>20 DEF Retire, Stopped
<1>21. ASSUME NEW d \in Dirs, Unmaster(d) PROVE StreamsInv'
  BY <1>21 DEF Unmaster
<1>22. ASSUME NEW d \in Dirs, LockHwParams(d) PROVE StreamsInv'
  BY <1>22 DEF LockHwParams, Snapshot, Reconfigure
<1>23. ASSUME NEW d \in Dirs, LockHwFree(d) PROVE StreamsInv'
  BY <1>23 DEF LockHwFree, Snapshot
<1>24. ASSUME NEW d \in Dirs, LockPrepare(d) PROVE StreamsInv'
  BY <1>24 DEF LockPrepare
<1>25. ASSUME NEW d \in Dirs, Sync(d) PROVE StreamsInv'
  BY <1>25 DEF Sync, Reconfigure, IrqSynchronized
<1>26. ASSUME NEW d \in Dirs, Switch(d) PROVE StreamsInv'
  BY <1>26 DEF Switch, FreeResources, ClearRegisters
<1>27. ASSUME NEW d \in Dirs, Build(d) PROVE StreamsInv'
  BY <1>27 DEF Build, BuildResources, FreeResources, ClearRegisters, Forget
<1>28. ASSUME NEW d \in Dirs, Detach(d) PROVE StreamsInv'
  BY <1>28 DEF Detach, BuildResources, FreeResources, ClearRegisters, Forget
<1>29. ASSUME NEW d \in Dirs, Program(d) PROVE StreamsInv'
  BY <1>29 DEF Program
<1>30. ASSUME NEW d \in Dirs, Fetch(d) PROVE StreamsInv'
  BY <1>30 DEF Fetch
<1>31. ASSUME NEW d \in Dirs, Restore(d) PROVE StreamsInv'
  BY <1>31 DEF Restore
<1>32. ASSUME NEW d \in Dirs, Unlock(d) PROVE StreamsInv'
  BY <1>32 DEF Unlock
<1>33. ASSUME NEW d \in Dirs, IrqReport(d) PROVE StreamsInv'
  BY <1>33 DEF IrqReport
<1>34. CASE DeviceStops
  BY <1>34 DEF DeviceStops
<1>35. CASE DeviceInterrupts
  BY <1>35 DEF DeviceInterrupts
<1>36. CASE IrqPick
  BY <1>36 DEF IrqPick
<1>37. CASE UNCHANGED vars
  BY <1>37 DEF vars
<1> QED
  BY <1>1, <1>2, <1>3, <1>4, <1>5, <1>6, <1>7, <1>8, <1>9, <1>10,
    <1>11, <1>12, <1>13, <1>14, <1>15, <1>16, <1>17, <1>18, <1>19,
    <1>20, <1>21, <1>22, <1>23, <1>24, <1>25, <1>26, <1>27, <1>28,
    <1>29, <1>30, <1>31, <1>32, <1>33, <1>34, <1>35, <1>36, <1>37 DEF Next, Call,
    Returns, Steps,
    Trigger, AudioStop, HwParams, Waits, IrqUnderrun

LEMMA StepQuietInv ==
  TypeOK /\ Serial /\ StreamsInv /\ DmaInv /\ QuietInv /\ [Next]_vars => QuietInv'
<1> SUFFICES ASSUME TypeOK, Serial, StreamsInv, DmaInv, QuietInv, [Next]_vars
             PROVE  QuietInv'
  OBVIOUS
<1> USE DEF TypeOK, DriverOK, LocalsOK, ControlOK, LabelsFit, StopLabels, Serial,
  OneAtATime, DmaInv, QuietInv, Ops, Labels, At, In, Goto, Idle, Fails
<1>1. ASSUME NEW d \in Dirs, Open(d) PROVE QuietInv'
  BY <1>1 DEF Open
<1>2. ASSUME NEW d \in Dirs, Close(d) PROVE QuietInv'
  BY <1>2 DEF Close
<1>3. ASSUME NEW d \in Dirs, NEW g \in Geometries, CallHwParams(d, g) PROVE QuietInv'
  BY <1>3 DEF CallHwParams, Begin, BufferReleased
<1>4. ASSUME NEW d \in Dirs, CallHwFree(d) PROVE QuietInv'
  BY <1>4 DEF CallHwFree, Begin
<1>5. ASSUME NEW d \in Dirs, CallPrepare(d) PROVE QuietInv'
  BY <1>5 DEF CallPrepare, Begin
<1>6. ASSUME NEW d \in Dirs, CallStart(d) PROVE QuietInv'
  BY <1>6 DEF CallStart, Begin
<1>7. ASSUME NEW d \in Dirs, CallStop(d) PROVE QuietInv'
  BY <1>7 DEF CallStop, Begin
<1>8. ASSUME NEW d \in Dirs, ReturnHwParams(d) PROVE QuietInv'
  BY <1>8 DEF ReturnHwParams, Return, ToIdle, Then
<1>9. ASSUME NEW d \in Dirs, ReturnHwFree(d) PROVE QuietInv'
  BY <1>9 DEF ReturnHwFree, Return, ToIdle, Then
<1>10. ASSUME NEW d \in Dirs, ReturnPrepare(d) PROVE QuietInv'
  BY <1>10 DEF ReturnPrepare, Return, ToIdle, Then
<1>11. ASSUME NEW d \in Dirs, ReturnStart(d) PROVE QuietInv'
  BY <1>11 DEF ReturnStart, Return, ToIdle, Then
<1>12. ASSUME NEW d \in Dirs, ReturnStop(d) PROVE QuietInv'
  BY <1>12 DEF ReturnStop, Return, ToIdle, Then
<1>13. ASSUME NEW d \in Dirs, StartEnter(d) PROVE QuietInv'
  BY <1>13 DEF StartEnter
<1>14. ASSUME NEW d \in Dirs, StopEnter(d) PROVE QuietInv'
  BY <1>14 DEF StopEnter, Clear, Last
<1>15. ASSUME NEW d \in Dirs, Unmask(d) PROVE QuietInv'
  BY <1>15 DEF Unmask
<1>16. ASSUME NEW d \in Dirs, Run(d) PROVE QuietInv'
  BY <1>16 DEF Run
<1>17. ASSUME NEW d \in Dirs, Mask(d) PROVE QuietInv'
  BY <1>17 DEF Mask, Stopped
<1>18. ASSUME NEW d \in Dirs, Halt(d) PROVE QuietInv'
  BY <1>18 DEF Halt
<1>19. ASSUME NEW d \in Dirs, Poll(d) PROVE QuietInv'
  BY <1>19 DEF Poll
<1>20. ASSUME NEW d \in Dirs, Retire(d) PROVE QuietInv'
  BY <1>20 DEF Retire, Stopped
<1>21. ASSUME NEW d \in Dirs, Unmaster(d) PROVE QuietInv'
  BY <1>21 DEF Unmaster
<1>22. ASSUME NEW d \in Dirs, LockHwParams(d) PROVE QuietInv'
  BY <1>22 DEF LockHwParams, Snapshot, Reconfigure
<1>23. ASSUME NEW d \in Dirs, LockHwFree(d) PROVE QuietInv'
  BY <1>23 DEF LockHwFree, Snapshot
<1>24. ASSUME NEW d \in Dirs, LockPrepare(d) PROVE QuietInv'
  BY <1>24 DEF LockPrepare, StreamsInv
<1>25. ASSUME NEW d \in Dirs, Sync(d) PROVE QuietInv'
  BY <1>25 DEF Sync, Reconfigure, IrqSynchronized
<1>26. ASSUME NEW d \in Dirs, Switch(d) PROVE QuietInv'
  BY <1>26 DEF Switch, FreeResources, ClearRegisters
<1>27. ASSUME NEW d \in Dirs, Build(d) PROVE QuietInv'
  BY <1>27 DEF Build, BuildResources, FreeResources, ClearRegisters, Forget
<1>28. ASSUME NEW d \in Dirs, Detach(d) PROVE QuietInv'
  BY <1>28 DEF Detach, BuildResources, FreeResources, ClearRegisters, Forget
<1>29. ASSUME NEW d \in Dirs, Program(d) PROVE QuietInv'
  BY <1>29 DEF Program
<1>30. ASSUME NEW d \in Dirs, Fetch(d) PROVE QuietInv'
  BY <1>30 DEF Fetch
<1>31. ASSUME NEW d \in Dirs, Restore(d) PROVE QuietInv'
  BY <1>31 DEF Restore
<1>32. ASSUME NEW d \in Dirs, Unlock(d) PROVE QuietInv'
  BY <1>32 DEF Unlock
<1>33. ASSUME NEW d \in Dirs, IrqReport(d) PROVE QuietInv'
  BY <1>33 DEF IrqReport
<1>34. CASE DeviceStops
  BY <1>34 DEF DeviceStops
<1>35. CASE DeviceInterrupts
  BY <1>35 DEF DeviceInterrupts
<1>36. CASE IrqPick
  BY <1>36 DEF IrqPick
<1>37. CASE UNCHANGED vars
  BY <1>37 DEF vars
<1> QED
  BY <1>1, <1>2, <1>3, <1>4, <1>5, <1>6, <1>7, <1>8, <1>9, <1>10,
    <1>11, <1>12, <1>13, <1>14, <1>15, <1>16, <1>17, <1>18, <1>19,
    <1>20, <1>21, <1>22, <1>23, <1>24, <1>25, <1>26, <1>27, <1>28,
    <1>29, <1>30, <1>31, <1>32, <1>33, <1>34, <1>35, <1>36, <1>37 DEF Next, Call,
    Returns, Steps,
    Trigger, AudioStop, HwParams, Waits, IrqUnderrun

(* Only the step that switches the rate changes audio_rate. *)
LEMMA OnlySwitch ==
  [Next]_vars /\ audio_rate' # audio_rate => \E d \in Dirs : pc[d] = "switch"
<1> SUFFICES ASSUME [Next]_vars, audio_rate' # audio_rate
             PROVE  \E d \in Dirs : pc[d] = "switch"
  OBVIOUS
<1>1. ASSUME NEW d \in Dirs, Call(d) PROVE audio_rate' = audio_rate
  BY <1>1 DEF Call, Open, Close, CallHwParams, CallHwFree, CallPrepare, CallStart,
    CallStop, Begin
<1>2. ASSUME NEW d \in Dirs, Returns(d) PROVE audio_rate' = audio_rate
  BY <1>2 DEF Returns, ReturnHwParams, ReturnHwFree, ReturnPrepare, ReturnStart,
    ReturnStop, Return
<1>3. ASSUME NEW d \in Dirs, Trigger(d) \/ AudioStop(d) PROVE audio_rate' = audio_rate
  BY <1>3 DEF Trigger, AudioStop, StartEnter, StopEnter, Unmask, Run, Mask, Halt,
    Retire, Unmaster
<1>4. ASSUME NEW d \in Dirs, Waits(d) PROVE audio_rate' = audio_rate
  BY <1>4 DEF Waits, LockHwParams, LockHwFree, LockPrepare, Sync, Poll
<1>5. ASSUME NEW d \in Dirs, HwParams(d), ~Switch(d) PROVE audio_rate' = audio_rate
  BY <1>5 DEF HwParams, Build, Program, Fetch, Restore, Unlock
<1>6. ASSUME NEW d \in Dirs, Detach(d) \/ IrqReport(d) PROVE audio_rate' = audio_rate
  BY <1>6 DEF Detach, IrqReport
<1>7. ASSUME NEW d \in Dirs, Switch(d) PROVE pc[d] = "switch"
  BY <1>7 DEF Switch, At
<1>8. DeviceStops \/ DeviceInterrupts \/ IrqPick => audio_rate' = audio_rate
  BY DEF DeviceStops, DeviceInterrupts, IrqPick
<1>9. UNCHANGED vars => audio_rate' = audio_rate
  BY DEF vars
<1> QED
  BY <1>1, <1>2, <1>3, <1>4, <1>5, <1>6, <1>7, <1>8, <1>9
    DEF Next, Steps, Call, IrqUnderrun

(* The invariants together, in the form the theorems below use them. *)
SerialInv ==
  /\ Serial /\ EngineInv /\ MutexHeld /\ TablesInv /\ DmaInv
  /\ FlagsInv /\ StreamsInv /\ QuietInv

LEMMA SerialInvariant ==
  ASSUME Overlapping = {}
  PROVE  Spec => [](TypeOK /\ SerialInv)
<1>1. Init => SerialInv
  BY InitOneAtATime, InitEngineInv, InitMutexHeld, InitTablesInv, InitDmaInv,
       InitPlay
    DEF Serial, SerialInv
<1>2. TypeOK /\ SerialInv /\ [Next]_vars => SerialInv'
  BY StepSerial, StepEngineInv, StepMutexHeld, StepTablesInv, StepDmaInv,
       StepFlagsInv, StepStreamsInv, StepQuietInv
    DEF SerialInv
<1> QED
  BY Typing, <1>1, <1>2, PTL DEF Spec

(* When callbacks do not overlap, no table is freed or replaced under a     *)
(* device that may still access it, whatever the faults: not even when the  *)
(* engine does not stop in time.                                            *)
THEOREM DmaSafety ==
  ASSUME Overlapping = {}
  PROVE  Spec => []DmaThroughLiveTables
<1>1. SerialInv => DmaThroughLiveTables
  BY DEF SerialInv, DmaInv
<1> QED
  BY SerialInvariant, <1>1, PTL

(* The device is asked for another rate only while the engine is retired   *)
(* and at rest, or cut off from the bus.                                   *)
THEOREM RateSafety ==
  ASSUME Overlapping = {}
  PROVE  Spec => RateChangesAtRest
<1>1. TypeOK /\ SerialInv /\ [Next]_vars =>
        [audio_rate' # audio_rate =>
           ~audio_engine_running /\ ~(hw_busy /\ master)]_vars
  <2> SUFFICES ASSUME TypeOK, SerialInv, [Next]_vars, audio_rate' # audio_rate
               PROVE  ~audio_engine_running /\ ~(hw_busy /\ master)
    OBVIOUS
  <2>1. PICK d \in Dirs : pc[d] = "switch"
    BY OnlySwitch
  <2> QED
    BY <2>1 DEF SerialInv, Serial, OneAtATime, DmaInv
<1> QED
  BY SerialInvariant, <1>1, PTL DEF Spec, RateChangesAtRest

(* When callbacks do not overlap, the driver's flags, the interrupt mask    *)
(* and RUN agree between them, also after a stop that timed out and after a *)
(* rebuild that failed.                                                     *)
THEOREM FlagsAgree ==
  ASSUME Overlapping = {}
  PROVE  Spec => []FlagsMatchDevice
<1>1. TypeOK /\ SerialInv => FlagsMatchDevice
  BY DEF SerialInv, FlagsInv, EngineInv, NoOrphanEngine, Bookkeeping,
    FlagsMatchDevice, Idle,
    TypeOK, DriverOK, DeviceOK
<1> QED
  BY SerialInvariant, <1>1, PTL

(* When callbacks do not overlap, the engine serves no stream that ALSA     *)
(* does not have running: not after a start that failed or was undone, a    *)
(* stop that timed out, or a rebuild for the other direction, whatever      *)
(* fails on the way.  Nothing is said of a stop in the pause of a rebuild,  *)
(* which is an overlap.                                                     *)
THEOREM StoppedRest ==
  ASSUME Overlapping = {}
  PROVE  Spec => []StoppedStreamsRest
<1>1. TypeOK /\ SerialInv => StoppedStreamsRest
  BY DEF SerialInv, StreamsInv, Started, StoppedStreamsRest, Idle, TypeOK, ControlOK,
    LabelsFit
<1> QED
  BY SerialInvariant, <1>1, PTL

(* No period is reported while the tables are rebuilt for the other        *)
(* direction.                                                              *)
THEOREM RebuildsAreQuiet ==
  ASSUME Overlapping = {}
  PROVE  Spec => []QuietRebuild
<1>1. SerialInv => QuietRebuild
  BY DEF SerialInv, QuietInv, QuietRebuild
<1> QED
  BY SerialInvariant, <1>1, PTL
=============================================================================
