-------------------------- MODULE DuplexEngineStreams --------------------------
(***************************************************************************)
(* When the callbacks of the two directions do not overlap, the joint      *)
(* engine implements two independent streams: each step of DuplexEngine is *)
(* a step of DuplexStreams or changes nothing there, for every set of      *)
(* geometries and of faults.  From the same invariants, what the driver    *)
(* remembers of parameters and buffers is what the ALSA core has.          *)
(***************************************************************************)
EXTENDS DuplexEngineSafety

USE DEF Dirs, mutexed, engine, device, core, locals

SetUp == {d \in Dirs : alsa[d] \in {"setup", "prepared", "running"}}
Reconfigures(d) == op[d] \in {"hw_params", "hw_free"}

(* What a callback in progress knows of its substream, and that it has not *)
(* failed before the step at which it can.                                 *)
CallsInv == \A d \in Dirs :
  /\ op[d] \in {"start", "undo"} => alsa[d] = "prepared"
  /\ op[d] = "stop" => alsa[d] = "running"
  /\ op[d] = "prepare" => alsa[d] \in {"setup", "prepared"}
  /\ Reconfigures(d) => alsa[d] \in {"open", "setup", "prepared"}
  /\ op[d] = "hw_params" => req[d] \in Geometries
  /\ d \in SetUp => runtime[d] \in Geometries
  /\ d \in failed => pc[d] \in {"retire", "unmaster", "unlock", "return"}
  /\ pc[d] = "unmaster" => d \in failed

(* An engine is stopped for nobody or for a snapshot, which is not taken   *)
(* for a change of the rate.                                               *)
StopsInv == \A d \in Dirs :
  /\ op[d] \in {"stop", "undo"} /\ pc[d] \in StopLabels => audio_running = {}
  /\ Reconfigures(d) /\ pc[d] \in {"mask", "halt", "poll", "retire"} =>
       audio_running = running[d]
  /\ op[d] = "hw_params" /\ pc[d] \in {"mask", "halt", "poll", "retire", "sync"} =>
       ~ChangingRate(d)
  /\ pc[d] = "switch" \/ ~Reconfigures(d) => running[d] = {}

(* A substream that has its parameters is registered, and a rebuild for a  *)
(* snapshot has something to program.                                      *)
RegisteredInv == \A d \in Dirs :
  /\ d \in SetUp /\ ~Reconfigures(d) => d \in audio_params
  /\ /\ op[d] = "hw_params" /\ d \notin failed
     /\ pc[d] \in {"program", "fetch", "restore", "unmask", "run", "unlock", "return"}
     => d \in audio_params
  /\ pc[d] = "program" /\ op[d] # "prepare" => audio_buffer_bytes > 0
  /\ pc[d] = "restore" => audio_prepared = audio_params

(* The engine stops in time and keeps the bus unless that is what fails.   *)
HealthyInv ==
  "stop" \notin Faults =>
    /\ master
    /\ \A d \in Dirs : pc[d] # "unmaster" /\ (pc[d] = "retire" => d \notin failed)

LEMMA InitStreams == Init => CallsInv /\ StopsInv /\ RegisteredInv /\ HealthyInv
BY DEF Init, CallsInv, StopsInv, RegisteredInv, HealthyInv, SetUp, Reconfigures,
  StopLabels

(* A callback keeps the state its substream was called in until it returns. *)
LEMMA StepCallsInv ==
  TypeOK /\ Serial /\ CallsInv /\ [Next]_vars => CallsInv'
<1> SUFFICES ASSUME TypeOK, Serial, CallsInv, [Next]_vars
             PROVE  CallsInv'
  OBVIOUS
<1> USE DEF TypeOK, DriverOK, DeviceOK, CoreOK, LocalsOK, ControlOK, LabelsFit,
  StopLabels, Serial,
  OneAtATime, Ops, Labels, At, In, Goto, Idle, Fails,
  SetUp, Reconfigures, CallsInv
<1>1. ASSUME NEW d \in Dirs, Open(d) PROVE CallsInv'
  BY <1>1 DEF Open
<1>2. ASSUME NEW d \in Dirs, Close(d) PROVE CallsInv'
  BY <1>2 DEF Close
<1>3. ASSUME NEW d \in Dirs, NEW g \in Geometries, CallHwParams(d, g) PROVE CallsInv'
  <2>1. CASE op' = [op EXCEPT ![d] = "hw_params"] /\ alsa' = alsa
    BY <1>3, <2>1, EnvironmentAssumption DEF CallHwParams, Begin
  <2>2. CASE op' = [op EXCEPT ![d] = "hw_free"] /\ alsa' = [alsa EXCEPT ![d] = "open"]
    BY <1>3, <2>2 DEF CallHwParams, Begin
  <2> QED
    BY <1>3, <2>1, <2>2 DEF CallHwParams, Begin
<1>4. ASSUME NEW d \in Dirs, CallHwFree(d) PROVE CallsInv'
  BY <1>4 DEF CallHwFree, Begin
<1>5. ASSUME NEW d \in Dirs, CallPrepare(d) PROVE CallsInv'
  BY <1>5 DEF CallPrepare, Begin
<1>6. ASSUME NEW d \in Dirs, CallStart(d) PROVE CallsInv'
  BY <1>6 DEF CallStart, Begin
<1>7. ASSUME NEW d \in Dirs, CallStop(d) PROVE CallsInv'
  BY <1>7 DEF CallStop, Begin
<1>8. ASSUME NEW d \in Dirs, ReturnHwParams(d) PROVE CallsInv'
  BY <1>8 DEF ReturnHwParams, Return, ToIdle, Then
<1>9. ASSUME NEW d \in Dirs, ReturnHwFree(d) PROVE CallsInv'
  BY <1>9 DEF ReturnHwFree, Return, ToIdle, Then
<1>10. ASSUME NEW d \in Dirs, ReturnPrepare(d) PROVE CallsInv'
  BY <1>10 DEF ReturnPrepare, Return, ToIdle, Then
<1>11. ASSUME NEW d \in Dirs, ReturnStart(d) PROVE CallsInv'
  BY <1>11 DEF ReturnStart, Return, ToIdle, Then
<1>12. ASSUME NEW d \in Dirs, ReturnStop(d) PROVE CallsInv'
  BY <1>12 DEF ReturnStop, Return, ToIdle, Then
<1>13. ASSUME NEW d \in Dirs, StartEnter(d) PROVE CallsInv'
  BY <1>13 DEF StartEnter
<1>14. ASSUME NEW d \in Dirs, StopEnter(d) PROVE CallsInv'
  BY <1>14 DEF StopEnter, Clear, Last
<1>15. ASSUME NEW d \in Dirs, Unmask(d) PROVE CallsInv'
  BY <1>15 DEF Unmask
<1>16. ASSUME NEW d \in Dirs, Run(d) PROVE CallsInv'
  BY <1>16 DEF Run
<1>17. ASSUME NEW d \in Dirs, Mask(d) PROVE CallsInv'
  BY <1>17 DEF Mask, Stopped
<1>18. ASSUME NEW d \in Dirs, Halt(d) PROVE CallsInv'
  BY <1>18 DEF Halt
<1>19. ASSUME NEW d \in Dirs, Poll(d) PROVE CallsInv'
  BY <1>19 DEF Poll
<1>20. ASSUME NEW d \in Dirs, Retire(d) PROVE CallsInv'
  BY <1>20 DEF Retire, Stopped
<1>21. ASSUME NEW d \in Dirs, Unmaster(d) PROVE CallsInv'
  BY <1>21 DEF Unmaster
<1>22. ASSUME NEW d \in Dirs, LockHwParams(d) PROVE CallsInv'
  BY <1>22 DEF LockHwParams, Snapshot, Reconfigure
<1>23. ASSUME NEW d \in Dirs, LockHwFree(d) PROVE CallsInv'
  BY <1>23 DEF LockHwFree, Snapshot
<1>24. ASSUME NEW d \in Dirs, LockPrepare(d) PROVE CallsInv'
  BY <1>24 DEF LockPrepare
<1>25. ASSUME NEW d \in Dirs, Sync(d) PROVE CallsInv'
  BY <1>25 DEF Sync, Reconfigure, IrqSynchronized
<1>26. ASSUME NEW d \in Dirs, Switch(d) PROVE CallsInv'
  BY <1>26 DEF Switch, FreeResources, ClearRegisters
<1>27. ASSUME NEW d \in Dirs, Build(d) PROVE CallsInv'
  BY <1>27 DEF Build, BuildResources, FreeResources, ClearRegisters, Forget
<1>28. ASSUME NEW d \in Dirs, Detach(d) PROVE CallsInv'
  BY <1>28 DEF Detach, BuildResources, FreeResources, ClearRegisters, Forget
<1>29. ASSUME NEW d \in Dirs, Program(d) PROVE CallsInv'
  BY <1>29 DEF Program
<1>30. ASSUME NEW d \in Dirs, Fetch(d) PROVE CallsInv'
  BY <1>30 DEF Fetch
<1>31. ASSUME NEW d \in Dirs, Restore(d) PROVE CallsInv'
  BY <1>31 DEF Restore
<1>32. ASSUME NEW d \in Dirs, Unlock(d) PROVE CallsInv'
  BY <1>32 DEF Unlock
<1>33. ASSUME NEW d \in Dirs, IrqReport(d) PROVE CallsInv'
  BY <1>33 DEF IrqReport
<1>34. CASE DeviceStops
  BY <1>34 DEF DeviceStops
<1>35. CASE DeviceInterrupts
  BY <1>35 DEF DeviceInterrupts
<1>36. CASE IrqPick
  BY <1>36 DEF IrqPick
<1>37. CASE UNCHANGED vars
  BY <1>37 DEF vars
<1> QED
  BY <1>1, <1>2, <1>3, <1>4, <1>5, <1>6, <1>7, <1>8, <1>9, <1>10,
    <1>11, <1>12, <1>13, <1>14, <1>15, <1>16, <1>17, <1>18, <1>19,
    <1>20, <1>21, <1>22, <1>23, <1>24, <1>25, <1>26, <1>27, <1>28,
    <1>29, <1>30, <1>31, <1>32, <1>33, <1>34, <1>35, <1>36, <1>37 DEF Next, Call,
    Returns, Steps,
    Trigger, AudioStop, HwParams, Waits, IrqUnderrun

(* A stop retires the engine for the streams of the snapshot, and no others. *)
LEMMA StepStopsInv ==
  TypeOK /\ Serial /\ EngineInv /\ StreamsInv /\ DmaInv /\ StopsInv
  /\ [Next]_vars => StopsInv'
<1> SUFFICES ASSUME TypeOK, Serial, EngineInv, StreamsInv, DmaInv, StopsInv,
                    [Next]_vars
             PROVE  StopsInv'
  OBVIOUS
<1> USE DEF TypeOK, DriverOK, DeviceOK, CoreOK, LocalsOK, ControlOK, LabelsFit,
  StopLabels, Serial,
  OneAtATime, Ops, Labels, At, In, Goto, Idle, Fails,
  Reconfigures, ChangingRate, EngineInv, Bookkeeping, StreamsInv, DmaInv, Streaming,
  StopsInv
<1>1. ASSUME NEW d \in Dirs, Open(d) PROVE StopsInv'
  BY <1>1 DEF Open
<1>2. ASSUME NEW d \in Dirs, Close(d) PROVE StopsInv'
  BY <1>2 DEF Close
<1>3. ASSUME NEW d \in Dirs, NEW g \in Geometries, CallHwParams(d, g) PROVE StopsInv'
  BY <1>3 DEF CallHwParams, Begin
<1>4. ASSUME NEW d \in Dirs, CallHwFree(d) PROVE StopsInv'
  BY <1>4 DEF CallHwFree, Begin
<1>5. ASSUME NEW d \in Dirs, CallPrepare(d) PROVE StopsInv'
  BY <1>5 DEF CallPrepare, Begin
<1>6. ASSUME NEW d \in Dirs, CallStart(d) PROVE StopsInv'
  BY <1>6 DEF CallStart, Begin
<1>7. ASSUME NEW d \in Dirs, CallStop(d) PROVE StopsInv'
  BY <1>7 DEF CallStop, Begin
<1>8. ASSUME NEW d \in Dirs, ReturnHwParams(d) PROVE StopsInv'
  BY <1>8 DEF ReturnHwParams, Return, ToIdle, Then
<1>9. ASSUME NEW d \in Dirs, ReturnHwFree(d) PROVE StopsInv'
  BY <1>9 DEF ReturnHwFree, Return, ToIdle, Then
<1>10. ASSUME NEW d \in Dirs, ReturnPrepare(d) PROVE StopsInv'
  BY <1>10 DEF ReturnPrepare, Return, ToIdle, Then
<1>11. ASSUME NEW d \in Dirs, ReturnStart(d) PROVE StopsInv'
  BY <1>11 DEF ReturnStart, Return, ToIdle, Then
<1>12. ASSUME NEW d \in Dirs, ReturnStop(d) PROVE StopsInv'
  BY <1>12 DEF ReturnStop, Return, ToIdle, Then
<1>13. ASSUME NEW d \in Dirs, StartEnter(d) PROVE StopsInv'
  BY <1>13 DEF StartEnter
<1>14. ASSUME NEW d \in Dirs, StopEnter(d) PROVE StopsInv'
  BY <1>14 DEF StopEnter, Clear, Last
<1>15. ASSUME NEW d \in Dirs, Unmask(d) PROVE StopsInv'
  BY <1>15 DEF Unmask
<1>16. ASSUME NEW d \in Dirs, Run(d) PROVE StopsInv'
  BY <1>16 DEF Run
<1>17. ASSUME NEW d \in Dirs, Mask(d) PROVE StopsInv'
  BY <1>17 DEF Mask, Stopped
<1>18. ASSUME NEW d \in Dirs, Halt(d) PROVE StopsInv'
  BY <1>18 DEF Halt
<1>19. ASSUME NEW d \in Dirs, Poll(d) PROVE StopsInv'
  BY <1>19 DEF Poll
<1>20. ASSUME NEW d \in Dirs, Retire(d) PROVE StopsInv'
  BY <1>20 DEF Retire, Stopped
<1>21. ASSUME NEW d \in Dirs, Unmaster(d) PROVE StopsInv'
  BY <1>21 DEF Unmaster
<1>22. ASSUME NEW d \in Dirs, LockHwParams(d) PROVE StopsInv'
  BY <1>22 DEF LockHwParams, Snapshot, Reconfigure, Busy
<1>23. ASSUME NEW d \in Dirs, LockHwFree(d) PROVE StopsInv'
  BY <1>23 DEF LockHwFree, Snapshot
<1>24. ASSUME NEW d \in Dirs, LockPrepare(d) PROVE StopsInv'
  BY <1>24 DEF LockPrepare
<1>25. ASSUME NEW d \in Dirs, Sync(d) PROVE StopsInv'
  BY <1>25 DEF Sync, Reconfigure, IrqSynchronized
<1>26. ASSUME NEW d \in Dirs, Switch(d) PROVE StopsInv'
  BY <1>26 DEF Switch, FreeResources, ClearRegisters
<1>27. ASSUME NEW d \in Dirs, Build(d) PROVE StopsInv'
  BY <1>27 DEF Build, BuildResources, FreeResources, ClearRegisters, Forget
<1>28. ASSUME NEW d \in Dirs, Detach(d) PROVE StopsInv'
  BY <1>28 DEF Detach, BuildResources, FreeResources, ClearRegisters, Forget
<1>29. ASSUME NEW d \in Dirs, Program(d) PROVE StopsInv'
  BY <1>29 DEF Program
<1>30. ASSUME NEW d \in Dirs, Fetch(d) PROVE StopsInv'
  BY <1>30 DEF Fetch
<1>31. ASSUME NEW d \in Dirs, Restore(d) PROVE StopsInv'
  BY <1>31 DEF Restore
<1>32. ASSUME NEW d \in Dirs, Unlock(d) PROVE StopsInv'
  BY <1>32 DEF Unlock
<1>33. ASSUME NEW d \in Dirs, IrqReport(d) PROVE StopsInv'
  BY <1>33 DEF IrqReport
<1>34. CASE DeviceStops
  BY <1>34 DEF DeviceStops
<1>35. CASE DeviceInterrupts
  BY <1>35 DEF DeviceInterrupts
<1>36. CASE IrqPick
  BY <1>36 DEF IrqPick
<1>37. CASE UNCHANGED vars
  BY <1>37 DEF vars
<1> QED
  BY <1>1, <1>2, <1>3, <1>4, <1>5, <1>6, <1>7, <1>8, <1>9, <1>10,
    <1>11, <1>12, <1>13, <1>14, <1>15, <1>16, <1>17, <1>18, <1>19,
    <1>20, <1>21, <1>22, <1>23, <1>24, <1>25, <1>26, <1>27, <1>28,
    <1>29, <1>30, <1>31, <1>32, <1>33, <1>34, <1>35, <1>36, <1>37 DEF Next, Call,
    Returns, Steps,
    Trigger, AudioStop, HwParams, Waits, IrqUnderrun

(* Registration lasts from the end of hw_params to the next one or to hw_free. *)
LEMMA StepRegisteredInv ==
  TypeOK /\ Serial /\ TablesInv /\ StreamsInv /\ CallsInv /\ RegisteredInv
  /\ [Next]_vars => RegisteredInv'
<1> SUFFICES ASSUME TypeOK, Serial, TablesInv, StreamsInv, CallsInv, RegisteredInv,
                    [Next]_vars
             PROVE  RegisteredInv'
  OBVIOUS
<1> USE DEF TypeOK, DriverOK, DeviceOK, CoreOK, LocalsOK, ControlOK, LabelsFit,
  StopLabels, Serial,
  OneAtATime, Ops, Labels, At, In, Goto, Idle, Fails,
  Reconfigures, SetUp, TablesInv, PreparedMeansProgrammed, TablesBuilt, StreamsInv,
  Streaming, CallsInv, RegisteredInv
<1>1. ASSUME NEW d \in Dirs, Open(d) PROVE RegisteredInv'
  BY <1>1 DEF Open
<1>2. ASSUME NEW d \in Dirs, Close(d) PROVE RegisteredInv'
  BY <1>2 DEF Close
<1>3. ASSUME NEW d \in Dirs, NEW g \in Geometries, CallHwParams(d, g)
      PROVE  RegisteredInv'
  BY <1>3 DEF CallHwParams, Begin
<1>4. ASSUME NEW d \in Dirs, CallHwFree(d) PROVE RegisteredInv'
  BY <1>4 DEF CallHwFree, Begin
<1>5. ASSUME NEW d \in Dirs, CallPrepare(d) PROVE RegisteredInv'
  BY <1>5 DEF CallPrepare, Begin
<1>6. ASSUME NEW d \in Dirs, CallStart(d) PROVE RegisteredInv'
  BY <1>6 DEF CallStart, Begin
<1>7. ASSUME NEW d \in Dirs, CallStop(d) PROVE RegisteredInv'
  BY <1>7 DEF CallStop, Begin
<1>8. ASSUME NEW d \in Dirs, ReturnHwParams(d) PROVE RegisteredInv'
  BY <1>8 DEF ReturnHwParams, Return, ToIdle, Then
<1>9. ASSUME NEW d \in Dirs, ReturnHwFree(d) PROVE RegisteredInv'
  BY <1>9 DEF ReturnHwFree, Return, ToIdle, Then
<1>10. ASSUME NEW d \in Dirs, ReturnPrepare(d) PROVE RegisteredInv'
  BY <1>10 DEF ReturnPrepare, Return, ToIdle, Then
<1>11. ASSUME NEW d \in Dirs, ReturnStart(d) PROVE RegisteredInv'
  BY <1>11 DEF ReturnStart, Return, ToIdle, Then
<1>12. ASSUME NEW d \in Dirs, ReturnStop(d) PROVE RegisteredInv'
  BY <1>12 DEF ReturnStop, Return, ToIdle, Then
<1>13. ASSUME NEW d \in Dirs, StartEnter(d) PROVE RegisteredInv'
  BY <1>13 DEF StartEnter
<1>14. ASSUME NEW d \in Dirs, StopEnter(d) PROVE RegisteredInv'
  BY <1>14 DEF StopEnter, Clear, Last
<1>15. ASSUME NEW d \in Dirs, Unmask(d) PROVE RegisteredInv'
  BY <1>15 DEF Unmask
<1>16. ASSUME NEW d \in Dirs, Run(d) PROVE RegisteredInv'
  BY <1>16 DEF Run
<1>17. ASSUME NEW d \in Dirs, Mask(d) PROVE RegisteredInv'
  BY <1>17 DEF Mask, Stopped
<1>18. ASSUME NEW d \in Dirs, Halt(d) PROVE RegisteredInv'
  BY <1>18 DEF Halt
<1>19. ASSUME NEW d \in Dirs, Poll(d) PROVE RegisteredInv'
  BY <1>19 DEF Poll
<1>20. ASSUME NEW d \in Dirs, Retire(d) PROVE RegisteredInv'
  BY <1>20 DEF Retire, Stopped
<1>21. ASSUME NEW d \in Dirs, Unmaster(d) PROVE RegisteredInv'
  BY <1>21 DEF Unmaster
<1>22. ASSUME NEW d \in Dirs, LockHwParams(d) PROVE RegisteredInv'
  BY <1>22 DEF LockHwParams, Snapshot, Reconfigure
<1>23. ASSUME NEW d \in Dirs, LockHwFree(d) PROVE RegisteredInv'
  BY <1>23 DEF LockHwFree, Snapshot
<1>24. ASSUME NEW d \in Dirs, LockPrepare(d) PROVE RegisteredInv'
  BY <1>24 DEF LockPrepare
<1>25. ASSUME NEW d \in Dirs, Sync(d) PROVE RegisteredInv'
  BY <1>25 DEF Sync, Reconfigure, IrqSynchronized
<1>26. ASSUME NEW d \in Dirs, Switch(d) PROVE RegisteredInv'
  BY <1>26 DEF Switch, FreeResources, ClearRegisters
<1>27. ASSUME NEW d \in Dirs, Build(d) PROVE RegisteredInv'
  BY <1>27, GeometryAssumption DEF Build, BuildResources, FreeResources,
    ClearRegisters, Forget
<1>28. ASSUME NEW d \in Dirs, Detach(d) PROVE RegisteredInv'
  <2> DEFINE o == Other(d)
  <2>1. o \in Dirs /\ o # d /\ \A e \in Dirs : e = d \/ e = o
    BY DirsAssumption DEF Other
  <2>2. running[d] # {} => o \in audio_params /\ runtime[o].bytes > 0
    BY <1>28, <2>1, GeometryAssumption DEF Detach
  <2> QED
    BY <1>28, <2>1, <2>2 DEF Detach, BuildResources, FreeResources, ClearRegisters,
      Forget
<1>29. ASSUME NEW d \in Dirs, Program(d) PROVE RegisteredInv'
  BY <1>29 DEF Program
<1>30. ASSUME NEW d \in Dirs, Fetch(d) PROVE RegisteredInv'
  BY <1>30 DEF Fetch
<1>31. ASSUME NEW d \in Dirs, Restore(d) PROVE RegisteredInv'
  BY <1>31 DEF Restore
<1>32. ASSUME NEW d \in Dirs, Unlock(d) PROVE RegisteredInv'
  BY <1>32 DEF Unlock
<1>33. ASSUME NEW d \in Dirs, IrqReport(d) PROVE RegisteredInv'
  BY <1>33 DEF IrqReport
<1>34. CASE DeviceStops
  BY <1>34 DEF DeviceStops
<1>35. CASE DeviceInterrupts
  BY <1>35 DEF DeviceInterrupts
<1>36. CASE IrqPick
  BY <1>36 DEF IrqPick
<1>37. CASE UNCHANGED vars
  BY <1>37 DEF vars
<1> QED
  BY <1>1, <1>2, <1>3, <1>4, <1>5, <1>6, <1>7, <1>8, <1>9, <1>10,
    <1>11, <1>12, <1>13, <1>14, <1>15, <1>16, <1>17, <1>18, <1>19,
    <1>20, <1>21, <1>22, <1>23, <1>24, <1>25, <1>26, <1>27, <1>28,
    <1>29, <1>30, <1>31, <1>32, <1>33, <1>34, <1>35, <1>36, <1>37 DEF Next, Call,
    Returns, Steps,
    Trigger, AudioStop, HwParams, Waits, IrqUnderrun

(* Nothing but a fault lets a stop time out. *)
LEMMA StepHealthyInv ==
  TypeOK /\ Serial /\ CallsInv /\ FlagsInv /\ HealthyInv /\ [Next]_vars => HealthyInv'
<1> SUFFICES ASSUME TypeOK, Serial, CallsInv, FlagsInv, HealthyInv, [Next]_vars
             PROVE  HealthyInv'
  OBVIOUS
<1> USE DEF TypeOK, DriverOK, DeviceOK, CoreOK, LocalsOK, ControlOK, LabelsFit,
  StopLabels, Serial,
  OneAtATime, Ops, Labels, At, In, Goto, Idle, Fails,
  CallsInv, FlagsInv, HealthyInv
<1>1. ASSUME NEW d \in Dirs, Open(d) PROVE HealthyInv'
  BY <1>1 DEF Open
<1>2. ASSUME NEW d \in Dirs, Close(d) PROVE HealthyInv'
  BY <1>2 DEF Close
<1>3. ASSUME NEW d \in Dirs, NEW g \in Geometries, CallHwParams(d, g)
      PROVE  HealthyInv'
  <2>1. /\ pc[d] = "idle" /\ pc' = [pc EXCEPT ![d] = "lock"]
        /\ master' = master /\ failed' = failed \ {d}
    BY <1>3 DEF CallHwParams, Begin
  <2> QED
    BY <2>1
<1>4. ASSUME NEW d \in Dirs, CallHwFree(d) PROVE HealthyInv'
  BY <1>4 DEF CallHwFree, Begin
<1>5. ASSUME NEW d \in Dirs, CallPrepare(d) PROVE HealthyInv'
  BY <1>5 DEF CallPrepare, Begin
<1>6. ASSUME NEW d \in Dirs, CallStart(d) PROVE HealthyInv'
  BY <1>6 DEF CallStart, Begin
<1>7. ASSUME NEW d \in Dirs, CallStop(d) PROVE HealthyInv'
  BY <1>7 DEF CallStop, Begin
<1>8. ASSUME NEW d \in Dirs, ReturnHwParams(d) PROVE HealthyInv'
  BY <1>8 DEF ReturnHwParams, Return, ToIdle, Then
<1>9. ASSUME NEW d \in Dirs, ReturnHwFree(d) PROVE HealthyInv'
  BY <1>9 DEF ReturnHwFree, Return, ToIdle, Then
<1>10. ASSUME NEW d \in Dirs, ReturnPrepare(d) PROVE HealthyInv'
  BY <1>10 DEF ReturnPrepare, Return, ToIdle, Then
<1>11. ASSUME NEW d \in Dirs, ReturnStart(d) PROVE HealthyInv'
  BY <1>11 DEF ReturnStart, Return, ToIdle, Then
<1>12. ASSUME NEW d \in Dirs, ReturnStop(d) PROVE HealthyInv'
  BY <1>12 DEF ReturnStop, Return, ToIdle, Then
<1>13. ASSUME NEW d \in Dirs, StartEnter(d) PROVE HealthyInv'
  BY <1>13 DEF StartEnter
<1>14. ASSUME NEW d \in Dirs, StopEnter(d) PROVE HealthyInv'
  BY <1>14 DEF StopEnter, Clear, Last
<1>15. ASSUME NEW d \in Dirs, Unmask(d) PROVE HealthyInv'
  BY <1>15 DEF Unmask
<1>16. ASSUME NEW d \in Dirs, Run(d) PROVE HealthyInv'
  BY <1>16 DEF Run
<1>17. ASSUME NEW d \in Dirs, Mask(d) PROVE HealthyInv'
  BY <1>17 DEF Mask, Stopped
<1>18. ASSUME NEW d \in Dirs, Halt(d) PROVE HealthyInv'
  BY <1>18 DEF Halt
<1>19. ASSUME NEW d \in Dirs, Poll(d) PROVE HealthyInv'
  BY <1>19 DEF Poll
<1>20. ASSUME NEW d \in Dirs, Retire(d) PROVE HealthyInv'
  BY <1>20 DEF Retire, Stopped
<1>21. ASSUME NEW d \in Dirs, Unmaster(d) PROVE HealthyInv'
  BY <1>21 DEF Unmaster
<1>22. ASSUME NEW d \in Dirs, LockHwParams(d) PROVE HealthyInv'
  BY <1>22 DEF LockHwParams, Snapshot, Reconfigure
<1>23. ASSUME NEW d \in Dirs, LockHwFree(d) PROVE HealthyInv'
  BY <1>23 DEF LockHwFree, Snapshot
<1>24. ASSUME NEW d \in Dirs, LockPrepare(d) PROVE HealthyInv'
  BY <1>24 DEF LockPrepare
<1>25. ASSUME NEW d \in Dirs, Sync(d) PROVE HealthyInv'
  BY <1>25 DEF Sync, Reconfigure, IrqSynchronized
<1>26. ASSUME NEW d \in Dirs, Switch(d) PROVE HealthyInv'
  BY <1>26 DEF Switch, FreeResources, ClearRegisters
<1>27. ASSUME NEW d \in Dirs, Build(d) PROVE HealthyInv'
  BY <1>27 DEF Build, BuildResources, FreeResources, ClearRegisters, Forget
<1>28. ASSUME NEW d \in Dirs, Detach(d) PROVE HealthyInv'
  BY <1>28 DEF Detach, BuildResources, FreeResources, ClearRegisters, Forget
<1>29. ASSUME NEW d \in Dirs, Program(d) PROVE HealthyInv'
  BY <1>29 DEF Program
<1>30. ASSUME NEW d \in Dirs, Fetch(d) PROVE HealthyInv'
  BY <1>30 DEF Fetch
<1>31. ASSUME NEW d \in Dirs, Restore(d) PROVE HealthyInv'
  BY <1>31 DEF Restore
<1>32. ASSUME NEW d \in Dirs, Unlock(d) PROVE HealthyInv'
  BY <1>32 DEF Unlock
<1>33. ASSUME NEW d \in Dirs, IrqReport(d) PROVE HealthyInv'
  BY <1>33 DEF IrqReport
<1>34. CASE DeviceStops
  BY <1>34 DEF DeviceStops
<1>35. CASE DeviceInterrupts
  BY <1>35 DEF DeviceInterrupts
<1>36. CASE IrqPick
  BY <1>36 DEF IrqPick
<1>37. CASE UNCHANGED vars
  BY <1>37 DEF vars
<1> QED
  BY <1>1, <1>2, <1>3, <1>4, <1>5, <1>6, <1>7, <1>8, <1>9, <1>10,
    <1>11, <1>12, <1>13, <1>14, <1>15, <1>16, <1>17, <1>18, <1>19,
    <1>20, <1>21, <1>22, <1>23, <1>24, <1>25, <1>26, <1>27, <1>28,
    <1>29, <1>30, <1>31, <1>32, <1>33, <1>34, <1>35, <1>36, <1>37 DEF Next, Call,
    Returns, Steps,
    Trigger, AudioStop, HwParams, Waits, IrqUnderrun

(* Everything the refinement needs to know of a state. *)
StreamsRefineInv ==
  /\ TypeOK /\ SerialInv
  /\ CallsInv /\ StopsInv /\ RegisteredInv /\ HealthyInv

LEMMA RefineInvariant ==
  ASSUME Overlapping = {}
  PROVE  Spec => []StreamsRefineInv
<1>1. TypeOK /\ SerialInv /\ Init => StreamsRefineInv
  BY InitStreams DEF StreamsRefineInv
<1>2. StreamsRefineInv /\ TypeOK' /\ SerialInv' /\ [Next]_vars => StreamsRefineInv'
  BY StepCallsInv, StepStopsInv, StepRegisteredInv, StepHealthyInv
    DEF StreamsRefineInv, SerialInv
<1> QED
  BY SerialInvariant, <1>1, <1>2, PTL DEF Spec

(* What the abstract streams show does not change. *)
Same == UNCHANGED Streams!vars

(* Every step of the engine is one of the streams, or is invisible there:  *)
(* a start and a stop take effect when their trigger has the bits, and an  *)
(* engine that is stopped for a rebuild goes on in the snapshot.           *)
LEMMA StepStreams ==
  StreamsRefineInv /\ [Next]_vars => [Streams!Next]_(Streams!vars)
<1> SUFFICES ASSUME StreamsRefineInv, [Next]_vars
             PROVE  [Streams!Next]_(Streams!vars)
  OBVIOUS
<1> USE DirsAssumption
<1> USE DEF StreamsRefineInv, TypeOK, DriverOK, DeviceOK, CoreOK, LocalsOK, ControlOK,
  LabelsFit, StopLabels, SerialInv, Serial, OneAtATime, EngineInv, Bookkeeping,
  RestoreComplete,
  DmaInv, FlagsInv, StreamsInv, Streaming, Started, CallsInv, StopsInv,
  RegisteredInv, HealthyInv, SetUp, Reconfigures, Ops, Labels, At, In, Goto, Idle,
  Fails,
  Same, Streams!vars, StreamState, Moving, Paused
<1>1. ASSUME NEW d \in Dirs, Open(d) PROVE Streams!Open(d)
  <2> HIDE DEF EngineInv, DmaInv, FlagsInv, StreamsInv, CallsInv, StopsInv, RegisteredInv,
    HealthyInv
  <2> QED  BY <1>1 DEF Open, Streams!Open, Streams!Become
<1>2. ASSUME NEW d \in Dirs, Close(d) PROVE Streams!Close(d)
  <2> HIDE DEF EngineInv, DmaInv, FlagsInv, StreamsInv, CallsInv, StopsInv, RegisteredInv,
    HealthyInv
  <2> QED  BY <1>2 DEF Close, Streams!Close, Streams!Become
<1>3. ASSUME NEW d \in Dirs, NEW g \in Geometries, CallHwParams(d, g)
      PROVE  Streams!Free(d) \/ Same
  <2> HIDE DEF EngineInv, DmaInv, FlagsInv, StreamsInv, CallsInv, StopsInv, RegisteredInv,
    HealthyInv
  <2>1. CASE op' = [op EXCEPT ![d] = "hw_params"] /\ alsa' = alsa
    BY <1>3, <2>1 DEF CallHwParams, Begin
  <2>2. CASE op' = [op EXCEPT ![d] = "hw_free"] /\ alsa' = [alsa EXCEPT ![d] = "open"]
    <3>1. alsa[d] \in {"open", "setup", "prepared"}
      BY <1>3, EnvironmentAssumption DEF CallHwParams
    <3>2. /\ op \in [Dirs -> Ops] /\ pc \in [Dirs -> Labels] /\ alsa[d] \in {"open", "setup", "prepared"}
          /\ \A e \in Dirs : op[e] = "none" /\ pc[e] = "idle"
          /\ op' = [op EXCEPT ![d] = "hw_free"] /\ pc' = [pc EXCEPT ![d] = "lock"]
          /\ DOMAIN alsa = Dirs /\ alsa' = [alsa EXCEPT ![d] = "open"]
          /\ UNCHANGED <<audio_running, running>>
      BY <1>3, <2>2, <3>1 DEF CallHwParams, Begin
    <3> HIDE DEF TypeOK, Serial, SerialInv, StreamsRefineInv, Ops, Labels
    <3> QED
      BY <3>2 DEF Streams!Free, Streams!Become
  <2> QED
    BY <1>3, <2>1, <2>2 DEF CallHwParams, Begin
<1>4. ASSUME NEW d \in Dirs, CallHwFree(d) PROVE Same
  BY <1>4 DEF CallHwFree, Begin
<1>5. ASSUME NEW d \in Dirs, CallPrepare(d) PROVE Same
  BY <1>5 DEF CallPrepare, Begin
<1>6. ASSUME NEW d \in Dirs, CallStart(d) PROVE Same
  BY <1>6 DEF CallStart, Begin
<1>7. ASSUME NEW d \in Dirs, CallStop(d) PROVE Same
  BY <1>7 DEF CallStop, Begin
<1>8. ASSUME NEW d \in Dirs, ReturnHwParams(d)
      PROVE  Streams!SetParams(d) \/ Streams!Free(d)
  <2>1. StreamState[d] \in {"open", "setup", "prepared"}
    BY <1>8 DEF ReturnHwParams
  <2>2. UNCHANGED Moving
    BY <1>8 DEF ReturnHwParams, Return, ToIdle, Then
  <2>3. CASE d \in failed
    <3>1. /\ alsa' = [alsa EXCEPT ![d] = "open"] /\ pc' = [pc EXCEPT ![d] = "lock"]
          /\ op' = [op EXCEPT ![d] = "hw_free"] /\ failed' = failed \ {d}
      BY <1>8, <2>3 DEF ReturnHwParams, Return, Then
    <3>2. StreamState' = [StreamState EXCEPT ![d] = "open"]
      BY <1>8, <3>1 DEF ReturnHwParams, Return
    <3> QED
      BY <2>1, <2>2, <3>2 DEF Streams!Free, Streams!Become
  <2>4. CASE d \notin failed
    <3>1. /\ alsa' = [alsa EXCEPT ![d] = "setup"] /\ pc' = [pc EXCEPT ![d] = "idle"]
          /\ op' = [op EXCEPT ![d] = "none"] /\ failed' = failed \ {d}
      BY <1>8, <2>4 DEF ReturnHwParams, Return, ToIdle, Then
    <3>2. StreamState' = [StreamState EXCEPT ![d] = "setup"]
      BY <1>8, <3>1 DEF ReturnHwParams, Return
    <3> QED
      BY <2>1, <2>2, <3>2 DEF Streams!SetParams, Streams!Become
  <2> QED
    BY <2>3, <2>4
<1>9. ASSUME NEW d \in Dirs, ReturnHwFree(d) PROVE Streams!Free(d)
  BY <1>9 DEF ReturnHwFree, Return, ToIdle, Then, Streams!Free, Streams!Become
<1>10. ASSUME NEW d \in Dirs, ReturnPrepare(d) PROVE Streams!Prepare(d) \/ Same
  BY <1>10 DEF ReturnPrepare, Return, ToIdle, Then, Streams!Prepare,
    Streams!Become
<1>11. ASSUME NEW d \in Dirs, ReturnStart(d) PROVE Same
  BY <1>11 DEF ReturnStart, Return, ToIdle, Then
<1>12. ASSUME NEW d \in Dirs, ReturnStop(d) PROVE Same
  BY <1>12 DEF ReturnStop, Return, ToIdle, Then
<1>13. ASSUME NEW d \in Dirs, StartEnter(d) PROVE Streams!Start(d) \/ Same
  BY <1>13 DEF StartEnter, Streams!Start, Streams!Become
<1>14. ASSUME NEW d \in Dirs, StopEnter(d) PROVE Streams!Stop(d) \/ Same
  <2> HIDE DEF DmaInv, StopsInv, RegisteredInv, HealthyInv
  <2> QED  BY <1>14 DEF StopEnter, Clear, Last, Streams!Stop, Streams!Become
<1>15. ASSUME NEW d \in Dirs, Unmask(d) PROVE Same
  BY <1>15 DEF Unmask
<1>16. ASSUME NEW d \in Dirs, Run(d) PROVE Same
  BY <1>16 DEF Run
<1>17. ASSUME NEW d \in Dirs, Mask(d) PROVE Same
  BY <1>17 DEF Mask, Stopped
<1>18. ASSUME NEW d \in Dirs, Halt(d) PROVE Same
  BY <1>18 DEF Halt
<1>19. ASSUME NEW d \in Dirs, Poll(d) PROVE Same
  BY <1>19 DEF Poll
<1>20. ASSUME NEW d \in Dirs, Retire(d) PROVE Same \/ Streams!CutOff
  BY <1>20 DEF Retire, Stopped, Streams!CutOff
<1>21. ASSUME NEW d \in Dirs, Unmaster(d) PROVE Same
  BY <1>21 DEF Unmaster
<1>22. ASSUME NEW d \in Dirs, LockHwParams(d) PROVE Same
  BY <1>22 DEF LockHwParams, Snapshot, Reconfigure
<1>23. ASSUME NEW d \in Dirs, LockHwFree(d) PROVE Same
  BY <1>23 DEF LockHwFree, Snapshot
<1>24. ASSUME NEW d \in Dirs, LockPrepare(d) PROVE Same
  BY <1>24 DEF LockPrepare
<1>25. ASSUME NEW d \in Dirs, Sync(d) PROVE Same
  BY <1>25 DEF Sync, Reconfigure, IrqSynchronized
<1>26. ASSUME NEW d \in Dirs, Switch(d) PROVE Same
  BY <1>26 DEF Switch, FreeResources, ClearRegisters
<1>27. ASSUME NEW d \in Dirs, Build(d) PROVE Same \/ Streams!CutOff
  BY <1>27 DEF Build, BuildResources, FreeResources, ClearRegisters, Forget,
    Streams!CutOff
<1>28. ASSUME NEW d \in Dirs, Detach(d) PROVE Same \/ Streams!CutOff
  <2> DEFINE o == Other(d)
  <2>1. o \in Dirs /\ o # d /\ \A e \in Dirs : e = d \/ e = o
    BY DEF Other
  <2>2. running[d] # {} => o \in audio_params /\ runtime[o].bytes > 0
    BY <1>28, <2>1, GeometryAssumption DEF Detach
  <2>3. CASE pc'[d] = "program"
    BY <1>28, <2>3 DEF Detach
  <2>4. CASE pc'[d] = "unlock" /\ running[d] = {}
    BY <1>28, <2>4 DEF Detach
  <2>5. CASE pc'[d] = "unlock" /\ running[d] # {}
    <3>1. Faults # {}
      BY <1>28, <2>1, <2>2, <2>5 DEF Detach, Forget
    <3>2. StreamState' = StreamState
      BY <1>28, <2>5 DEF Detach
    <3>3. Moving' = {}
      BY <1>28, <2>5 DEF Detach
    <3> QED
      BY <3>1, <3>2, <3>3 DEF Streams!CutOff
  <2> QED
    BY <1>28, <2>3, <2>4, <2>5 DEF Detach
<1>29. ASSUME NEW d \in Dirs, Program(d) PROVE Same \/ Streams!CutOff
  BY <1>29 DEF Program, Streams!CutOff
<1>30. ASSUME NEW d \in Dirs, Fetch(d) PROVE Same \/ Streams!CutOff
  BY <1>30 DEF Fetch, Streams!CutOff
<1>31. ASSUME NEW d \in Dirs, Restore(d) PROVE Same \/ Streams!CutOff
  BY <1>31 DEF Restore, Streams!CutOff
<1>32. ASSUME NEW d \in Dirs, Unlock(d) PROVE Same
  BY <1>32 DEF Unlock
<1>33. ASSUME NEW d \in Dirs, IrqReport(d) PROVE Same
  BY <1>33 DEF IrqReport
<1>34. DeviceStops => Same
  BY DEF DeviceStops
<1>35. DeviceInterrupts => Same
  BY DEF DeviceInterrupts
<1>36. IrqPick => Same
  BY DEF IrqPick
<1>37. UNCHANGED vars => Same
  BY DEF vars
<1> QED
  BY <1>1, <1>2, <1>3, <1>4, <1>5, <1>6, <1>7, <1>8, <1>9, <1>10,
    <1>11, <1>12, <1>13, <1>14, <1>15, <1>16, <1>17, <1>18, <1>19,
    <1>20, <1>21, <1>22, <1>23, <1>24, <1>25, <1>26, <1>27, <1>28,
    <1>29, <1>30, <1>31, <1>32, <1>33, <1>34, <1>35, <1>36, <1>37 DEF Next, Call,
    Returns, Steps, Trigger,
    AudioStop, HwParams, Waits, IrqUnderrun, Streams!Next

(* When callbacks do not overlap, the joint engine implements two           *)
(* independent streams: whatever the faults and the geometries, and whatever *)
(* rebuilds the other direction causes, a direction moves from its start to *)
(* its stop, unless a fault cuts both off.                                  *)
THEOREM EngineImplementsStreams ==
  ASSUME Overlapping = {}
  PROVE  Spec => ImplementsStreams
<1>1. Init => Streams!Init
  BY DirsAssumption DEF Init, Streams!Init, StreamState, Moving, Paused
<1> QED
  BY RefineInvariant, StepStreams, <1>1, PTL DEF Spec, ImplementsStreams, Streams!Spec

(* When callbacks do not overlap and nothing fails, every stream that ALSA *)
(* believes running is served: what the abstract streams keep holds of the *)
(* engine that implements them.                                            *)
THEOREM StartedRun ==
  ASSUME Overlapping = {}, Faults = {}
  PROVE  Spec => []StartedStreamsRun
<1>1. Streams!Spec => []Streams!MovesAsAsked
  BY Streams!StreamsMoveAsAsked, PTL
<1>2. TypeOK /\ Streams!MovesAsAsked => StartedStreamsRun
  <2> SUFFICES ASSUME TypeOK, Streams!MovesAsAsked, Idle
               PROVE  Streaming \subseteq audio_running
    BY DEF StartedStreamsRun
  <2>1. Moving = audio_running
    BY DEF Idle, Moving, Paused
  <2>2. \A d \in Dirs : StreamState[d] = alsa[d]
    BY DEF Idle, TypeOK, ControlOK, LabelsFit, StopLabels, StreamState
  <2> QED
    BY <2>1, <2>2 DEF Streams!MovesAsAsked, Streaming
<1> QED
  BY EngineImplementsStreams, Typing, <1>1, <1>2, PTL DEF ImplementsStreams

-----------------------------------------------------------------------------
(* Where hw_params has registered the stream with its parameters, and where *)
(* hw_free has forgotten it.                                               *)
AfterBuild == {"program", "fetch", "restore", "unmask", "run", "unlock", "return"}

(* A stream without parameters is not registered.                          *)
ForgottenInv == \A d \in Dirs :
  /\ op[d] = "none" /\ d \in audio_params => d \in SetUp
  /\ op[d] = "hw_free" /\ pc[d] \in AfterBuild => d \notin audio_params

(* The registered streams agree with the hardware; a callback that goes on *)
(* after the comparison agrees with the other stream.                      *)
AgreementInv == \A d \in Dirs :
  /\ d \in audio_params /\ ~Reconfigures(d) =>
       /\ runtime[d].rate = audio_rate
       /\ tables # None => runtime[d].bytes = audio_buffer_bytes
  /\ op[d] = "hw_params" /\ pc[d] # "lock" /\ d \notin failed =>
       /\ Other(d) \in audio_params => runtime[Other(d)] = req[d]
       /\ pc[d] \in AfterBuild \cup {"build"} => audio_rate = req[d].rate
       /\ pc[d] \in AfterBuild => audio_buffer_bytes = req[d].bytes

(* No table refers to a buffer that is gone.                               *)
BuffersInv ==
  /\ stale = {}
  /\ \A d \in Dirs : d \in audio_params \/ op[d] = "hw_params" => dma_bytes[d] > 0

LEMMA InitParams == Init => ForgottenInv /\ AgreementInv /\ BuffersInv
BY DEF Init, ForgottenInv, AgreementInv, BuffersInv, AfterBuild, Reconfigures

(* The last thing a callback does to a stream is to forget it, if it does. *)
LEMMA StepForgottenInv ==
  TypeOK /\ "stop" \notin Faults /\ Serial /\ StreamsInv /\ CallsInv /\
  HealthyInv /\ ForgottenInv
    /\ [Next]_vars => ForgottenInv'
<1> SUFFICES ASSUME TypeOK, "stop" \notin Faults, Serial, StreamsInv, CallsInv,
                    HealthyInv, ForgottenInv, [Next]_vars
             PROVE  ForgottenInv'
  OBVIOUS
<1> USE DEF TypeOK, DriverOK, DeviceOK, CoreOK, LocalsOK, ControlOK, LabelsFit,
  StopLabels, Serial,
  OneAtATime, Ops, Labels, At, In, Goto, Idle, Fails,
  StreamsInv, Streaming, Started, CallsInv, HealthyInv, SetUp, Reconfigures,
  AfterBuild, ForgottenInv
<1>1. ASSUME NEW d \in Dirs, Open(d) PROVE ForgottenInv'
  BY <1>1 DEF Open
<1>2. ASSUME NEW d \in Dirs, Close(d) PROVE ForgottenInv'
  BY <1>2 DEF Close
<1>3. ASSUME NEW d \in Dirs, NEW g \in Geometries, CallHwParams(d, g)
      PROVE  ForgottenInv'
  <2>1. /\ op \in [Dirs -> Ops] /\ pc \in [Dirs -> Labels] /\ \A e \in Dirs : op[e] = "none"
        /\ pc' = [pc EXCEPT ![d] = "lock"]
        /\ op' \in {[op EXCEPT ![d] = "hw_params"], [op EXCEPT ![d] = "hw_free"]}
        /\ DOMAIN alsa = Dirs /\ alsa' \in {alsa, [alsa EXCEPT ![d] = "open"]}
        /\ audio_params' = audio_params
    BY <1>3 DEF CallHwParams, Begin
  <2> HIDE DEF TypeOK, Serial, StreamsInv, CallsInv, HealthyInv, Ops, Labels
  <2> QED
    BY <2>1
<1>4. ASSUME NEW d \in Dirs, CallHwFree(d) PROVE ForgottenInv'
  BY <1>4 DEF CallHwFree, Begin
<1>5. ASSUME NEW d \in Dirs, CallPrepare(d) PROVE ForgottenInv'
  BY <1>5 DEF CallPrepare, Begin
<1>6. ASSUME NEW d \in Dirs, CallStart(d) PROVE ForgottenInv'
  BY <1>6 DEF CallStart, Begin
<1>7. ASSUME NEW d \in Dirs, CallStop(d) PROVE ForgottenInv'
  BY <1>7 DEF CallStop, Begin
<1>8. ASSUME NEW d \in Dirs, ReturnHwParams(d) PROVE ForgottenInv'
  BY <1>8 DEF ReturnHwParams, Return, ToIdle, Then
<1>9. ASSUME NEW d \in Dirs, ReturnHwFree(d) PROVE ForgottenInv'
  BY <1>9 DEF ReturnHwFree, Return, ToIdle, Then
<1>10. ASSUME NEW d \in Dirs, ReturnPrepare(d) PROVE ForgottenInv'
  BY <1>10 DEF ReturnPrepare, Return, ToIdle, Then
<1>11. ASSUME NEW d \in Dirs, ReturnStart(d) PROVE ForgottenInv'
  BY <1>11 DEF ReturnStart, Return, ToIdle, Then
<1>12. ASSUME NEW d \in Dirs, ReturnStop(d) PROVE ForgottenInv'
  BY <1>12 DEF ReturnStop, Return, ToIdle, Then
<1>13. ASSUME NEW d \in Dirs, StartEnter(d) PROVE ForgottenInv'
  BY <1>13 DEF StartEnter
<1>14. ASSUME NEW d \in Dirs, StopEnter(d) PROVE ForgottenInv'
  BY <1>14 DEF StopEnter, Clear, Last
<1>15. ASSUME NEW d \in Dirs, Unmask(d) PROVE ForgottenInv'
  BY <1>15 DEF Unmask
<1>16. ASSUME NEW d \in Dirs, Run(d) PROVE ForgottenInv'
  BY <1>16 DEF Run
<1>17. ASSUME NEW d \in Dirs, Mask(d) PROVE ForgottenInv'
  BY <1>17 DEF Mask, Stopped
<1>18. ASSUME NEW d \in Dirs, Halt(d) PROVE ForgottenInv'
  BY <1>18 DEF Halt
<1>19. ASSUME NEW d \in Dirs, Poll(d) PROVE ForgottenInv'
  BY <1>19 DEF Poll
<1>20. ASSUME NEW d \in Dirs, Retire(d) PROVE ForgottenInv'
  BY <1>20 DEF Retire, Stopped
<1>21. ASSUME NEW d \in Dirs, Unmaster(d) PROVE ForgottenInv'
  BY <1>21 DEF Unmaster
<1>22. ASSUME NEW d \in Dirs, LockHwParams(d) PROVE ForgottenInv'
  BY <1>22 DEF LockHwParams, Snapshot, Reconfigure
<1>23. ASSUME NEW d \in Dirs, LockHwFree(d) PROVE ForgottenInv'
  BY <1>23 DEF LockHwFree, Snapshot
<1>24. ASSUME NEW d \in Dirs, LockPrepare(d) PROVE ForgottenInv'
  BY <1>24 DEF LockPrepare
<1>25. ASSUME NEW d \in Dirs, Sync(d) PROVE ForgottenInv'
  BY <1>25 DEF Sync, Reconfigure, IrqSynchronized
<1>26. ASSUME NEW d \in Dirs, Switch(d) PROVE ForgottenInv'
  BY <1>26 DEF Switch, FreeResources, ClearRegisters
<1>27. ASSUME NEW d \in Dirs, Build(d) PROVE ForgottenInv'
  BY <1>27 DEF Build, BuildResources, FreeResources, ClearRegisters, Forget
<1>28. ASSUME NEW d \in Dirs, Detach(d) PROVE ForgottenInv'
  BY <1>28 DEF Detach, BuildResources, FreeResources, ClearRegisters, Forget
<1>29. ASSUME NEW d \in Dirs, Program(d) PROVE ForgottenInv'
  BY <1>29 DEF Program
<1>30. ASSUME NEW d \in Dirs, Fetch(d) PROVE ForgottenInv'
  BY <1>30 DEF Fetch
<1>31. ASSUME NEW d \in Dirs, Restore(d) PROVE ForgottenInv'
  BY <1>31 DEF Restore
<1>32. ASSUME NEW d \in Dirs, Unlock(d) PROVE ForgottenInv'
  BY <1>32 DEF Unlock
<1>33. ASSUME NEW d \in Dirs, IrqReport(d) PROVE ForgottenInv'
  BY <1>33 DEF IrqReport
<1>34. CASE DeviceStops
  BY <1>34 DEF DeviceStops
<1>35. CASE DeviceInterrupts
  BY <1>35 DEF DeviceInterrupts
<1>36. CASE IrqPick
  BY <1>36 DEF IrqPick
<1>37. CASE UNCHANGED vars
  BY <1>37 DEF vars
<1> QED
  BY <1>1, <1>2, <1>3, <1>4, <1>5, <1>6, <1>7, <1>8, <1>9, <1>10,
    <1>11, <1>12, <1>13, <1>14, <1>15, <1>16, <1>17, <1>18, <1>19,
    <1>20, <1>21, <1>22, <1>23, <1>24, <1>25, <1>26, <1>27, <1>28,
    <1>29, <1>30, <1>31, <1>32, <1>33, <1>34, <1>35, <1>36, <1>37 DEF Next, Call,
    Returns, Steps,
    Trigger, AudioStop, HwParams, Waits, IrqUnderrun

(* A rate and a buffer size change only to those of every registered stream. *)
LEMMA StepAgreementInv ==
  TypeOK /\ "stop" \notin Faults /\ Serial /\ TablesInv /\ StreamsInv /\
  CallsInv /\ StopsInv /\ HealthyInv /\ ForgottenInv /\ AgreementInv
    /\ [Next]_vars => AgreementInv'
<1> SUFFICES ASSUME TypeOK, "stop" \notin Faults, Serial, TablesInv, StreamsInv,
                    CallsInv, StopsInv, HealthyInv,
                    ForgottenInv, AgreementInv, [Next]_vars
             PROVE  AgreementInv'
  OBVIOUS
<1> USE DEF TypeOK, DriverOK, DeviceOK, CoreOK, LocalsOK, ControlOK, LabelsFit,
  StopLabels, Serial,
  OneAtATime, Ops, Labels, At, In, Goto, Idle, Fails,
  TablesInv, TablesBuilt, StreamsInv, Streaming, Started, CallsInv,
  StopsInv, ChangingRate, HealthyInv, ForgottenInv, SetUp, Reconfigures,
  AfterBuild, AgreementInv
<1>1. ASSUME NEW d \in Dirs, Open(d) PROVE AgreementInv'
  BY <1>1 DEF Open
<1>2. ASSUME NEW d \in Dirs, Close(d) PROVE AgreementInv'
  BY <1>2 DEF Close
<1>3. ASSUME NEW d \in Dirs, NEW g \in Geometries, CallHwParams(d, g)
      PROVE  AgreementInv'
  <2>1. /\ op \in [Dirs -> Ops] /\ pc \in [Dirs -> Labels] /\ \A e \in Dirs : op[e] = "none"
        /\ pc' = [pc EXCEPT ![d] = "lock"]
        /\ op' \in {[op EXCEPT ![d] = "hw_params"], [op EXCEPT ![d] = "hw_free"]}
        /\ UNCHANGED <<audio_params, runtime, audio_rate, tables, audio_buffer_bytes>>
    BY <1>3 DEF CallHwParams, Begin
  <2> HIDE DEF TypeOK, Serial, TablesInv, StreamsInv, CallsInv, StopsInv, HealthyInv,
    ForgottenInv, Ops, Labels
  <2> QED
    BY <2>1
<1>4. ASSUME NEW d \in Dirs, CallHwFree(d) PROVE AgreementInv'
  BY <1>4 DEF CallHwFree, Begin
<1>5. ASSUME NEW d \in Dirs, CallPrepare(d) PROVE AgreementInv'
  BY <1>5 DEF CallPrepare, Begin
<1>6. ASSUME NEW d \in Dirs, CallStart(d) PROVE AgreementInv'
  BY <1>6 DEF CallStart, Begin
<1>7. ASSUME NEW d \in Dirs, CallStop(d) PROVE AgreementInv'
  BY <1>7 DEF CallStop, Begin
<1>8. ASSUME NEW d \in Dirs, ReturnHwParams(d) PROVE AgreementInv'
  BY <1>8 DEF ReturnHwParams, Return, ToIdle, Then
<1>9. ASSUME NEW d \in Dirs, ReturnHwFree(d) PROVE AgreementInv'
  BY <1>9 DEF ReturnHwFree, Return, ToIdle, Then
<1>10. ASSUME NEW d \in Dirs, ReturnPrepare(d) PROVE AgreementInv'
  BY <1>10 DEF ReturnPrepare, Return, ToIdle, Then
<1>11. ASSUME NEW d \in Dirs, ReturnStart(d) PROVE AgreementInv'
  BY <1>11 DEF ReturnStart, Return, ToIdle, Then
<1>12. ASSUME NEW d \in Dirs, ReturnStop(d) PROVE AgreementInv'
  BY <1>12 DEF ReturnStop, Return, ToIdle, Then
<1>13. ASSUME NEW d \in Dirs, StartEnter(d) PROVE AgreementInv'
  BY <1>13 DEF StartEnter
<1>14. ASSUME NEW d \in Dirs, StopEnter(d) PROVE AgreementInv'
  BY <1>14 DEF StopEnter, Clear, Last
<1>15. ASSUME NEW d \in Dirs, Unmask(d) PROVE AgreementInv'
  BY <1>15 DEF Unmask
<1>16. ASSUME NEW d \in Dirs, Run(d) PROVE AgreementInv'
  BY <1>16 DEF Run
<1>17. ASSUME NEW d \in Dirs, Mask(d) PROVE AgreementInv'
  BY <1>17 DEF Mask, Stopped
<1>18. ASSUME NEW d \in Dirs, Halt(d) PROVE AgreementInv'
  BY <1>18 DEF Halt
<1>19. ASSUME NEW d \in Dirs, Poll(d) PROVE AgreementInv'
  BY <1>19 DEF Poll
<1>20. ASSUME NEW d \in Dirs, Retire(d) PROVE AgreementInv'
  BY <1>20 DEF Retire, Stopped
<1>21. ASSUME NEW d \in Dirs, Unmaster(d) PROVE AgreementInv'
  BY <1>21 DEF Unmaster
<1>22. ASSUME NEW d \in Dirs, LockHwParams(d) PROVE AgreementInv'
  BY <1>22, DirsAssumption DEF LockHwParams, Snapshot, Reconfigure, Mismatch, Other
<1>23. ASSUME NEW d \in Dirs, LockHwFree(d) PROVE AgreementInv'
  BY <1>23 DEF LockHwFree, Snapshot
<1>24. ASSUME NEW d \in Dirs, LockPrepare(d) PROVE AgreementInv'
  BY <1>24 DEF LockPrepare
<1>25. ASSUME NEW d \in Dirs, Sync(d) PROVE AgreementInv'
  BY <1>25 DEF Sync, Reconfigure, IrqSynchronized
<1>26. ASSUME NEW d \in Dirs, Switch(d) PROVE AgreementInv'
  BY <1>26, DirsAssumption DEF Switch, FreeResources, ClearRegisters, Other
<1>27. ASSUME NEW d \in Dirs, Build(d) PROVE AgreementInv'
  BY <1>27, DirsAssumption DEF Build, BuildResources, FreeResources, ClearRegisters,
    Forget, Other
<1>28. ASSUME NEW d \in Dirs, Detach(d) PROVE AgreementInv'
  BY <1>28, DirsAssumption DEF Detach, BuildResources, FreeResources, ClearRegisters,
    Forget, Other
<1>29. ASSUME NEW d \in Dirs, Program(d) PROVE AgreementInv'
  BY <1>29 DEF Program
<1>30. ASSUME NEW d \in Dirs, Fetch(d) PROVE AgreementInv'
  BY <1>30 DEF Fetch
<1>31. ASSUME NEW d \in Dirs, Restore(d) PROVE AgreementInv'
  BY <1>31 DEF Restore
<1>32. ASSUME NEW d \in Dirs, Unlock(d) PROVE AgreementInv'
  BY <1>32 DEF Unlock
<1>33. ASSUME NEW d \in Dirs, IrqReport(d) PROVE AgreementInv'
  BY <1>33 DEF IrqReport
<1>34. CASE DeviceStops
  BY <1>34 DEF DeviceStops
<1>35. CASE DeviceInterrupts
  BY <1>35 DEF DeviceInterrupts
<1>36. CASE IrqPick
  BY <1>36 DEF IrqPick
<1>37. CASE UNCHANGED vars
  BY <1>37 DEF vars
<1> HIDE DEF TypeOK, Serial, TablesInv, StreamsInv, CallsInv, StopsInv, HealthyInv,
  ForgottenInv, AgreementInv
<1> QED
  BY <1>1, <1>2, <1>3, <1>4, <1>5, <1>6, <1>7, <1>8, <1>9, <1>10,
    <1>11, <1>12, <1>13, <1>14, <1>15, <1>16, <1>17, <1>18, <1>19,
    <1>20, <1>21, <1>22, <1>23, <1>24, <1>25, <1>26, <1>27, <1>28,
    <1>29, <1>30, <1>31, <1>32, <1>33, <1>34, <1>35, <1>36, <1>37 DEF Next, Call,
    Returns, Steps,
    Trigger, AudioStop, HwParams, Waits, IrqUnderrun

(* A buffer goes away only when no table refers to it. *)
LEMMA StepBuffersInv ==
  TypeOK /\ "stop" \notin Faults /\ ParamStates \subseteq {"open"} /\ Serial
  /\ TablesInv /\ CallsInv /\ ForgottenInv /\ BuffersInv
    /\ [Next]_vars => BuffersInv'
<1> SUFFICES ASSUME TypeOK, "stop" \notin Faults, ParamStates \subseteq
                    {"open"}, Serial, TablesInv, CallsInv,
                    ForgottenInv, BuffersInv, [Next]_vars
             PROVE  BuffersInv'
  OBVIOUS
<1> USE DEF TypeOK, DriverOK, DeviceOK, CoreOK, LocalsOK, ControlOK, LabelsFit,
  StopLabels, Serial,
  OneAtATime, Ops, Labels, At, In, Goto, Idle, Fails,
  TablesInv, TablesBuilt, CallsInv, ForgottenInv, SetUp, Reconfigures,
  AfterBuild, BuffersInv
<1>1. ASSUME NEW d \in Dirs, Open(d) PROVE BuffersInv'
  BY <1>1 DEF Open
<1>2. ASSUME NEW d \in Dirs, Close(d) PROVE BuffersInv'
  BY <1>2 DEF Close
<1>3. ASSUME NEW d \in Dirs, NEW g \in Geometries, CallHwParams(d, g)
      PROVE  BuffersInv'
  <2>1. d \notin audio_params /\ stale' = stale /\ audio_params' = audio_params
    BY <1>3 DEF CallHwParams, Begin, BufferReleased
  <2>2. CASE /\ op' = [op EXCEPT ![d] = "hw_params"]
             /\ dma_bytes' = [dma_bytes EXCEPT ![d] = g.bytes]
    BY <2>1, <2>2, GeometryAssumption
  <2>3. CASE /\ op' = [op EXCEPT ![d] = "hw_free"]
             /\ dma_bytes' = [dma_bytes EXCEPT ![d] = 0]
    BY <2>1, <2>3
  <2> QED
    BY <1>3, <2>2, <2>3 DEF CallHwParams, Begin
<1>4. ASSUME NEW d \in Dirs, CallHwFree(d) PROVE BuffersInv'
  BY <1>4 DEF CallHwFree, Begin
<1>5. ASSUME NEW d \in Dirs, CallPrepare(d) PROVE BuffersInv'
  BY <1>5 DEF CallPrepare, Begin
<1>6. ASSUME NEW d \in Dirs, CallStart(d) PROVE BuffersInv'
  BY <1>6 DEF CallStart, Begin
<1>7. ASSUME NEW d \in Dirs, CallStop(d) PROVE BuffersInv'
  BY <1>7 DEF CallStop, Begin
<1>8. ASSUME NEW d \in Dirs, ReturnHwParams(d) PROVE BuffersInv'
  BY <1>8 DEF ReturnHwParams, Return, ToIdle, Then
<1>9. ASSUME NEW d \in Dirs, ReturnHwFree(d) PROVE BuffersInv'
  BY <1>9 DEF ReturnHwFree, Return, ToIdle, Then, BufferReleased
<1>10. ASSUME NEW d \in Dirs, ReturnPrepare(d) PROVE BuffersInv'
  BY <1>10 DEF ReturnPrepare, Return, ToIdle, Then
<1>11. ASSUME NEW d \in Dirs, ReturnStart(d) PROVE BuffersInv'
  BY <1>11 DEF ReturnStart, Return, ToIdle, Then
<1>12. ASSUME NEW d \in Dirs, ReturnStop(d) PROVE BuffersInv'
  BY <1>12 DEF ReturnStop, Return, ToIdle, Then
<1>13. ASSUME NEW d \in Dirs, StartEnter(d) PROVE BuffersInv'
  BY <1>13 DEF StartEnter
<1>14. ASSUME NEW d \in Dirs, StopEnter(d) PROVE BuffersInv'
  BY <1>14 DEF StopEnter, Clear, Last
<1>15. ASSUME NEW d \in Dirs, Unmask(d) PROVE BuffersInv'
  BY <1>15 DEF Unmask
<1>16. ASSUME NEW d \in Dirs, Run(d) PROVE BuffersInv'
  BY <1>16 DEF Run
<1>17. ASSUME NEW d \in Dirs, Mask(d) PROVE BuffersInv'
  BY <1>17 DEF Mask, Stopped
<1>18. ASSUME NEW d \in Dirs, Halt(d) PROVE BuffersInv'
  BY <1>18 DEF Halt
<1>19. ASSUME NEW d \in Dirs, Poll(d) PROVE BuffersInv'
  BY <1>19 DEF Poll
<1>20. ASSUME NEW d \in Dirs, Retire(d) PROVE BuffersInv'
  BY <1>20 DEF Retire, Stopped
<1>21. ASSUME NEW d \in Dirs, Unmaster(d) PROVE BuffersInv'
  BY <1>21 DEF Unmaster
<1>22. ASSUME NEW d \in Dirs, LockHwParams(d) PROVE BuffersInv'
  BY <1>22 DEF LockHwParams, Snapshot, Reconfigure
<1>23. ASSUME NEW d \in Dirs, LockHwFree(d) PROVE BuffersInv'
  BY <1>23 DEF LockHwFree, Snapshot
<1>24. ASSUME NEW d \in Dirs, LockPrepare(d) PROVE BuffersInv'
  BY <1>24 DEF LockPrepare
<1>25. ASSUME NEW d \in Dirs, Sync(d) PROVE BuffersInv'
  BY <1>25 DEF Sync, Reconfigure, IrqSynchronized
<1>26. ASSUME NEW d \in Dirs, Switch(d) PROVE BuffersInv'
  BY <1>26 DEF Switch, FreeResources, ClearRegisters
<1>27. ASSUME NEW d \in Dirs, Build(d) PROVE BuffersInv'
  BY <1>27 DEF Build, BuildResources, FreeResources, ClearRegisters, Forget
<1>28. ASSUME NEW d \in Dirs, Detach(d) PROVE BuffersInv'
  BY <1>28 DEF Detach, BuildResources, FreeResources, ClearRegisters, Forget
<1>29. ASSUME NEW d \in Dirs, Program(d) PROVE BuffersInv'
  BY <1>29 DEF Program
<1>30. ASSUME NEW d \in Dirs, Fetch(d) PROVE BuffersInv'
  BY <1>30 DEF Fetch
<1>31. ASSUME NEW d \in Dirs, Restore(d) PROVE BuffersInv'
  BY <1>31 DEF Restore
<1>32. ASSUME NEW d \in Dirs, Unlock(d) PROVE BuffersInv'
  BY <1>32 DEF Unlock
<1>33. ASSUME NEW d \in Dirs, IrqReport(d) PROVE BuffersInv'
  BY <1>33 DEF IrqReport
<1>34. CASE DeviceStops
  BY <1>34 DEF DeviceStops
<1>35. CASE DeviceInterrupts
  BY <1>35 DEF DeviceInterrupts
<1>36. CASE IrqPick
  BY <1>36 DEF IrqPick
<1>37. CASE UNCHANGED vars
  BY <1>37 DEF vars
<1> QED
  BY <1>1, <1>2, <1>3, <1>4, <1>5, <1>6, <1>7, <1>8, <1>9, <1>10,
    <1>11, <1>12, <1>13, <1>14, <1>15, <1>16, <1>17, <1>18, <1>19,
    <1>20, <1>21, <1>22, <1>23, <1>24, <1>25, <1>26, <1>27, <1>28,
    <1>29, <1>30, <1>31, <1>32, <1>33, <1>34, <1>35, <1>36, <1>37 DEF Next, Call,
    Returns, Steps,
    Trigger, AudioStop, HwParams, Waits, IrqUnderrun

ParamsInv == StreamsRefineInv /\ ForgottenInv /\ AgreementInv

LEMMA ParamsInvariant ==
  ASSUME Overlapping = {}, "stop" \notin Faults
  PROVE  Spec => []ParamsInv
<1>1. StreamsRefineInv /\ Init => ParamsInv
  BY InitParams DEF ParamsInv
<1>2. ParamsInv /\ StreamsRefineInv' /\ [Next]_vars => ParamsInv'
  BY StepForgottenInv, StepAgreementInv DEF ParamsInv, StreamsRefineInv, SerialInv
<1> QED
  BY RefineInvariant, <1>1, <1>2, PTL DEF Spec

(* When callbacks do not overlap, whatever else fails, the driver remembers *)
(* parameters for exactly the substreams that have them, as long as the     *)
(* engine stops when it is told.                                            *)
THEOREM ParamsMatch ==
  ASSUME Overlapping = {}, "stop" \notin Faults
  PROVE  Spec => []ParamsMatchStreams
<1>1. ParamsInv => ParamsMatchStreams
  BY DEF ParamsInv, StreamsRefineInv, TypeOK, DriverOK, ControlOK, LabelsFit,
    StopLabels, RegisteredInv,
    ForgottenInv, SetUp, Reconfigures, ParamsMatchStreams, Idle
<1> QED
  BY ParamsInvariant, <1>1, PTL

(* ... and both directions have the rate and the buffer size of the hardware. *)
THEOREM GeometriesAgree ==
  ASSUME Overlapping = {}, "stop" \notin Faults
  PROVE  Spec => []GeometryAgreement
<1>1. ParamsInv => GeometryAgreement
  BY DEF ParamsInv, StreamsRefineInv, TypeOK, DriverOK, ControlOK, LabelsFit,
    StopLabels, AgreementInv,
    Reconfigures, GeometryAgreement, Idle
<1> QED
  BY ParamsInvariant, <1>1, PTL

(* A client that sets parameters only once never has DMA in a buffer that  *)
(* the core has released.                                                  *)
THEOREM BuffersOutliveDma ==
  ASSUME Overlapping = {}, "stop" \notin Faults, ParamStates \subseteq {"open"}
  PROVE  Spec => []DmaInLiveBuffers
<1>1. ParamsInv /\ BuffersInv /\ [Next]_vars => BuffersInv'
  BY StepBuffersInv DEF ParamsInv, StreamsRefineInv, SerialInv
<1>2. BuffersInv => DmaInLiveBuffers
  BY DEF BuffersInv, DmaInLiveBuffers
<1> QED
  BY ParamsInvariant, InitParams, <1>1, <1>2, PTL DEF Spec
=============================================================================
