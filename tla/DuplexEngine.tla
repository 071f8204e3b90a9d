---------------------------- MODULE DuplexEngine ----------------------------
(***************************************************************************)
(* The joint audio engine of snd-quantum2626: one DMA engine that serves   *)
(* two ALSA substreams, playback and capture.  The PCM callbacks           *)
(* quantum_pcm_hw_params, _hw_free, _prepare and _trigger of the two       *)
(* directions run on threads of their own, against the interrupt handler   *)
(* and the device.  One atomic step is what a thread does between two      *)
(* points where another thread or the device can see a difference: a       *)
(* region under audio_lock, a write to AUDIO_CONTROL, a wait, or taking    *)
(* and releasing audio_mutex.                                              *)
(*                                                                         *)
(* The ALSA core, its buffer management and the device are not part of the *)
(* repository; they are modelled from how the driver uses them.            *)
(***************************************************************************)
EXTENDS Naturals

CONSTANTS
  Playback, Capture,  (* QUANTUM_STREAM_PLAYBACK, QUANTUM_STREAM_CAPTURE      *)
  None,               (* a mutex nobody holds, tables that do not exist       *)
  Geometries,         (* the parameters a client may ask for                  *)
  Overlapping,        (* the callbacks that may begin while one of the other  *)
                      (* direction is in progress, a subset of Ops            *)
  Faults,             (* what may go wrong, a subset of FaultKinds            *)
  ParamStates         (* ALSA states in which clients (re)set parameters      *)

Dirs == {Playback, Capture}
FaultKinds == {"stop",    (* the engine ignores a stop until the poll times out *)
               "fetch",   (* the device does not fetch the page tables in time  *)
               "nomem",   (* the driver cannot allocate its tables              *)
               "nobuf",   (* the core cannot allocate the client's buffer       *)
               "tci"}     (* the device refuses the sample-rate change          *)

Ops == {"none", "hw_params", "hw_free", "prepare", "start", "undo", "stop"}

ASSUME DirsAssumption == Playback # Capture /\ None \notin Dirs
ASSUME NoneAssumption == \A ps \in SUBSET Dirs : None # ps
ASSUME GeometryAssumption ==
  Geometries \subseteq [rate : Nat \ {0}, bytes : Nat \ {0}]
ASSUME EnvironmentAssumption ==
  /\ Overlapping \subseteq Ops
  /\ Faults \subseteq FaultKinds
  /\ ParamStates \subseteq {"open", "setup", "prepared"}

Other(d) == IF d = Playback THEN Capture ELSE Playback

(* The runtime fields of a substream that has just been opened are zero. *)
NoGeometry == [rate |-> 0, bytes |-> 0]

VARIABLES
  (* Guarded by audio_mutex. *)
  audio_mutex,          (* the direction whose callback holds it, or None      *)
  audio_params,         (* directions with parameters and a params_substream   *)
  tables,               (* None, or the directions whose own buffer the tables *)
                        (* reference (the silence or sink area otherwise)      *)
  audio_buffer_bytes,
  audio_rate,
  (* Guarded by audio_lock. *)
  audio_prepared, audio_running, audio_engine_running, irq_mask,
  substream,            (* directions whose substream pointer is not NULL      *)
  (* The device. *)
  hw_run,               (* AUDIO_CONTROL is RUN                                *)
  hw_table,             (* the registers hold the addresses of `tables'        *)
  hw_busy,              (* STOP_STATUS: the engine is still moving data        *)
  hw_irq,               (* the audio bit of IRQ_STATUS                         *)
  master,               (* PCI bus mastering is enabled                        *)
  (* The interrupt handler. *)
  irq_held,             (* pointers it picked and has still to report to       *)
  (* The ALSA core. *)
  alsa,                 (* state of each substream                             *)
  runtime,              (* the geometry in each substream's runtime            *)
  dma_bytes,            (* size of each substream's own buffer, 0 when none    *)
  stale,                (* directions whose buffer the tables reference        *)
                        (* although the core has released it                   *)
  stop_operating,       (* stopped substreams not yet synchronised with the    *)
                        (* handler                                             *)
  (* Callbacks in progress. *)
  pc, op, req, failed,
  running, running_substream   (* the locals filled by snapshot_running *)

mutexed == <<audio_mutex, audio_params, tables, audio_buffer_bytes, audio_rate>>
engine  == <<audio_running, audio_engine_running, irq_mask, substream>>
device  == <<hw_run, hw_table, hw_busy, hw_irq, master>>
core    == <<alsa, runtime, dma_bytes, stale, stop_operating>>
locals  == <<op, req, failed, running, running_substream>>
vars    == <<mutexed, audio_prepared, engine, device, irq_held, core, pc, locals>>

Labels == {"idle", "lock", "mask", "halt", "poll", "retire", "unmaster", "sync",
           "switch", "build", "detach", "program", "fetch", "restore", "unmask",
           "run", "unlock", "enter", "return"}

Init ==
  /\ audio_mutex = None /\ audio_params = {} /\ tables = None
  /\ audio_buffer_bytes = 0
  /\ audio_rate \in {g.rate : g \in Geometries}
  /\ audio_prepared = {} /\ audio_running = {} /\ substream = {}
  /\ audio_engine_running = FALSE /\ irq_mask = FALSE
  /\ hw_run = FALSE /\ hw_table = FALSE /\ hw_busy = FALSE /\ hw_irq = FALSE
  /\ master = TRUE
  /\ irq_held = {}
  /\ alsa = [d \in Dirs |-> "closed"]
  /\ runtime = [d \in Dirs |-> NoGeometry]
  /\ dma_bytes = [d \in Dirs |-> 0]
  /\ stale = {} /\ stop_operating = {}
  /\ pc = [d \in Dirs |-> "idle"] /\ op = [d \in Dirs |-> "none"]
  /\ req = [d \in Dirs |-> NoGeometry] /\ failed = {}
  /\ running = [d \in Dirs |-> {}] /\ running_substream = [d \in Dirs |-> {}]

Goto(d, l)  == pc' = [pc EXCEPT ![d] = l]
Fails(d)    == failed' = failed \cup {d}
At(d, l)    == pc[d] = l
In(d, o, l) == op[d] = o /\ pc[d] = l
Idle        == \A d \in Dirs : pc[d] = "idle"

-----------------------------------------------------------------------------
(* Clients and the ALSA core.  The calls of one substream are sequential.   *)

Begin(d, o, l) ==
  /\ pc[d] = "idle" /\ (Idle \/ o \in Overlapping)
  /\ Goto(d, l)
  /\ op' = [op EXCEPT ![d] = o]
  /\ failed' = failed \ {d}
  /\ UNCHANGED <<mutexed, audio_prepared, engine, device, irq_held,
                 running, running_substream>>

(* snd_pcm_sync_stop: after a stop, wait for the handler in progress. *)
SyncStop(d) ==
  /\ d \in stop_operating => irq_held = {}
  /\ stop_operating' = stop_operating \ {d}

(* quantum_pcm_open; the core allocates a zeroed runtime. *)
Open(d) ==
  /\ At(d, "idle") /\ alsa[d] = "closed"
  /\ alsa' = [alsa EXCEPT ![d] = "open"]
  /\ runtime' = [runtime EXCEPT ![d] = NoGeometry]
  /\ UNCHANGED <<mutexed, audio_prepared, engine, device, irq_held,
                 dma_bytes, stale, stop_operating, pc, locals>>

(* quantum_pcm_close; the core releases the runtime. *)
Close(d) ==
  /\ At(d, "idle") /\ alsa[d] = "open"
  /\ alsa' = [alsa EXCEPT ![d] = "closed"]
  /\ UNCHANGED <<mutexed, audio_prepared, engine, device, irq_held, runtime,
                 dma_bytes, stale, stop_operating, pc, locals>>

(* The buffer of d goes away while the tables may still reference it. *)
BufferReleased(d) ==
  stale' = IF tables # None /\ d \in tables THEN stale \cup {d} ELSE stale

(* The core provides a large enough buffer before it calls the driver. *)
CallHwParams(d, g) ==
  /\ alsa[d] \in ParamStates
  /\ SyncStop(d)
  /\ req' = [req EXCEPT ![d] = g]
  /\ \/ /\ dma_bytes' = [dma_bytes EXCEPT ![d] = g.bytes]
        /\ IF dma_bytes[d] < g.bytes THEN BufferReleased(d) ELSE stale' = stale
        /\ Begin(d, "hw_params", "lock")
     \/ /\ "nobuf" \in Faults
        /\ dma_bytes' = [dma_bytes EXCEPT ![d] = 0]
        /\ BufferReleased(d)
        /\ Begin(d, "hw_free", "lock")
  /\ alsa' = IF op'[d] = "hw_free" THEN [alsa EXCEPT ![d] = "open"] ELSE alsa
  /\ UNCHANGED runtime

CallHwFree(d) ==
  /\ alsa[d] \in {"setup", "prepared"}
  /\ SyncStop(d)
  /\ Begin(d, "hw_free", "lock")
  /\ UNCHANGED <<alsa, runtime, dma_bytes, stale, req>>

CallPrepare(d) ==
  /\ alsa[d] \in {"setup", "prepared"}
  /\ SyncStop(d)
  /\ Begin(d, "prepare", "lock")
  /\ UNCHANGED <<alsa, runtime, dma_bytes, stale, req>>

CallStart(d) ==
  /\ alsa[d] = "prepared"
  /\ Begin(d, "start", "enter")
  /\ UNCHANGED <<core, req>>

(* A client drops a running stream. *)
CallStop(d) ==
  /\ alsa[d] = "running"
  /\ Begin(d, "stop", "enter")
  /\ UNCHANGED <<core, req>>

(* A callback returns its result to the core, which moves the substream on. *)
Return(d) ==
  /\ At(d, "return")
  /\ failed' = failed \ {d}
  /\ running' = [running EXCEPT ![d] = {}]
  /\ running_substream' = [running_substream EXCEPT ![d] = {}]
  /\ req' = [req EXCEPT ![d] = NoGeometry]
  /\ UNCHANGED <<mutexed, audio_prepared, engine, device, irq_held>>

Then(d, o, l) == Goto(d, l) /\ op' = [op EXCEPT ![d] = o]
ToIdle(d)     == Then(d, "none", "idle")

ReturnHwParams(d) ==
  /\ Return(d) /\ op[d] = "hw_params"
  /\ UNCHANGED <<dma_bytes, stale, stop_operating>>
  /\ \/ /\ d \notin failed /\ ToIdle(d)
        /\ alsa' = [alsa EXCEPT ![d] = "setup"]
        /\ runtime' = [runtime EXCEPT ![d] = req[d]]
     \/ /\ d \in failed        (* the core undoes a failed hw_params by hw_free *)
        /\ alsa' = [alsa EXCEPT ![d] = "open"]
        /\ runtime' = runtime
        /\ Then(d, "hw_free", "lock")

(* The core releases the buffer and forgets the parameters even when the   *)
(* driver's hw_free reports an error.                                      *)
ReturnHwFree(d) ==
  /\ Return(d) /\ op[d] = "hw_free" /\ ToIdle(d)
  /\ alsa' = [alsa EXCEPT ![d] = "open"]
  /\ dma_bytes' = [dma_bytes EXCEPT ![d] = 0]
  /\ BufferReleased(d)
  /\ UNCHANGED <<runtime, stop_operating>>

ReturnPrepare(d) ==
  /\ Return(d) /\ op[d] = "prepare" /\ ToIdle(d)
  /\ alsa' = IF d \in failed THEN alsa ELSE [alsa EXCEPT ![d] = "prepared"]
  /\ UNCHANGED <<runtime, dma_bytes, stale, stop_operating>>

(* The core undoes a failed start by a stop. *)
ReturnStart(d) ==
  /\ Return(d) /\ op[d] = "start"
  /\ UNCHANGED <<runtime, dma_bytes, stale, stop_operating>>
  /\ \/ /\ d \notin failed /\ ToIdle(d)
        /\ alsa' = [alsa EXCEPT ![d] = "running"]
     \/ /\ d \in failed
        /\ alsa' = alsa
        /\ Then(d, "undo", "enter")

(* A stop counts as done whatever the driver returned. *)
ReturnStop(d) ==
  /\ Return(d) /\ op[d] \in {"stop", "undo"} /\ ToIdle(d)
  /\ alsa' = IF op[d] = "stop" THEN [alsa EXCEPT ![d] = "setup"] ELSE alsa
  /\ stop_operating' = stop_operating \cup {d}
  /\ UNCHANGED <<runtime, dma_bytes, stale>>

-----------------------------------------------------------------------------
(* quantum_pcm_trigger *)

StartEnter(d) ==
  /\ In(d, "start", "enter")
  /\ IF d \notin audio_prepared
       THEN /\ Fails(d) /\ Goto(d, "return")
            /\ UNCHANGED engine
       ELSE /\ substream' = substream \cup {d}
            /\ audio_running' = audio_running \cup {d}
            /\ audio_engine_running' = TRUE
            /\ Goto(d, IF audio_engine_running THEN "return" ELSE "unmask")
            /\ UNCHANGED <<irq_mask, failed>>
  /\ UNCHANGED <<mutexed, audio_prepared, device, irq_held, core, op, req,
                 running, running_substream>>

(* Bug: the bit of a stopped direction stays set. *)
ClearPointerOnly(d) == audio_running' = audio_running /\ substream' = substream \ {d}

Clear(d) == audio_running' = audio_running \ {d} /\ substream' = substream \ {d}

(* Bugs: `last' is computed before the bit is cleared; every stop is last. *)
LastBeforeClearing == audio_engine_running /\ audio_running = {}
LastAlways         == audio_engine_running

(* `last': the engine runs for nobody any more. *)
Last == audio_engine_running /\ audio_running' = {}

StopEnter(d) ==
  /\ At(d, "enter") /\ op[d] \in {"stop", "undo"}
  /\ Clear(d)
  /\ Goto(d, IF Last THEN "mask" ELSE "return")
  /\ UNCHANGED <<mutexed, audio_prepared, audio_engine_running, irq_mask,
                 device, irq_held, core, locals>>

(* Bug: the audio interrupt stays masked. *)
UnmaskForgotten(d) ==
  /\ At(d, "unmask")
  /\ hw_irq' = FALSE
  /\ Goto(d, "run")
  /\ UNCHANGED <<mutexed, audio_prepared, engine, hw_run, hw_table, hw_busy,
                 master, irq_held, core, locals>>

(* Acknowledge a stale interrupt and enable the audio interrupt. *)
Unmask(d) ==
  /\ At(d, "unmask")
  /\ hw_irq' = FALSE
  /\ irq_mask' = TRUE
  /\ Goto(d, "run")
  /\ UNCHANGED <<mutexed, audio_prepared, audio_running, audio_engine_running,
                 substream, hw_run, hw_table, hw_busy, master, irq_held, core,
                 locals>>

(* Write RUN to AUDIO_CONTROL: the end of a start and of restore_running. *)
Run(d) ==
  /\ At(d, "run")
  /\ hw_run' = TRUE /\ hw_busy' = TRUE
  /\ Goto(d, IF op[d] = "start" THEN "return" ELSE "unlock")
  /\ UNCHANGED <<mutexed, audio_prepared, engine, hw_table, hw_irq, master,
                 irq_held, core, locals>>

-----------------------------------------------------------------------------
(* quantum_audio_stop, called by a trigger, by hw_params and by hw_free *)

(* Bug: a trigger goes on like hw_params after the engine has stopped. *)
StoppedForgetsTrigger(d) == Goto(d, "sync")

(* Bug: quantum_audio_stop waits for the handler, as its callers in process *)
(* context do, although the handler may be its caller.                      *)
StoppedSynchronizes(d) ==
  /\ irq_held = {}
  /\ Goto(d, IF op[d] \in {"stop", "undo"} THEN "return" ELSE "sync")

(* Where quantum_audio_stop returns to. *)
Stopped(d) == Goto(d, IF op[d] \in {"stop", "undo"} THEN "return" ELSE "sync")

Mask(d) ==
  /\ At(d, "mask")
  /\ irq_mask' = FALSE
  /\ IF audio_engine_running THEN Goto(d, "halt") ELSE Stopped(d)
  /\ UNCHANGED <<mutexed, audio_prepared, audio_running, audio_engine_running,
                 substream, device, irq_held, core, locals>>

Halt(d) ==
  /\ At(d, "halt")
  /\ hw_run' = FALSE
  /\ Goto(d, "poll")
  /\ UNCHANGED <<mutexed, audio_prepared, engine, hw_table, hw_busy, hw_irq,
                 master, irq_held, core, locals>>

(* The poll sees the engine idle, or gives up because the device is faulty *)
(* or because another thread has set it running again.                     *)
Poll(d) ==
  /\ At(d, "poll")
  /\ \/ ~hw_busy /\ failed' = failed
     \/ hw_busy /\ ("stop" \in Faults \/ hw_run) /\ Fails(d)
  /\ Goto(d, "retire")
  /\ UNCHANGED <<mutexed, audio_prepared, engine, device, irq_held, core, op,
                 req, running, running_substream>>

Retire(d) ==
  /\ At(d, "retire")
  /\ audio_engine_running' = FALSE
  /\ audio_running' = {} /\ substream' = {}
  /\ IF d \in failed THEN Goto(d, "unmaster") ELSE Stopped(d)
  /\ UNCHANGED <<mutexed, audio_prepared, irq_mask, device, irq_held, core,
                 locals>>

(* pci_clear_master; hw_params and hw_free give up on the error. *)
Unmaster(d) ==
  /\ At(d, "unmaster")
  /\ master' = FALSE
  /\ Goto(d, IF op[d] \in {"stop", "undo"} THEN "return" ELSE "unlock")
  /\ UNCHANGED <<mutexed, audio_prepared, engine, hw_run, hw_table, hw_busy,
                 hw_irq, irq_held, core, locals>>

-----------------------------------------------------------------------------
(* quantum_pcm_hw_params *)

Acquire(d) == audio_mutex = None /\ audio_mutex' = d

(* Bugs: the pointers are not saved; nothing is seen running. *)
SnapshotTorn(d) ==
  /\ running' = [running EXCEPT ![d] = audio_running]
  /\ UNCHANGED running_substream
SnapshotEmpty(d) == UNCHANGED <<running, running_substream>>

Snapshot(d) ==
  /\ running' = [running EXCEPT ![d] = audio_running]
  /\ running_substream' = [running_substream EXCEPT ![d] = substream]

(* Bug: only the rates are compared. *)
MismatchOfRates(d) ==
  Other(d) \in audio_params /\ runtime[Other(d)].rate # req[d].rate

(* The other direction has other parameters, as its runtime shows now. *)
Mismatch(d) == Other(d) \in audio_params /\ runtime[Other(d)] # req[d]

(* A new rate is refused while the snapshot shows a running stream. *)
ChangingRate(d) == audio_rate # req[d].rate
Busy(d)         == ChangingRate(d) /\ running'[d] # {}

(* Where hw_params goes on when the engine rests. *)
Reconfigure(d) == IF ChangingRate(d) THEN "switch" ELSE "build"

(* Take audio_mutex, compare with the other direction, snapshot, decide.   *)
LockHwParams(d) ==
  /\ In(d, "hw_params", "lock") /\ Acquire(d)
  /\ Snapshot(d)
  /\ IF Mismatch(d) \/ Busy(d) THEN Fails(d) /\ Goto(d, "unlock")
     ELSE /\ failed' = failed
          /\ Goto(d, IF running'[d] # {} THEN "mask" ELSE Reconfigure(d))
  /\ UNCHANGED <<audio_params, tables, audio_buffer_bytes, audio_rate,
                 audio_prepared, engine, device, irq_held, core, op, req>>

(* Bug: synchronize_irq is forgotten. *)
IrqIgnored == TRUE

(* synchronize_irq: the handler that may be in progress has finished. *)
IrqSynchronized == irq_held = {}

Sync(d) ==
  /\ At(d, "sync")
  /\ IrqSynchronized
  /\ Goto(d, IF op[d] = "hw_free" THEN "detach" ELSE Reconfigure(d))
  /\ UNCHANGED <<mutexed, audio_prepared, engine, device, irq_held, core, locals>>

(* quantum_audio_free_resources: stop and clear the registers, then free.  *)
ClearRegisters == hw_run' = FALSE /\ hw_table' = FALSE

(* Bug: the prepared directions stay prepared. *)
FreeResourcesOnly ==
  /\ ClearRegisters
  /\ tables' = None /\ audio_buffer_bytes' = 0
  /\ stale' = {} /\ UNCHANGED audio_prepared

FreeResources ==
  /\ ClearRegisters
  /\ tables' = None /\ audio_buffer_bytes' = 0
  /\ stale' = {}
  /\ audio_prepared' = {}

(* quantum_audio_build_resources for the directions ps; it frees first.    *)
BuildResources(ps, bytes) ==
  /\ ClearRegisters
  /\ tables' = ps /\ audio_buffer_bytes' = bytes
  /\ stale' = {p \in ps : dma_bytes[p] = 0}
  /\ audio_prepared' = {}

(* Free everything and let the device change its rate. *)
Switch(d) ==
  /\ At(d, "switch")
  /\ FreeResources
  /\ \/ /\ audio_rate' = req[d].rate
        /\ Goto(d, "build") /\ failed' = failed
     \/ /\ "tci" \in Faults
        /\ audio_rate' = audio_rate
        /\ Goto(d, "unlock") /\ Fails(d)
  /\ UNCHANGED <<audio_mutex, audio_params, engine, hw_busy, hw_irq, master,
                 irq_held, alsa, runtime, dma_bytes, stop_operating, op, req,
                 running, running_substream>>

(* Bug: the stream stays registered. *)
ForgetNothing(d) == UNCHANGED audio_params

(* The stream has parameters no longer, and no params_substream. *)
Forget(d) == audio_params' = audio_params \ {d}

(* Register the stream and build tables that include its buffer. *)
Build(d) ==
  /\ At(d, "build")
  /\ \/ /\ audio_params' = audio_params \cup {d}
        /\ BuildResources(audio_params', req[d].bytes)
        /\ Goto(d, IF running[d] # {} THEN "program" ELSE "unlock")
        /\ failed' = failed
     \/ /\ "nomem" \in Faults
        /\ Forget(d)
        /\ FreeResources
        /\ Goto(d, "unlock") /\ Fails(d)
  /\ UNCHANGED <<audio_mutex, audio_rate, engine, hw_busy, hw_irq, master,
                 irq_held, alsa, runtime, dma_bytes, stop_operating, op, req,
                 running, running_substream>>

(* quantum_audio_program_resources up to the wait for the page tables; every *)
(* caller has taken back the prepared directions before.                    *)
Program(d) ==
  /\ At(d, "program")
  /\ audio_prepared' = {}
  /\ IF audio_buffer_bytes = 0
       THEN /\ Fails(d) /\ Goto(d, "unlock")
            /\ UNCHANGED <<hw_run, hw_table>>
       ELSE /\ hw_run' = FALSE /\ hw_table' = TRUE
            /\ failed' = failed /\ Goto(d, "fetch")
  /\ UNCHANGED <<mutexed, engine, hw_busy, hw_irq, master, irq_held, core, op,
                 req, running, running_substream>>

(* quantum_audio_wait_page_tables: a device that may not master the bus    *)
(* cannot fetch.                                                           *)
Fetch(d) ==
  /\ At(d, "fetch")
  /\ \/ /\ master
        /\ audio_prepared' = audio_params
        /\ Goto(d, IF op[d] = "prepare" THEN "unlock" ELSE "restore")
        /\ failed' = failed
     \/ /\ ~master \/ "fetch" \in Faults
        /\ audio_prepared' = audio_prepared
        /\ Goto(d, "unlock") /\ Fails(d)
  /\ UNCHANGED <<mutexed, engine, device, irq_held, core, op, req, running,
                 running_substream>>

(* quantum_audio_restore_running up to the interrupt mask. *)
Restore(d) ==
  /\ At(d, "restore")
  /\ IF running[d] \subseteq audio_prepared
       THEN /\ substream' = running_substream[d]
            /\ audio_running' = running[d]
            /\ audio_engine_running' = TRUE
            /\ failed' = failed /\ Goto(d, "unmask")
       ELSE /\ Fails(d) /\ Goto(d, "unlock")
            /\ UNCHANGED <<substream, audio_running, audio_engine_running>>
  /\ UNCHANGED <<mutexed, audio_prepared, irq_mask, device, irq_held, core, op,
                 req, running, running_substream>>

Release == audio_mutex' = None

Unlock(d) ==
  /\ At(d, "unlock")
  /\ Release
  /\ Goto(d, "return")
  /\ UNCHANGED <<audio_params, tables, audio_buffer_bytes, audio_rate,
                 audio_prepared, engine, device, irq_held, core, locals>>

-----------------------------------------------------------------------------
(* quantum_pcm_hw_free *)

LockHwFree(d) ==
  /\ In(d, "hw_free", "lock") /\ Acquire(d)
  /\ Snapshot(d)
  /\ IF d \in running'[d] THEN Fails(d) /\ Goto(d, "unlock")
     ELSE /\ failed' = failed
          /\ Goto(d, IF running'[d] # {} THEN "mask" ELSE "sync")
  /\ UNCHANGED <<audio_params, tables, audio_buffer_bytes, audio_rate,
                 audio_prepared, engine, device, irq_held, core, op, req>>

(* Forget the stream and rebuild the tables for the one that remains, from *)
(* its runtime.  An empty buffer may or may not count as allocated.        *)
Detach(d) ==
  LET bytes == runtime[Other(d)].bytes
  IN /\ At(d, "detach")
     /\ Forget(d)
     /\ \/ /\ audio_params' = {} /\ FreeResources
           /\ Goto(d, "unlock") /\ failed' = failed
        \/ /\ audio_params' # {} /\ BuildResources(audio_params', bytes)
           /\ Goto(d, IF running[d] # {} THEN "program" ELSE "unlock")
           /\ failed' = failed
        \/ /\ audio_params' # {} /\ ("nomem" \in Faults \/ bytes = 0)
           /\ FreeResources
           /\ Goto(d, "unlock") /\ Fails(d)
  /\ UNCHANGED <<audio_mutex, audio_rate, engine, hw_busy, hw_irq, master,
                 irq_held, alsa, runtime, dma_bytes, stop_operating, op, req,
                 running, running_substream>>

-----------------------------------------------------------------------------
(* quantum_pcm_prepare: take audio_mutex and decide. *)
LockPrepare(d) ==
  LET unusable == \/ d \notin audio_params \/ tables = None
                  \/ dma_bytes[d] < audio_buffer_bytes
      refused  == audio_engine_running /\ d \notin audio_prepared
  IN /\ In(d, "prepare", "lock") /\ Acquire(d)
     /\ IF unusable \/ refused THEN Fails(d) /\ Goto(d, "unlock")
        ELSE /\ failed' = failed
             /\ Goto(d, IF audio_engine_running THEN "unlock" ELSE "program")
  /\ UNCHANGED <<audio_params, tables, audio_buffer_bytes, audio_rate,
                 audio_prepared, engine, device, irq_held, core, op, req,
                 running, running_substream>>

-----------------------------------------------------------------------------
(* The device and the interrupt handler *)

(* A halted engine comes to rest. *)
DeviceStops ==
  /\ hw_busy /\ ~hw_run
  /\ hw_busy' = FALSE
  /\ UNCHANGED <<mutexed, audio_prepared, engine, hw_run, hw_table, hw_irq,
                 master, irq_held, core, pc, locals>>

(* A running engine that may access memory finishes a period. *)
DeviceInterrupts ==
  /\ hw_busy /\ hw_run /\ master /\ ~hw_irq
  /\ hw_irq' = TRUE
  /\ UNCHANGED <<mutexed, audio_prepared, engine, hw_run, hw_table, hw_busy,
                 master, irq_held, core, pc, locals>>

(* snd_quantum_interrupt: acknowledge, pick the running substreams.  The   *)
(* handler also runs for other sources of its line, so the mask is no      *)
(* guard: the audio bit is read from the raw status.                       *)
IrqPick ==
  /\ hw_irq /\ irq_held = {}
  /\ hw_irq' = FALSE
  /\ irq_held' = IF audio_engine_running THEN audio_running \cap substream ELSE {}
  /\ UNCHANGED <<mutexed, audio_prepared, engine, hw_run, hw_table, hw_busy,
                 master, core, pc, locals>>

(* A trigger runs under the lock of its substream. *)
StreamLocked(d) == op[d] \in {"start", "stop", "undo"}

(* The handler is at its call of snd_pcm_period_elapsed for d; playback     *)
(* comes before capture.                                                    *)
Reporting(d) == d \in irq_held /\ (d = Capture => Playback \notin irq_held)

(* snd_pcm_period_elapsed takes the lock of the substream, so it waits for  *)
(* the trigger that holds it.                                               *)
IrqReport(d) ==
  /\ Reporting(d) /\ ~StreamLocked(d)
  /\ irq_held' = irq_held \ {d}
  /\ UNCHANGED <<mutexed, audio_prepared, engine, device, core, pc, locals>>

(* It finds an underrun or an overrun, and the core stops the substream from *)
(* within: the handler cannot finish before this trigger has returned.      *)
IrqUnderrun(d) == Reporting(d) /\ CallStop(d)

-----------------------------------------------------------------------------
Call(d) ==
  \/ Open(d) \/ Close(d) \/ \E g \in Geometries : CallHwParams(d, g)
  \/ CallHwFree(d) \/ CallPrepare(d) \/ CallStart(d) \/ CallStop(d)

Returns(d) ==
  \/ ReturnHwParams(d) \/ ReturnHwFree(d) \/ ReturnPrepare(d)
  \/ ReturnStart(d) \/ ReturnStop(d)

Trigger(d)   == StartEnter(d) \/ StopEnter(d) \/ Unmask(d) \/ Run(d)
AudioStop(d) == Mask(d) \/ Halt(d) \/ Retire(d) \/ Unmaster(d)
HwParams(d)  ==
  \/ Switch(d) \/ Build(d) \/ Program(d) \/ Fetch(d) \/ Restore(d) \/ Unlock(d)

(* Waits that another thread, the handler or the device ends; Poll gives up *)
(* by itself after a hundred reads.                                         *)
Waits(d) ==
  \/ LockHwParams(d) \/ LockHwFree(d) \/ LockPrepare(d) \/ Sync(d) \/ Poll(d)

Steps(d) == Returns(d) \/ Trigger(d) \/ AudioStop(d) \/ HwParams(d) \/ Detach(d)

Next ==
  \/ \E d \in Dirs : Call(d) \/ Steps(d) \/ Waits(d) \/ IrqReport(d) \/ IrqUnderrun(d)
  \/ DeviceStops \/ DeviceInterrupts \/ IrqPick

Spec == Init /\ [][Next]_vars

(* The scheduler runs every thread, mutex and stream lock are handed to     *)
(* every waiter, and a working device stops and interrupts.  An interrupt is *)
(* sure to be delivered only while it is not masked.                        *)
Fairness ==
  /\ \A d \in Dirs : WF_vars(Steps(d)) /\ SF_vars(Waits(d)) /\ SF_vars(IrqReport(d))
  /\ WF_vars(irq_mask /\ IrqPick) /\ WF_vars(DeviceStops) /\ WF_vars(DeviceInterrupts)

FairSpec == Spec /\ Fairness

-----------------------------------------------------------------------------
(* Every variable stays in its range, and a callback is only at a point its *)
(* operation has.                                                           *)
GeometryOrNone == Geometries \cup {NoGeometry}
StopLabels == {"mask", "halt", "poll", "retire", "unmaster"}
LabelsFit(d) ==
  \/ op[d] = "none"    /\ pc[d] = "idle"
  \/ op[d] = "start"   /\ pc[d] \in {"enter", "unmask", "run", "return"}
  \/ op[d] \in {"stop", "undo"} /\ pc[d] \in {"enter", "return"} \cup StopLabels
  \/ op[d] = "prepare" /\ pc[d] \in {"lock", "program", "fetch", "unlock", "return"}
  \/ /\ op[d] \in {"hw_params", "hw_free"}
     /\ pc[d] \in {"lock", "sync", "program", "fetch", "restore", "unmask", "run",
                  "unlock", "return"} \cup StopLabels
  \/ op[d] = "hw_params" /\ pc[d] \in {"switch", "build"}
  \/ op[d] = "hw_free"   /\ pc[d] = "detach"

DriverOK ==
  /\ audio_mutex \in Dirs \cup {None}
  /\ audio_params \subseteq Dirs
  /\ tables \in {None} \cup SUBSET Dirs
  /\ audio_buffer_bytes \in Nat /\ audio_rate \in Nat
  /\ audio_prepared \subseteq Dirs /\ audio_running \subseteq Dirs
  /\ substream \subseteq Dirs /\ irq_held \subseteq Dirs
  /\ audio_engine_running \in BOOLEAN /\ irq_mask \in BOOLEAN

DeviceOK ==
  /\ hw_run \in BOOLEAN /\ hw_table \in BOOLEAN /\ hw_busy \in BOOLEAN
  /\ hw_irq \in BOOLEAN /\ master \in BOOLEAN

CoreOK ==
  /\ alsa \in [Dirs -> {"closed", "open", "setup", "prepared", "running"}]
  /\ runtime \in [Dirs -> GeometryOrNone]
  /\ dma_bytes \in [Dirs -> Nat]
  /\ stale \subseteq Dirs /\ stop_operating \subseteq Dirs

LocalsOK ==
  /\ req \in [Dirs -> GeometryOrNone]
  /\ failed \subseteq Dirs
  /\ running \in [Dirs -> SUBSET Dirs]
  /\ running_substream \in [Dirs -> SUBSET Dirs]

ControlOK ==
  /\ op \in [Dirs -> Ops] /\ pc \in [Dirs -> Labels]
  /\ \A d \in Dirs : LabelsFit(d)

TypeOK == DriverOK /\ DeviceOK /\ CoreOK /\ LocalsOK /\ ControlOK

-----------------------------------------------------------------------------
(* Whatever the interleaving *)

(* The interrupt handler finds a substream pointer for exactly the          *)
(* directions marked running, and none is marked while the engine is not:   *)
(* start, stop, quantum_audio_stop and restore_running agree about it.      *)
Bookkeeping ==
  /\ substream = audio_running
  /\ audio_running # {} => audio_engine_running

(* The engine is not left running for nobody: when no direction runs, the   *)
(* trigger that stopped the last one is on its way to retire the engine.    *)
NoOrphanEngine ==
  audio_engine_running /\ audio_running = {} =>
    \E d \in Dirs : /\ op[d] \in {"stop", "undo"}
                   /\ pc[d] \in {"mask", "halt", "poll", "retire"}

(* A direction that a start would admit has parameters, and the device      *)
(* holds tables built for exactly the directions that have.                 *)
PreparedMeansProgrammed ==
  audio_prepared # {} =>
    /\ audio_prepared = audio_params
    /\ tables = audio_params /\ hw_table /\ audio_buffer_bytes > 0

(* Every callback returns: the waits for audio_mutex, of synchronize_irq    *)
(* for the handler, of the handler for the trigger of the stream it reports *)
(* to, also when it runs that trigger itself, and of a stop for the engine  *)
(* never close a circle, and every path releases audio_mutex.               *)
CallbacksReturn == \A d \in Dirs : ~At(d, "idle") ~> At(d, "idle")

-----------------------------------------------------------------------------
(* When the callbacks of the two directions do not overlap *)

Streaming == {d \in Dirs : alsa[d] = "running"}

(* Between callbacks the flags of the driver, the interrupt mask and the    *)
(* RUN bit of the device tell the same story.                               *)
FlagsMatchDevice ==
  Idle => /\ audio_engine_running = hw_run
          /\ audio_engine_running = irq_mask
          /\ audio_engine_running = (audio_running # {})

(* The device can move data only through tables that exist and that it was  *)
(* given: none is freed or replaced under a moving engine, even when the    *)
(* engine does not stop in time ("stops TCI and waits before releasing      *)
(* coherent memory", "bus mastering is cleared before buffers are freed").  *)
DmaThroughLiveTables == hw_busy /\ master => tables # None /\ hw_table

(* ... and only in client buffers that the ALSA core has not released.      *)
DmaInLiveBuffers == hw_busy /\ master => stale = {}

(* No period is reported to a stream while its DMA is torn down and rebuilt *)
(* for the other one.                                                       *)
QuietRebuild ==
  \A d \in Dirs :
    running[d] # {} /\ pc[d] \in {"build", "detach", "program", "fetch", "restore"}
      => irq_held = {}

(* The driver remembers parameters for exactly the substreams that have     *)
(* them, so the runtime it reads through params_substream exists.           *)
ParamsMatchStreams ==
  Idle => audio_params = {d \in Dirs : alsa[d] \in {"setup", "prepared", "running"}}

(* Both directions have the geometry and the rate the hardware was given.   *)
GeometryAgreement ==
  Idle => \A d \in audio_params :
            /\ runtime[d].rate = audio_rate
            /\ tables # None => runtime[d].bytes = audio_buffer_bytes

(* A rate change never happens under a running engine.                      *)
RateChangesAtRest ==
  [][audio_rate' # audio_rate => ~audio_engine_running /\ ~(hw_busy /\ master)]_vars

(* A stream that ALSA believes running is served by the engine ...          *)
StartedStreamsRun == Idle => Streaming \subseteq audio_running
(* ... and one that ALSA has stopped is not. *)
StoppedStreamsRest == Idle => audio_running \subseteq Streaming

(* Once the clients leave it alone, a stream that ALSA believes running     *)
(* gets its period interrupts again and again.                              *)
PeriodsElapse == \A d \in Dirs :
  <>[](d \in Streaming /\ Idle) => []<>(d \in irq_held)

(* The engine implements two independent streams.  A direction counts as    *)
(* started or stopped once its trigger has taken effect, and a stream that  *)
(* hw_params or hw_free has paused to rebuild the tables counts as moving.  *)
StreamState == [d \in Dirs |->
  CASE op[d] = "start" /\ pc[d] # "enter" /\ d \notin failed -> "running"
    [] op[d] = "stop" /\ pc[d] # "enter"                -> "setup"
    [] OTHER                                            -> alsa[d]]

Paused(d) ==
  IF pc[d] \in {"sync", "build", "detach", "program", "fetch", "restore"}
    THEN running[d] ELSE {}

Moving == audio_running \cup Paused(Playback) \cup Paused(Capture)

Streams == INSTANCE DuplexStreams
             WITH state <- StreamState, moving <- Moving, MayFail <- Faults # {}

ImplementsStreams == Streams!Spec

-----------------------------------------------------------------------------
(* What the documents say and the code does not keep *)

(* "Both directions must use the same buffer geometry", "rejects mismatched *)
(* duplex geometry".                                                        *)
DuplexGeometriesMatch ==
  LET setUp == {d \in Dirs : alsa[d] \in {"setup", "prepared", "running"}}
  IN  Idle => \A d, e \in setUp : runtime[d] = runtime[e]
=============================================================================
