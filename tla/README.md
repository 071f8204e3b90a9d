# A TLA+ model of the Quantum 2626 driver

`src/driver/snd-quantum2626.c` is an ALSA driver for the PreSonus Quantum 2626. The device has one
DMA engine that always runs playback and capture together; ALSA has two substreams that its clients
open, configure, start and stop independently. Most of what can go wrong in the driver comes from
this mismatch, and these modules are about it first. Around it they have the mailbox, the sample
rate, the page tables, probe and removal, and the Ghidra scripts under `scripts/ghidra` from whose
reports the driver's registers were taken.

## Parts of the system

| Part | State it keeps | Operations | Status |
| --- | --- | --- | --- |
| Duplex engine | `audio_params`, the `*_params_substream` pointers, tables, `audio_buffer_bytes`, `audio_rate` under `audio_mutex`; `audio_prepared`, `audio_running`, `audio_engine_running`, `irq_mask`, the substream pointers under `audio_lock` | `quantum_pcm_open/close/hw_params/hw_free/prepare/trigger`, `quantum_audio_stop`, snapshot and restore, `snd_quantum_interrupt` | modelled: `DuplexEngine` |
| What it promises | state of two streams, what moves | start, stop and the rest, per stream | modelled: `DuplexStreams` |
| TCI command mailbox | slots, ring positions in device registers, `tci_next_transaction_id`, `tci_started`; `tci_lock` | start, stop, drain, request/response | modelled: `TciMailbox` |
| Sample-rate control | `clock_source`, `audio_rate`, `audio_channels` | `set_sample_rate`, `get_sample_rate`, `probe_control`, the check in `open` | modelled: `RateControl` in `Lifecycle`; one step of `DuplexEngine` |
| DMA page tables | table memory | `quantum_dma_table_build`, pointer arithmetic | `DmaTable` in `Lifecycle`; `quantum_pcm_pointer` is not modelled |
| Capabilities and rules | none | channel and rate rules, the head of `hw_params` | rates and channels: `PcmRules` |
| Lifecycle | what is acquired | probe, create, free, remove | modelled: `Lifecycle` |
| Register analysis scripts | tables of accesses, report files | eleven scripts that scan a listing | modelled: `GhidraScripts` |
| Other scripts, debug parameters, UCM/WirePlumber files, build files | none of the driver's | reports, straight-line I/O, declarative data | not modelled |

How they interact: the ALSA core calls the PCM callbacks, per substream one at a time (the PCM
stream and open mutexes), the two substreams in parallel. `trigger` runs under the stream lock and
takes only `audio_lock`; it may come from a client, or from the interrupt handler when
`snd_pcm_period_elapsed` finds an underrun. `hw_params`, `hw_free` and `prepare` sleep and take
`audio_mutex`. `hw_params` calls sample-rate control, which talks to the device through the TCI
mailbox. The handler takes `audio_lock` to copy the pointers of the running substreams, and calls
the core without it. The device reads and writes memory through the tables while it is in RUN, or
still stopping, and may master the bus.

What is hard here: the decision of one thread used after it dropped `audio_lock` (the last stop, the
snapshot); the pause in which a running engine is stopped, its tables rebuilt and the snapshot
restored, with the other direction's trigger free to run; failures in the middle of that pause; an
engine that does not stop; the runtime of a substream, which the core fills after the callback;
client buffers, which the core frees around the callbacks. `PROJECT.json` lists every hazard at its
line with the properties that cover it. What makes the parts correct:

- engine: bits, pointers and engine agree; tables live as long as the device may use them; a started
  stream is served until its stop and no longer; both directions share geometry and rate; every
  callback returns;
- mailbox: a response is taken by the request it answers, the positions stay inside the rings, slots
  outlive the DMA;
- rate: after a change that did not fail, driver, device and channel register agree, and the rate
  never moves under tables;
- rules: whatever a client asks for, it ends with a row of the profile table or is refused;
- page tables: every page of the buffer appears once, in order, and no chain leaves the tables;
- lifecycle: everything acquired is released once, after the last user;
- scripts: a search misses nothing, a report covers what was scanned, what is pasted into the driver
  is what the traced function writes.

## The modules

`DuplexEngine.tla` is the driver's engine with the ALSA core and the device around it.

A callback in progress in direction `d` has a program counter `pc[d]`, the operation `op[d]`, and
the locals of `hw_params` and `hw_free`: `running[d]` and `running_substream[d]` (the snapshot),
`failed` (its result so far), `req[d]` (the requested geometry). One action is what a thread does
between two points at which another thread or the device can see a difference:

| Label | Code (line of `snd-quantum2626.c`) | Action |
| --- | --- | --- |
| `enter` | trigger under `audio_lock` (1404-1428, 1441-1451) | `StartEnter`, `StopEnter` |
| `lock` | `mutex_lock` and everything decided from it (1255-1274, 1324-1335, 1371-1381) | `LockHwParams`, `LockHwFree`, `LockPrepare` |
| `mask` | `quantum_audio_stop`, first locked region (871-877) | `Mask` |
| `halt`, `poll` | write 0 to `AUDIO_CONTROL`, wait for the engine (879-885) | `Halt`, `Poll` |
| `retire`, `unmaster` | second locked region; `pci_clear_master` after a timeout (887-903) | `Retire`, `Unmaster` |
| `sync` | `synchronize_irq` (1277, 1336) | `Sync` |
| `switch` | free the resources, change the rate (1280-1286) | `Switch` |
| `build`, `detach` | register or forget the stream and rebuild (1288-1298, 1338-1350) | `Build`, `Detach` |
| `program`, `fetch` | `quantum_audio_program_resources` (929-976) | `Program`, `Fetch` |
| `restore` | `quantum_audio_restore_running` (1000-1015) | `Restore` |
| `unmask`, `run` | acknowledge and unmask, write RUN (1017-1024, 1429-1437) | `Unmask`, `Run` |
| `unlock` | `mutex_unlock` | `Unlock` |
| `return` | the core takes the result | `Return...` |
| none | the handler: its locked region (1519-1549), `snd_pcm_period_elapsed` (1550-1556) | `IrqPick`, `IrqReport`, `IrqUnderrun` |

The two directions are sets: `audio_running` is the set of directions whose bit is set, `substream`
the set whose pointer is not NULL, `audio_params` the directions with a bit and a
`params_substream` (set and cleared together). `tables` is `None` or the set of directions whose
client buffer the tables reference; the other direction has the silence or sink area.

The device: `hw_run` (RUN was the last write to `AUDIO_CONTROL`), `hw_table` (the table registers
hold the current tables), `hw_busy` (`AUDIO_STOP_STATUS` not yet zero), `hw_irq`, `master`. The
handler: `irq_held`, the substreams it has picked and not yet reported to, playback first. Its report
takes the stream lock, so it waits for a trigger that holds it (`StreamLocked`), and it may find an
underrun and run the stop itself (`IrqUnderrun`): the handler then cannot finish before that stop has
returned. The core: `alsa`,
`runtime`, `dma_bytes`, `stop_operating`, and `stale`, the directions whose buffer the core has
released although the tables reference it. These are not in the repository. They are modelled from
how the driver uses them: managed buffers are allocated before `hw_params` and released after
`hw_free`, a failed `hw_params` is followed by `hw_free`, a failed start by a stop, parameters and
preparation wait for a stop to be synchronised (`card->sync_irq`), and the runtime gets the
geometry when `hw_params` has succeeded. A geometry is a rate (which determines the channels) and a
buffer size in bytes.

`DuplexStreams.tla` is the abstract specification: two streams with an ALSA state each and the set
of those that move. A start makes a stream move, a stop ends it, nothing else does, except that
faults, if there may be any, may cut off everything at once. `DuplexEngine` maps to it by
`StreamState` and `Moving`: a trigger counts when its locked region has run, and a stream paused for
a rebuild still counts as moving (`Paused`), until the rebuild fails.

`TciMailbox.tla` is the command mailbox with the device on the other side, from load to unload. The
host is one process: requests come from probe and from `hw_params` under `audio_mutex`, so
`tci_lock` is never waited for. It is a module of its own because the engine sees of it only whether
a rate change succeeded.

| Label | Code | Action |
| --- | --- | --- |
| `unloaded` | `pci_set_master` (1609) | `Load` |
| `start`, `unwind` | `quantum_tci_start` and its failure (275-329) | `Start`, `StartFails`, `Unwind` |
| `drain` | `quantum_tci_drain_stale_rx` (331-392) | `Drain`, `DrainEnds` |
| `idle` | a caller of `quantum_tci_control_xfer`, or the end | `Request`, `Unload` |
| `send` | wait for a slot, write it, advance (413-448) | `Send`, `TimesOut` |
| `receive` | wait for a message, take or skip it (450-531) | `Take`, `Skip`, `TimesOut` |
| `stop`, `poll`, `cut off` | `quantum_tci_stop` (254-270) | `Stop`, `Poll`, `CutOff` |
| `clear`, `free`, `release` | registers, slots, and the rest of `snd_quantum_free` | `ClearRegisters`, `FreeSlots`, `Release` |

A message has its id, the code of its request, its kind (a response that fits, one that is
malformed, one with an unexpected code or length) and a mark the driver does not see: who waits for
it. The mark changes when a request returns without its answer and when the driver is loaded again.
`skipped` is the counter of the loop in progress and is zero outside. The device takes requests in
order (`accepted` counts them), answers in order or never, sends events, and keeps what it has
accepted across a stop and a start, as `notes/TCI_PROTOCOL.md` observed; it may stay active after a
stop. Positions are taken modulo the number of slots on both sides, as the protocol notes say.

`Lifecycle.tla` is the driver from load to load: `snd_quantum_probe` and `snd_quantum_create` with
a failure at every step and the unwinding of each, `snd_quantum_remove`, the wait for the last
client, `snd_quantum_free`, against one client that opens, sets parameters, plays and closes, an
interrupt handler that can be entered whenever it is on the line (which may be shared), and a device
whose engines may ignore a stop. `pc` is the step of the PCI core's call; `held` counts for each
resource acquisitions less releases, so that a double release is a type error. A DMA engine that
ignored its stop is `stuck`, and `previous` when the next load finds it so. The mailbox and the
engine are one step each: `TciMailbox` and `DuplexEngine` have theirs. It is composed of three
modules, because the values they produce are used by its steps:

- `DmaTable.tla`: the page tables as functions. `Table` is what `quantum_dma_table_build` writes
  (815-861), one `Fill` for each round of its loop over the segments; `Walk` is a device that takes
  up to `per` entries from a segment and follows the link after them.
- `PcmRules.tla`: the table of rate profiles, the two lists and two rules of `quantum_pcm_open`, the
  refinement the ALSA core repeats over them, and its choice of fewest channels and then lowest rate.
- `RateControl.tla`: `audio_rate`, and the change in `hw_params` step by step. `setting` is the step:
  `clock` (the external clock must agree, 623-634), `set` (636-651), `verify` (653-662), `wait` (the
  channel register, 664-683), and `build`, where the tables are built. The device may refuse, change
  without an answer, or change after the driver has given up (`late`, bounded by `MaxLate`), and its
  channel register (`shown`) follows its rate later. `unsure` is a history variable: a change has
  failed since the last that did not. Answers come in the order of the requests, as in `TciMailbox`,
  so a request that is answered proves that nothing is outstanding. The device is assumed to change
  its rate only when it was asked to.

The Ghidra scripts are three modules:

- `GhidraListing.tla`: an instruction (mnemonic, whether its memory operand has a displacement and
  which, an immediate, its function, how it is printed) and what the scripts' regular expressions
  and accessors see in it. Numbers have eight hexadecimal digits and are not spelled out: a pattern is
  modelled by which displacements it accepts and what number it makes of them; `InBase10` is the
  number a script makes of digits that could be decimal.
- `RegisterScans.tla`: for each of the eleven scripts, the set of what a pass enters for one
  instruction.
- `GhidraScripts.tla`: scripts run one after the other over a listing. A script makes passes
  (`Passes`), each over its targets, delivers instructions (`Deliver`), may raise an exception that
  its handler prints (`Catch`) or that ends it (`Abort`), and writes a report (`Report`) that replaces
  what was in the file. Its tables are `log`, a set of entries with the number of their instruction:
  a list of a table is the entries with its key in the order of these numbers. `api` says whether Ghidra has the accessors that a script supposes: the
  reports in `notes/analysis` were made with one that lacks some of them.

`MCDuplexEngine.tla` and `MCGhidraScripts.tla` have the values of the constants for TLC.
`DuplexEngineSafety`, `DuplexEngineStreams`, `TciMailboxProofs`, `DmaTableProofs`, `LifecycleProofs` and `GhidraScriptsProofs` hold the proofs, `DuplexStreams` its
own theorem, and `SetInduction` the two facts about sets of naturals that stand in for induction.

## Environments

Not every property holds in every environment, and the constants say in which it is claimed.
`Overlapping` is the set of operations that may begin while a callback of the other direction is in
progress: `{}` is a client that configures and triggers both directions from one thread, `{"stop"}`
adds underruns and drops at any moment, `Ops` is no restriction. (`DuplexInterleavings` has all but
`"prepare"`, so that its liveness check stays small: a prepare begins while the other direction is
idle, but the other may begin anything before the prepare has the mutex. The safety properties of that
run are proved with `Ops`.) The handler and the device are
concurrent with everything in every environment. `Faults` says what may
fail: a stop, a fetch of the tables, the driver's allocation of tables (`"nomem"`), the core's of a
client buffer (`"nobuf"`), a rate change. `ParamStates` are the
states in which parameters are set; with `"setup"` and `"prepared"` clients also change parameters
without freeing them first.

## The runs

| Run | Environment | What it shows |
| --- | --- | --- |
| `DuplexInterleavings` | everything overlaps, one geometry, fair | `TypeOK`; the handler finds a pointer for exactly the running directions (`Bookkeeping`); no engine runs for nobody unless it is being retired (`NoOrphanEngine`); a prepared direction has fetched tables (`PreparedMeansProgrammed`); every callback returns (`CallbacksReturn`): mutex, `synchronize_irq`, the handler, the stream locks it takes, the stops it runs and the engine do not wait for each other in a circle |
| `DuplexFaults` | serial, all faults, three geometries | flags, mask and RUN agree between callbacks; DMA only through live tables; no period reported during a rebuild; a stopped stream rests; the rate changes at rest; the engine implements `DuplexStreams` with `MayFail` |
| `DuplexParameters` | serial, faults except a stop timeout, parameters once per open | the remembered parameters are those of the live streams; both directions agree with the device; DMA only in buffers the core has not released |
| `DuplexHealthy` | serial, no fault, fair | every started stream is served, gets its interrupts for ever, and the engine implements `DuplexStreams` where nothing is cut off |
| `TciMailbox` | three slots, ids modulo four, one accepted request, fair | ring contents agree with the ids on both sides (`RequestsKept`); no request returns with the answer to a request given up before (`OwnAnswer`); slots outlive DMA (`SlotsOutliveDma`); start, requests and stop end whatever the device does (`OperationsEnd`) |
| `Lifecycle` | two card slots, three rates, failures everywhere, fair | no resource is kept or released twice (`TypeOK`, `NothingLeaks`); the handler finds what it uses (`HandlerFindsAll`); memory outlives DMA (`MemoryOutlivesDma`); a device that follows a table meets every page once, in order, and then the end (`TablesReachBuffer`); driver, device and channel register agree on the rate after a change that did not fail (`RateIsKnown`), which does not move under tables (`RateMovesWithoutTables`); lists and rules admit exactly the rows of the table (`RulesMatchProfiles`); probe and removal end (`CallsEnd`) |
| `GhidraScripts` | eleven scripts, short listings, both answers of `api` | searches with a fresh iterator for each offset find every access to it (`SearchedOffsetsFound`); an interrupted scan reports what it scanned (`PartialScanIsPrefix`); values only from stores (`ValuesComeFromStores`); the summary for the driver is the traced writes with repeats removed, and what that keeps of them (`ReplayFaithful`) |
| `FindLostStart` | stops overlap | `StartedStreamsRun` fails |
| `FindGeometryRace` | `hw_params` overlaps | `DuplexGeometriesMatch` fails |
| `FindRateRace` | stops overlap, three geometries | `RateChangesAtRest` fails |
| `FindNotResumed` | serial, the driver's allocations may fail | `StartedStreamsRun` fails |
| `FindLostReturn` | `trace_stream_start_writes.py`, three instructions | `LastWritesKept` fails |

Bounds. Two directions are all the system has, so the only bound is the set of geometries. One is
enough where a mismatch cannot matter (the safety of the interleavings does not read it). Three
cover equal parameters, a different rate and a different buffer size, and so both branches of every
comparison. The model has no counters to cap: runs explore the complete state graph, from 35
thousand to more than 400 thousand states. For
the mailbox, three slots let the ring wrap with one or two requests in it, and four ids are the
fewest with which `OwnAnswer` holds: at most `Slots - 1` requests in the ring and `MaxPending`
accepted ones were given up before the current one, which `TidAssumption` states and the code's
65536 ids satisfy by far. With one id less TLC finds a request that takes the answer to one given up
three requests before. Symmetry is not used: the directions differ in the order in which
the handler reports to them.

For `Lifecycle`, a page of a table has four entries, a buffer is one page, four pages or six, and a
segment takes two or three addresses (or an unusable number, 0 or 4, which is refused): one segment,
several with a full last one and several with a partial one occur. Two card slots
allow a second load, which finds the engines and the rate that the first has left. 44100 and 48000
have one channel count, 96000 another, so that a wrong rate is seen in the channel register or not.
`MaxLate` is two. `RulesMatchProfiles` is about every pair of intervals whose ends are in the lists
or next to a value of them (7695 pairs, all six rates), whatever `Rates` is; `MaxPasses` bounds the
repetition of the rules and the check shows that it is enough. For `GhidraScripts`, listings have up
to two of fourteen shapes of instructions taken from the reports under `notes/analysis`, or three of
the traced control function, printed in one of two ways; sessions are each script alone and the pairs
that share a file; five offsets stand for the known ones, among them 16, which is 10 in decimal
digits; and `Word` is 2^20 in place of 2^32, so that -1 and its unsigned form are within TLC's
integers.

What the failing runs show, each against a statement of the documentation quoted in `PROJECT.json`:

- *Lost start.* Playback's stop finds that nothing runs any more and leaves `audio_lock`. Capture
  starts: `audio_engine_running` is still set, so it only sets its bit and returns 0. The stop goes
  on, halts the engine and clears all bits and pointers. ALSA runs capture; no interrupt comes.
- *Geometry race.* `hw_params` of playback succeeds and unlocks; before the core has filled
  playback's runtime, `hw_params` of capture compares with the zeros or the older values there.
- *Rate race.* A stop during the rebuild of the other direction is undone by the restore, and
  with further calls the engine moves while the flags say it is retired (RUN was written after them,
  or cleared without a wait for the engine); a rate change then finds no running direction and reaches
  the device while it moves data. The same race restarts a
  stopped stream. It also lets tables be freed under a moving engine: when the last stop
  has cleared its bit but not yet halted the engine, `hw_params` of the other direction sees nothing
  running and rebuilds.
- *Not resumed.* `hw_params` of the second direction stops the first, fails to allocate its tables
  (1294), and unlocks without restoring the first. The core's own buffer is there: a failure of that
  allocation is a fault of its own (`"nobuf"`) and absent from this run. `hw_free` does the same when it
  cannot build for the remaining direction (1350).
- *Lost return.* `trace_stream_start_writes.py` promises one line per write, to be pasted into the
  driver (7-8), and leaves out a line that has occurred before (162): a register that gets a value,
  another one and the first again ends with the other one. Without such a return, `ReplayFaithful`
  says, summary and detail end with the same line for every register.

Further observations that no document contradicts: setting parameters of one direction takes back
the preparation of the other, whose start then fails with -EIO (1292, 1408); after a stop timeout a
prepared direction can still be started on a device that may not master the bus (901, 1408), and
`hw_free` keeps the registration of the substream it gives up on (1333); the -EBUSY for a rate
change while streaming (1269) is reached only when callbacks overlap, because the comparison with
the other direction's runtime (1258) refuses it first.

The mailbox has three such observations. A request can return with an answer of the *previous load*:
ids start at zero again (319), the device may keep an answer it has not delivered, a passive drain
does not make it deliver it, and the first request after the load may have its id and code. An
answer may be next in line when a request gives up after a ring of unrelated messages (482). And
when a device has ignored the stop of one load, the next load gives it the bus again (1609) before
it has slots; if then an allocation fails, the slots allocated so far are freed (325-328) before the
bus is taken away (1704). `SlotsOutliveDma` excludes this last path (`start`, `unwind`) explicitly.

Three more are about the rate. After a change that failed somewhere between the request and the last
look at the channel register, the device may have another rate than the driver remembers (621). If
its channel count differs, every open fails with -ENODEV until the module is loaded again (1141). If
it is the same, as for 44100 and 48000 Hz, a client that asks for the remembered rate skips the
setter and plays at the wrong one. And a change that was given up can reach the device while a
stream plays, where a comment (1281) wants no live DMA resources during a switch;
`RateMovesWithoutTables` says that this takes a change that failed. The counter of probes (1717,
1762) is never given back: after as many loads as card slots no device binds.

And of the scripts. `trace_mmio_usage.py` shares one iterator among its offsets (137, 147) although
its docstring announces a search across the entire binary (125): only the first is ever found.
`find_all_registers.py` and its enhanced form read hexadecimal digits as decimal when none is a letter
(112): an access to 0x100 is filed under 100, where their comment calls 0x100 and 256 the same offset
(101), and 0x10 and 0x0a meet under one key. The enhanced script wants the sign directly before 0x (95
there); Ghidra prints spaces around it, and the report in `notes/analysis` has no offset at all. These
three are the same on every listing that has such an access, so no run is spent on them. The count of `mmio_registers.json` is that of the instruction that raised an
exception. Nothing keeps frame slots out of the scripts' tables but the sign and alignment of their
displacement: `[RSP+0x20]` passes for a register. The last line that the summary and the detail have
for a register may be "?", or a value that is ORed or added, so neither is the value the function
leaves. `notes/analysis` agrees with the model: it has `Sample rate usages found: 0`, frame
displacements among the registers of `all_registers.txt`, and the fallback tables in
`mmio_registers.json`.

Fairness. `WF` on the steps of a callback: the scheduler runs every thread. `SF` on taking the mutex
and on `synchronize_irq`: mutex waiters are queued, so one is not passed over for ever, and the
handler is not always in progress. `SF` on `Poll`: the loop is bounded by a hundred reads. `SF` on
the handler's reports: the stream lock they need is a queued spinlock, so triggers that follow each
other do not keep the handler out; with `WF` TLC finds a client whose starts and stops do. `WF` on the delivery of an
interrupt *while it is not masked* (`irq_mask /\ IrqPick`): the line may be shared, so the handler can
also come at other times, but only the mask entitles the driver to it, and without the unmasking of
1018-1021 and 1432-1434 `PeriodsElapse` fails. `WF` on the device's steps: it halts and it interrupts while it runs; the fair runs have no faults. Clients are never
obliged to call anything. In the mailbox only the driver's thread is fair (`WF` on `Driver`): every
wait of it has a deadline or a bound, so nothing is assumed of the device.

In `Lifecycle` the PCI core's call, the handler and `hw_params` are weakly fair: each wait of theirs
is bounded. `SF` on the close of a client that was cut off: it closes, and `synchronize_irq` in
`hw_free` sees a line that is quiet again and again, though others share it. Nothing is assumed of
the device, of opening or of parameters.

Deadlock is checked in every run but two: `Lifecycle` stops when the slots for cards are used up,
`GhidraScripts` when the last script of the session has reported.

## What is proved

For every set of geometries, every environment and every set of faults unless a hypothesis says
otherwise. The assumptions are those of `DuplexEngine`: two different directions, `None` different
from a direction and from a set of them, positive rates and buffer sizes, and environments built
from the listed operations and faults.

- `Typing` (`DuplexEngineSafety`): `Spec => []TypeOK`. `TypeOK` is inductive: it says for every
  operation at which labels it can be, which is what the control part needs, and the data part
  needs only the ranges.
- `EngineSafety`, `NoEngineOrphaned` (`DuplexEngineSafety`): `Bookkeeping` and `NoOrphanEngine`. They are not inductive:
  `Restore` writes back a snapshot, so `EngineInv` adds `RestoreComplete`, that bits and
  pointers of a snapshot are equal and that one about to be restored is not empty.
- `MutualExclusion`: from `MutexHeld`, that `audio_mutex` is held by the callback in its critical
  section.
- `PreparedSafety`: `PreparedMeansProgrammed`. `Fetch` makes directions prepared on the strength of
  what `Program` did, so `TablesInv` adds `TablesBuilt`: tables are those of the registered
  directions, they exist at `program`, and are in the registers at `fetch`. That nobody else rebuilds
  in between is `MutexHeld`; that a rebuild takes everything back is in `FreeResources`.
- `DmaSafety`, `RateSafety` (`DuplexEngineSafety`): `DmaThroughLiveTables` and `RateChangesAtRest`
  with the hypothesis `Overlapping = {}`, under all faults. `DmaInv` adds who owns a moving
  device: a running engine, or a callback about to take the bus away; that the engine is retired at
  every label from `sync` to `restore`; and that RUN is written with tables in the registers.
  The hypothesis cannot be dropped: `FindRateRace` is a counterexample to the second without it.
- `FlagsAgree`, `StoppedRest`, `RebuildsAreQuiet` (`DuplexEngineSafety`): `FlagsMatchDevice`,
  `StoppedStreamsRest` and `QuietRebuild`, also for callbacks that do not overlap and under all faults. The
  second therefore says nothing of a stop in the pause of a rebuild, which is an overlap: that one is
  undone, as *Rate race* above shows.
  `FlagsInv` says at which steps of a stop or a start flag, mask and RUN differ; `StreamsInv` that what
  runs is streaming or being started and that a snapshot is of streaming directions; `QuietInv` that
  the handler has nothing to report from `synchronize_irq` on, which holds because `DmaInv` has the
  engine retired there and the handler picks nothing from a retired engine.
- `EngineImplementsStreams` (`DuplexEngineStreams`): the refinement `ImplementsStreams` for callbacks
  that do not overlap, for every set
  of geometries and of faults, the empty one included, where the abstract streams allow no cut-off.
  `CallsInv` says what a callback in progress knows of its substream, `StopsInv` that a stop for a
  rebuild retires exactly what the snapshot has and that a rate is not changed for one,
  `RegisteredInv` that a streaming direction is registered, so a rebuild for it has tables to program
  and it is among the prepared ones at the restore, `HealthyInv` that only a fault makes a stop time
  out or takes the bus. Then each action is an abstract action, `CutOff`, or a stutter.
- `StreamsMoveAsAsked` (`DuplexStreams`): in the abstract specification only what was started
  and not stopped moves, and all of it does unless faults are allowed. `StartedRun` carries it through
  the refinement: when callbacks do not overlap and nothing fails, `StartedStreamsRun`.
- `ParamsMatch`, `GeometriesAgree`, `BuffersOutliveDma` (`DuplexEngineStreams`): `ParamsMatchStreams`,
  `GeometryAgreement` and `DmaInLiveBuffers` when stops do not time out; the last also needs parameters
  to be set in the open state only. `ForgottenInv` is that a stream without parameters is not
  registered, `AgreementInv` that a callback that goes on after the comparison agrees with the other
  stream until it has rebuilt the tables, `BuffersInv` that a registered stream has a buffer. Without
  the first hypothesis `hw_free` gives up and the stream stays registered.

- `MemorySafety` (`TciMailboxProofs`): `SlotsOutliveDma`, for every ring size. The inductive
  invariant says at which labels slots and addresses exist and the device may be enabled.
- `NoRequestLost`, `MailboxTyping`: `RequestsKept` and the type invariant, which need each other (what
  the device takes is a request only because the ring is kept, and the ring arithmetic needs the
  ranges). Lemmas about positions on a ring (`HostAdvances`, `DeviceAdvances`) carry the modulo. The
  assumptions are one to sixteen slots and an id space of at least `Slots + MaxPending`.
- `NoLateAnswer` (`TciMailboxProofs`): `OwnAnswer`. The code compares transaction ids, which wrap, so
  the argument is about their ages: the age of an id is the number of requests sent since it was given
  out. Requests keep their order on the way through request ring, device and response ring, so ages
  strictly decrease along it, and of what is under way only the current request has age 1 (`AgesInv`).
  Answers of an earlier load have ids that mean nothing but take up places like the others; `Ranked`
  gives every answer in the response ring a rank, its age if it is of this load, which decreases along
  the ring and is bounded by what the rings and the device hold. That no age reaches `TidSpace`, so
  that a wrapped id never looks current, is where the assumption on `TidSpace` is used; ids have 16
  bits and a ring sixteen slots.

- `RateAlwaysKnown` and `RateMovesAlone` (`LifecycleProofs`): `RateIsKnown` and
  `RateMovesWithoutTables`, for every set of rates of the list and any number of outstanding changes.
  `RateIsKnown` says nothing of the middle of a change; `Agreement` adds that the old agreement lasts
  until the device is asked, that nothing is outstanding once it has answered, and that the device
  has the requested rate while the channel register is waited for. `ClientPlace` places
  `hw_params` between probe and the last close, so that the reading of the rate cannot interrupt it.
- `LifecycleTyping`, `NothingEverLeaks`, `MemoryAlwaysOutlives`, `HandlerAlwaysFinds`
  (`LifecycleProofs`): the four safety properties of probe and removal, for every number of cards,
  buffer sizes and segment sizes. `HeldInv` says for each resource at which steps it is held,
  `FlagsInv` which flags are set there (`private_free` separates the two ways into `release`),
  `BusInv` that an engine that ignored its stop has no bus before the next load, `UseInv` that the
  handler keeps the interrupt and the client the PCM.
- `TablesReach` (`DmaTableProofs`): for every entry count of a page, every buffer size and every
  segment length that the builder accepts, a device that follows the table meets the pages of the
  buffer once, in order, and then the end. The recursive functions `Table` and `Walk` are determined by
  their equations: `TableIs` and `WalkIs` show that a closed form satisfies them and, by the least
  number at which two solutions could differ, that nothing else does. `SegmentCount` is the arithmetic of
  the two roundings up, on which it depends that the last segment is neither empty nor overfull and that
  only it has no link. `Inductive` (`SetInduction`: a set that has 0 and with each number the next has
  every number) stands in for the library's induction theorems, which take an operator.
- `TablesAlwaysReach` (`LifecycleProofs`): `TablesReachBuffer`. `TablesInv` is that tables which exist were
  built for a buffer with segment lengths the builder accepted; it uses `SizesAssumption` of `Lifecycle`,
  that buffers are not empty and that the device reports natural numbers.
- `RulesFollowRows`, `RulesAlwaysMatch` (`LifecycleProofs`): `RulesFollow` for every pair of intervals of
  integers, also empty ones and ones whose ends are nowhere near the lists, of which `RulesMatchProfiles`
  takes the 7695 that `Configs` has. `PassSettles` is the argument: one pass over lists and rules keeps the
  rows of the table that fit and leaves one at each of its four ends (`ChannelsLeft` for the counts, then
  `RatesLeft` for the rates), or leaves nothing where no row fits. What is settled stays settled
  (`SettlesAgain`), so the four passes of `Refined` give what the first one gave, and the choice of the
  fewest channels and then the lowest rate names a row.
- `ScriptsTyping`, `ValuesAreStored` (`GhidraScriptsProofs`): `TypeOK` and `ValuesComeFromStores` for
  every listing, session and list of offsets. The first is inductive. `Sources` says that an entry of
  the running script is an access that one of its passes finds in the instruction it refers to.
- `SearchesMissNothing`, `ReportCoversPrefix`: `SearchedOffsetsFound` and `PartialScanIsPrefix`. They
  are about reports, so the invariant is about the passes before: `Complete` says that whatever a
  search finds in an instruction it has been given for a target is in the tables, and `Progress` how
  the scripts get through their passes (the first pass of `find_mmio_registers.py` raises at once; the
  simplified script stops where it raises). A report then holds exactly what was found, and no other
  step writes a file.
- `ReplayAlwaysFaithful`: `ReplayFaithful`, for lists of any length. `FoldLeft` is a recursive function on sets of
  positions that `CHOOSE` picks; `FoldExists` shows that there is one and `FoldByLine` that the fold adds
  one line after the other. `Deduped` is the invariant of that loop: the list has the lines so far,
  each once, by first occurrence (`DedupStep`). What replaying such a list leaves in a register
  follows from `Deduped` alone (`DedupedReplays`). `StreamFinite` is that the table is finite, so that its
  entries are a list.

Only model-checked: `CallbacksReturn`, `PeriodsElapse`, `OperationsEnd` and `CallsEnd`. They are liveness
properties under fairness, which need ENABLED and are out of this prover's reach.

## What is abstracted

Sample data, positions and the interrupt statistics; logging; register addresses; the silence and
sink memory, which exists exactly as long as the tables do; the parameter checks at the head of
`hw_params` for format and period size, which have one value; suspend, which the driver treats as a
stop. The handler's acknowledgement and its locked region are
one step. `Unmask` joins the acknowledgement and the locked mask update. `Build` and `Detach` free
and rebuild in one step: they run under `audio_mutex` and only the prepared bits, which both clear,
are visible without it. In the mailbox, time is a choice (a deadline may pass whenever its
condition is checked), and an invalid `TCI_CONFIG` or a request that does not fit a slot is left
out: both return before anything is written.

In `Lifecycle` the engine, the mailbox and the handler's reports are one step each, there is one
client, and the interrupt counts as taken off the line in one step, after which the handler may
still be running. In the scripts, progress output, layout and examples are left out.

## Not modelled

- `quantum_pcm_pointer` (1457-1463): the hardware position wraps at 2^20 frames and is reduced modulo
  the buffer size; what the device reports when that does not divide 2^20 is not documented.
- Period and buffer sizes, format and periods of `quantum_pcm_hw`: single values or constraints of
  the library.
- `find_format_registers.py`, which is not valid Python (an unexpected indent at line 274) and never
  runs; `find_buffer_registers.py` and `find_interrupt_registers.py`, whose calls collect nothing and
  whose reports in the repository are empty; `find_missing_registers.py` and
  `find_format_sample_rate.py`, which rest on calls whose two outcomes `GhidraScripts` has for other
  scripts, and print listings for a reader; `find_mmio_base` of `find_mmio_registers.py` (45-99),
  which only prints; `test_script.py`.
- The debug parameters, UCM and WirePlumber files, test and capture scripts, build files: declarative
  data and straight-line calls of other programs, with no state of their own.

## Plan

1. `RateControl` under two directions: `DuplexEngine` has the change as one step, `Lifecycle` has one
   client; together they would cover a stop of the other direction during a change that fails.
2. `quantum_pcm_pointer`, when the device's counting past the buffer is known.
