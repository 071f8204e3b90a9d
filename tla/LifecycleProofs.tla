--------------------------- MODULE LifecycleProofs ---------------------------
(* Proofs about Lifecycle for every set of rates, number of outstanding    *)
(* changes, card count, buffer size and segment size: when the driver may  *)
(* rely on the rate it remembers, that the device does not change its rate *)
(* under tables, that nothing leaks or is released twice, that memory      *)
(* outlives the DMA, that the handler finds what it uses, that the tables  *)
(* lead a device through the buffer, and, for every request of a client,   *)
(* that the parameter rules leave it the rows of the table that fit.       *)
EXTENDS Lifecycle, DmaTableProofs, TLAPS

(* Where a client can be: hw_params and tables belong to a client that has *)
(* the card open, which it has only between probe and the last close, and  *)
(* a rate was read before.                                                 *)
ClientPlace ==
  /\ setting # "idle" => client = "open"
  /\ tables # NoTables => client = "open"
  /\ client = "open" => pc \in {"bound", "disconnected"}
  /\ registered => pc = "bound"

RatesTyped ==
  /\ device_rate \in Rates /\ late \in Seq(Rates)
  /\ {audio_rate, asked} \subseteq Rates \cup {NoRate}
  /\ setting # "idle" => asked \in Rates
  /\ pc \in {"vectors", "irq", "pcm", "register", "bound", "disconnected"} => audio_rate \in Rates

(* The driver's rate is the device's until it asks for another, and again  *)
(* once the device has shown the channels of the rate it was asked for.    *)
Agreement ==
  /\ audio_rate # NoRate /\ setting \in {"idle", "build", "clock", "set"} /\ ~unsure =>
       device_rate = audio_rate /\ shown = Channels(audio_rate) /\ late = <<>>
  /\ setting = "build" => asked = audio_rate
  /\ setting \in {"verify", "wait"} => late = <<>>
  /\ setting = "wait" => device_rate = asked
  /\ setting \notin {"idle", "build"} => tables = NoTables

RateInv == ClientPlace /\ RatesTyped /\ Agreement

LEMMA NoRateIsNone == NoRate \notin Rates
  BY RatesAssumption DEF NoRate, quantum_rates

---------------------------------------------------------------------------
(* What leaves the rates and the client alone keeps the invariant, if it   *)
(* moves the PCI core's call no further than to a step behind the reading  *)
(* of the rate.                                                            *)
RateRead == {"vectors", "irq", "pcm", "register", "bound", "disconnected"}
LEMMA QuietStep ==
  ASSUME RateInv, UNCHANGED <<rates, client>>,
         tables' \in {tables, NoTables},
         registered' => pc' = "bound",
         pc' \in RateRead => pc \in RateRead,
         client = "open" => pc' \in {"bound", "disconnected"}
  PROVE  RateInv'
  BY DEF RateInv, ClientPlace, RatesTyped, Agreement, RateRead, rates, driver_rate, device_side

(* The steps of snd_quantum_create but the reading of the rate. *)
LEMMA CreateStep ==
  ASSUME RateInv, Create, ~ProbeControl
  PROVE  RateInv'
<1> USE DEF RateInv, ClientPlace, RateRead, user, To
<1>1. CASE EnableDevice   BY <1>1, QuietStep DEF EnableDevice
<1>2. CASE SetMask        BY <1>2, QuietStep DEF SetMask
<1>3. CASE RequestRegions BY <1>3, QuietStep DEF RequestRegions
<1>4. CASE Map            BY <1>4, QuietStep DEF Map
<1>5. CASE StartMailbox   BY <1>5, QuietStep DEF StartMailbox
<1>6. CASE AllocVectors   BY <1>6, QuietStep DEF AllocVectors
<1>7. CASE RequestIrq     BY <1>7, QuietStep DEF RequestIrq
<1>8. CASE NewPcm         BY <1>8, QuietStep DEF NewPcm
<1>9. CASE Register       BY <1>9, QuietStep DEF Register
<1> QED  BY <1>1, <1>2, <1>3, <1>4, <1>5, <1>6, <1>7, <1>8, <1>9 DEF Create

(* snd_quantum_remove, the unwinding of a failed probe and the last        *)
(* release.                                                                *)
LEMMA FreeStep ==
  ASSUME RateInv, Free \/ Remove
  PROVE  RateInv'
<1> USE DEF RateInv, ClientPlace, RateRead, user, To
<1>1. CASE FailTci      BY <1>1, QuietStep DEF FailTci
<1>2. CASE FailIomap    BY <1>2, QuietStep DEF FailIomap
<1>3. CASE FailRegions  BY <1>3, QuietStep DEF FailRegions
<1>4. CASE ClientsGone  BY <1>4, QuietStep DEF ClientsGone
<1>5. CASE FreeCard     BY <1>5, QuietStep DEF FreeCard
<1>6. CASE FreeStop     BY <1>6, QuietStep DEF FreeStop
<1>7. CASE FreeIrq      BY <1>7, QuietStep DEF FreeIrq
<1>8. CASE FreeIrqWaits BY <1>8, QuietStep DEF FreeIrqWaits
<1>9. CASE FreeTables   BY <1>9, QuietStep DEF FreeTables
<1>10. CASE FreeMailbox BY <1>10, QuietStep DEF FreeMailbox
<1>11. CASE FreePci     BY <1>11, QuietStep DEF FreePci
<1>12. CASE Remove      BY <1>12, QuietStep DEF Remove
<1> QED
  BY <1>1, <1>2, <1>3, <1>4, <1>5, <1>6, <1>7, <1>8, <1>9, <1>10, <1>11, <1>12 DEF Free

(* A new card forgets the rate, and reads it before a client can open. *)
LEMMA ProbeStep ==
  ASSUME RateInv, Probe \/ ProbeControl
  PROVE  RateInv'
<1> USE DEF RateInv, ClientPlace, RatesTyped, Agreement, user, To, device_side
<1>1. CASE Probe  BY <1>1, NoRateIsNone DEF Probe, ForgetRate
<1>2. CASE ProbeControl
  <2>1. CASE ReadRate      BY <1>2, <2>1 DEF ProbeControl, ReadRate
  <2>2. CASE ~ReadRate     BY <1>2, <2>2, QuietStep DEF ProbeControl, RateRead
  <2> QED  BY <2>1, <2>2
<1> QED  BY <1>1, <1>2

(* The client, but for the end of hw_params. *)
LEMMA ClientStep ==
  ASSUME RateInv, Client
  PROVE  RateInv'
<1> USE DEF RateInv, ClientPlace, RatesTyped, Agreement
<1>1. CASE Open  BY <1>1 DEF Open, rates, driver_rate, device_side
<1>2. CASE HwParams
  <2>1. PICK p \in Offers : /\ p.rate \in Rates /\ AskRate(p.rate)
                            /\ tables' = IF Changing(p.rate) THEN NoTables ELSE tables
    BY <1>2 DEF HwParams
  <2>2. UNCHANGED <<pc, client, registered>> /\ client = "open"
    BY <1>2 DEF HwParams
  <2> QED  BY <2>1, <2>2 DEF AskRate, Changing, device_side
<1>3. CASE Start  BY <1>3 DEF Start, rates, driver_rate, device_side
<1>4. CASE Stop   BY <1>4 DEF Stop, rates, driver_rate, device_side
<1>5. CASE Close  BY <1>5 DEF Close, rates, driver_rate, device_side
<1> QED  BY <1>1, <1>2, <1>3, <1>4, <1>5 DEF Client

(* The setter leaves the idle state of a failure unsure, but for a failure *)
(* before the device was asked, and the last step only agrees.             *)
LEMMA ParamsStep ==
  ASSUME RateInv, Params
  PROVE  RateInv'
<1> USE DEF RateInv, ClientPlace, RatesTyped, Agreement, Step, Fails, device_side
<1>1. CASE SetRateStep
  <2>1. UNCHANGED <<pc, user>> /\ Setter  BY <1>1 DEF SetRateStep
  <2> USE <2>1 DEF user
  <2>2. CASE CheckClock  BY <2>2 DEF CheckClock
  <2>3. CASE SetRate
    <3>1. /\ device_rate' \in Rates /\ late' \in Seq(Rates)
          /\ setting' \in {"verify", "idle"} /\ UNCHANGED <<audio_rate, tables>>
          /\ setting' = "verify" => asked' = asked /\ late' = late /\ late = <<>>
          /\ setting' = "idle" => unsure'
      BY <2>3 DEF SetRate
    <3> QED  BY <3>1, <2>3 DEF SetRate
  <2>4. CASE Verify  BY <2>4 DEF Verify
  <2>5. CASE Wait    BY <2>5 DEF Wait
  <2> QED  BY <2>1, <2>2, <2>3, <2>4, <2>5 DEF Setter
<1>2. CASE BuildTables  BY <1>2 DEF BuildTables, Built
<1> QED  BY <1>1, <1>2 DEF Params

(* The device on its own: a forgotten change is only there while the       *)
(* driver is unsure.                                                       *)
LEMMA DeviceStep ==
  ASSUME RateInv, DeviceMoves
  PROVE  RateInv'
<1> USE DEF RateInv, ClientPlace, RatesTyped, Agreement, DeviceMoves, user, driver_rate
<1>1. CASE DeviceLate
  <2>1. device_rate' \in Rates /\ late' \in Seq(Rates) /\ late # <<>>
    BY <1>1 DEF DeviceLate
  <2> QED  BY <1>1, <2>1 DEF DeviceLate
<1>2. CASE DeviceShows  BY <1>2 DEF DeviceShows
<1> QED  BY <1>1, <1>2

---------------------------------------------------------------------------
LEMMA RateInvInit == Init => RateInv
  BY DEF Init, RatesInit, RateInv, ClientPlace, RatesTyped, Agreement, NoTables

LEMMA RateInvNext == RateInv /\ [Next]_vars => RateInv'
<1> SUFFICES ASSUME RateInv, [Next]_vars PROVE RateInv'
  OBVIOUS
<1> USE DEF RateInv, ClientPlace, RateRead, user
<1>1. CASE Disabled      BY <1>1, QuietStep DEF Disabled
<1>2. CASE Probe \/ ProbeControl  BY <1>2, ProbeStep
<1>3. CASE Create /\ ~ProbeControl  BY <1>3, CreateStep
<1>4. CASE Free \/ Remove  BY <1>4, FreeStep
<1>5. CASE Client        BY <1>5, ClientStep
<1>6. CASE Params        BY <1>6, ParamsStep
<1>7. CASE HandlerEnter  BY <1>7, QuietStep DEF HandlerEnter
<1>8. CASE Handler       BY <1>8, QuietStep DEF Handler, HandlerPick, HandlerReport
<1>9. CASE DeviceStops   BY <1>9, QuietStep DEF DeviceStops
<1>10. CASE DeviceMoves  BY <1>10, DeviceStep
<1>11. CASE UNCHANGED vars  BY <1>11, QuietStep DEF vars
<1> QED
  BY <1>1, <1>2, <1>3, <1>4, <1>5, <1>6, <1>7, <1>8, <1>9, <1>10, <1>11 DEF Next

LEMMA RateInvAlways == Spec => []RateInv
<1> QED  BY RateInvInit, RateInvNext, PTL DEF Spec

(* The driver may rely on its rate and channel count, in every reachable   *)
(* state after a change that did not fail and before one that does, and    *)
(* has no tables while it changes them (quantum_tci_set_sample_rate).      *)
THEOREM RateAlwaysKnown == Spec => []RateIsKnown
<1>1. RateInv => RateIsKnown
  BY DEF RateInv, Agreement, RateIsKnown, ChannelsMatch
<1> QED  BY <1>1, RateInvAlways, PTL

(* The device changes its rate only while there are no tables, or after a  *)
(* change that failed (quantum_pcm_hw_params frees them first).            *)
THEOREM RateMovesAlone == Spec => RateMovesWithoutTables
<1>1. RateInv /\ [Next]_vars => [device_rate' # device_rate => tables = NoTables \/ unsure]_vars
  <2> SUFFICES ASSUME RateInv, Next, device_rate' # device_rate, ~unsure
               PROVE  tables = NoTables
    BY DEF vars
  <2> USE DEF RateInv, ClientPlace, RatesTyped, Agreement
  <2>1. CASE Params
    <3>1. CASE SetRateStep
      <4>1. Setter  BY <3>1 DEF SetRateStep
      <4> QED  BY <4>1 DEF Setter, CheckClock, SetRate, Verify, Wait, device_side
    <3>2. CASE BuildTables  BY <3>2 DEF BuildTables, Built, device_side
    <3> QED  BY <2>1, <3>1, <3>2 DEF Params
  <2>2. CASE DeviceMoves
    <3>1. late # <<>>
      BY <2>2 DEF DeviceMoves, DeviceLate, DeviceShows
    <3> QED  BY <3>1, NoRateIsNone
  <2>3. CASE Client
    BY <2>3 DEF Client, Open, HwParams, AskRate, Start, Stop, Close, rates, device_side
  <2>4. CASE Disabled \/ Probe \/ Remove \/ HandlerEnter \/ Handler \/ DeviceStops
    BY <2>4 DEF Disabled, Probe, ForgetRate, Remove, HandlerEnter, Handler, HandlerPick,
                HandlerReport, DeviceStops, rates, device_side
  <2>5. CASE Create
    BY <2>5 DEF Create, EnableDevice, SetMask, RequestRegions, Map, StartMailbox, ProbeControl,
                ReadRate, AllocVectors, RequestIrq, NewPcm, Register, rates, device_side
  <2>6. CASE Free
    BY <2>6 DEF Free, FailTci, FailIomap, FailRegions, ClientsGone, FreeCard, FreeStop, FreeIrq,
                FreeIrqWaits, FreeTables, FreeMailbox, FreePci, rates, device_side
  <2> QED  BY <2>1, <2>2, <2>3, <2>4, <2>5, <2>6 DEF Next
<1> QED  BY <1>1, RateInvAlways, PTL DEF Spec, RateMovesWithoutTables

-----------------------------------------------------------------------------
(* What is held at each step of snd_quantum_create, of its unwinding and of *)
(* snd_quantum_free.                                                       *)

(* The steps at which the mailbox runs; a card that is released without    *)
(* private_free has none of its resources any more.                        *)
Unwound == pc = "release" /\ ~private_free
Started ==
  /\ pc \in {"control", "vectors", "irq", "pcm", "register", "bound", "disconnected", "release",
             "fail_tci", "free_stop", "free_irq", "free_irq_wait", "free_tables", "free_mailbox"}
  /\ ~Unwound

Places ==
  {"idle", "enable", "mask", "regions", "map", "mailbox", "fail_iomap", "fail_regions",
   "control", "vectors", "irq", "pcm", "register", "bound", "disconnected", "release",
   "fail_tci", "free_stop", "free_irq", "free_irq_wait", "free_tables", "free_mailbox", "free_pci"}

HeldInv ==
  /\ pc \in Places /\ held \in [Resources -> {0, 1}]
  /\ held["card"] = 1 <=> pc # "idle"
  /\ held["device"] = 1 <=> pc \notin {"idle", "enable"} /\ ~Unwound
  /\ held["regions"] = 1 <=> pc \notin {"idle", "enable", "mask", "regions"} /\ ~Unwound
  /\ held["mapping"] = 1 <=>
       pc \notin {"idle", "enable", "mask", "regions", "map", "fail_regions"} /\ ~Unwound
  /\ held["slots"] = 1 <=> Started
  /\ held["vectors"] = 1 <=> msi_allocated /\ pc \notin {"idle", "free_mailbox", "free_pci"}
  /\ held["irq"] = 1 <=> irq_requested /\ pc # "free_irq_wait"
  /\ held["pcm"] = 1 => pc \in {"register", "bound", "disconnected", "release"} /\ private_free

FlagsInv ==
  /\ tci_started <=> Started
  /\ pc \in {"enable", "mask", "regions", "map", "mailbox", "control", "vectors",
             "fail_tci", "fail_iomap", "fail_regions"} \/ Unwound =>
       ~irq_requested /\ ~msi_allocated
  /\ pc \in {"enable", "mask", "regions", "map", "mailbox", "control", "vectors", "irq",
             "fail_tci", "fail_iomap", "fail_regions"} => ~private_free
  /\ pc \in {"pcm", "register", "bound", "disconnected", "free_stop", "free_irq", "free_irq_wait",
             "free_tables", "free_mailbox", "free_pci"} => private_free
  /\ pc \in {"idle", "irq", "free_tables", "free_mailbox", "free_pci"} => ~irq_requested
  /\ pc \in {"enable", "mask", "regions", "map", "mailbox", "control", "vectors", "irq", "pcm",
             "register"} => dev < Cards
  /\ dev \in 0..Cards

(* An engine that ignored its stop has lost the bus, and gets it back only *)
(* in a later load.                                                        *)
BusInv ==
  /\ master => pc \notin {"idle", "enable", "mask"} /\ ~Unwound
  /\ audio = "stuck" \/ mailbox = "stuck" => ~master /\ pc \notin {"enable", "mask"}
  /\ audio = "running" => engine
  /\ mailbox = "running" => tci_started

UseInv ==
  /\ engine => tables # NoTables /\ client = "open" /\ setting = "idle"
  /\ client = "open" => held["pcm"] = 1
  /\ handler # "out" => irq_requested
  /\ handler = "reporting" => client = "open"

SafeInv == RateInv /\ HeldInv /\ FlagsInv /\ BusInv /\ UseInv

---------------------------------------------------------------------------
LEMMA SafeInvInit == Init => SafeInv
<1> SUFFICES ASSUME Init PROVE SafeInv
  OBVIOUS
<1> USE DEF Init, Started, Unwound, Resources
<1>1. HeldInv   BY DEF HeldInv, Places
<1>2. FlagsInv  BY CardsAssumption DEF FlagsInv
<1>3. BusInv    BY DEF BusInv
<1>4. UseInv    BY DEF UseInv, RatesInit
<1> QED  BY <1>1, <1>2, <1>3, <1>4, RateInvInit DEF SafeInv

LEMMA CreateSafe ==
  ASSUME SafeInv, Create
  PROVE  (HeldInv /\ FlagsInv /\ BusInv /\ UseInv)'
<1> USE CardsAssumption DEF SafeInv, HeldInv, FlagsInv, BusInv, UseInv, Started, Unwound, Places, Resources,
        RateInv, ClientPlace, To, Acquire, Release, flags, device, user, rates, driver_rate
<1>1. CASE EnableDevice   BY <1>1 DEF EnableDevice
<1>2. CASE SetMask        BY <1>2 DEF SetMask
<1>3. CASE RequestRegions BY <1>3 DEF RequestRegions
<1>4. CASE Map            BY <1>4 DEF Map
<1>5. CASE StartMailbox   BY <1>5 DEF StartMailbox
<1>6. CASE ProbeControl   BY <1>6 DEF ProbeControl, ReadRate
<1>7. CASE AllocVectors   BY <1>7 DEF AllocVectors
<1>8. CASE RequestIrq     BY <1>8 DEF RequestIrq
<1>9. CASE NewPcm         BY <1>9 DEF NewPcm
<1>10. CASE Register      BY <1>10 DEF Register
<1> QED  BY <1>1, <1>2, <1>3, <1>4, <1>5, <1>6, <1>7, <1>8, <1>9, <1>10 DEF Create

LEMMA FreeSafe ==
  ASSUME SafeInv, Free
  PROVE  (HeldInv /\ FlagsInv /\ BusInv /\ UseInv)'
<1> USE CardsAssumption DEF SafeInv, HeldInv, FlagsInv, BusInv, UseInv, Started, Unwound, Places, Resources,
        RateInv, ClientPlace, To, Release, flags, device, user, rates, driver_rate
<1>1. CASE FailTci      BY <1>1 DEF FailTci, StopMailbox
<1>2. CASE FailIomap    BY <1>2 DEF FailIomap
<1>3. CASE FailRegions  BY <1>3 DEF FailRegions
<1>4. CASE ClientsGone  BY <1>4 DEF ClientsGone
<1>5. CASE FreeCard     BY <1>5 DEF FreeCard
<1>6. CASE FreeStop     BY <1>6 DEF FreeStop, StopAudio
<1>7. CASE FreeIrq      BY <1>7 DEF FreeIrq
<1>8. CASE FreeIrqWaits BY <1>8 DEF FreeIrqWaits
<1>9. CASE FreeTables   BY <1>9 DEF FreeTables
<1>10. CASE FreeMailbox BY <1>10 DEF FreeMailbox, StopMailbox
<1>11. CASE FreePci     BY <1>11 DEF FreePci
<1> QED  BY <1>1, <1>2, <1>3, <1>4, <1>5, <1>6, <1>7, <1>8, <1>9, <1>10, <1>11 DEF Free

LEMMA PlaySafe ==
  ASSUME SafeInv, Client \/ Params
  PROVE  (HeldInv /\ FlagsInv /\ BusInv /\ UseInv)'
<1> USE DEF SafeInv, HeldInv, FlagsInv, BusInv, UseInv, Started, Unwound,
        RateInv, ClientPlace, Agreement, flags, device, user, rates, driver_rate
<1>1. CASE Open     BY <1>1 DEF Open
<1>2. CASE HwParams BY <1>2 DEF HwParams, AskRate
<1>3. CASE Start    BY <1>3 DEF Start
<1>4. CASE Stop     BY <1>4 DEF Stop, StopAudio
<1>5. CASE Close    BY <1>5 DEF Close
<1>6. CASE SetRateStep
  BY <1>6 DEF SetRateStep, Setter, CheckClock, SetRate, Verify, Wait, Step, Fails
<1>7. CASE BuildTables BY <1>7 DEF BuildTables, Built, Fails
<1> QED  BY <1>1, <1>2, <1>3, <1>4, <1>5, <1>6, <1>7 DEF Client, Params

LEMMA OtherSafe ==
  ASSUME SafeInv,
         Disabled \/ Probe \/ Remove \/ HandlerEnter \/ Handler \/ DeviceStops \/ DeviceMoves
           \/ UNCHANGED vars
  PROVE  (HeldInv /\ FlagsInv /\ BusInv /\ UseInv)'
<1> USE CardsAssumption DEF SafeInv, HeldInv, FlagsInv, BusInv, UseInv, Started, Unwound, Places, Resources,
        RateInv, ClientPlace, flags, device, user, rates, driver_rate
<1>1. CASE Disabled       BY <1>1 DEF Disabled
<1>2. CASE Probe          BY <1>2 DEF Probe, ForgetRate, Acquire, Carried
<1>3. CASE Remove         BY <1>3 DEF Remove, StopAudio
<1>4. CASE HandlerEnter   BY <1>4 DEF HandlerEnter
<1>5. CASE HandlerPick    BY <1>5 DEF HandlerPick
<1>6. CASE HandlerReport  BY <1>6 DEF HandlerReport, StopAudio
<1>7. CASE DeviceStops    BY <1>7 DEF DeviceStops
<1>8. CASE DeviceMoves    BY <1>8 DEF DeviceMoves, DeviceLate, DeviceShows
<1>9. CASE UNCHANGED vars BY <1>9 DEF vars
<1> QED  BY <1>1, <1>2, <1>3, <1>4, <1>5, <1>6, <1>7, <1>8, <1>9 DEF Handler

LEMMA SafeInvAlways == Spec => []SafeInv
<1>1. SafeInv /\ [Next]_vars => SafeInv'
  BY RateInvNext, CreateSafe, FreeSafe, PlaySafe, OtherSafe DEF SafeInv, Next
<1> QED  BY <1>1, SafeInvInit, PTL DEF Spec

---------------------------------------------------------------------------
(* Every resource is held no or one time, whatever fails, and streams and  *)
(* changes of rate belong to a client of a probed card.                    *)
THEOREM LifecycleTyping == Spec => []TypeOK
<1>1. SafeInv => TypeOK
  BY DEF SafeInv, HeldInv, FlagsInv, UseInv, RateInv, ClientPlace, RatesTyped, TypeOK, Started, Unwound
<1> QED  BY <1>1, SafeInvAlways, PTL

(* The interrupt handler finds registers, lock and PCM (snd_quantum_free   *)
(* takes it off the line and waits for it first).                          *)
THEOREM HandlerAlwaysFinds == Spec => []HandlerFindsAll
<1>1. SafeInv => HandlerFindsAll
  BY DEF SafeInv, HeldInv, FlagsInv, UseInv, RateInv, ClientPlace, HandlerFindsAll, Started, Unwound, Places
<1> QED  BY <1>1, SafeInvAlways, PTL

(* An engine of this load that has the bus has its memory, whatever it     *)
(* does with requests to stop (quantum_audio_stop, quantum_tci_stop).      *)
THEOREM MemoryAlwaysOutlives == Spec => []MemoryOutlivesDma
<1>1. SafeInv => MemoryOutlivesDma
  BY DEF SafeInv, HeldInv, FlagsInv, BusInv, UseInv, MemoryOutlivesDma, Started, Unwound
<1> QED  BY <1>1, SafeInvAlways, PTL

(* A failed probe and a removal leave nothing behind (the labels of        *)
(* snd_quantum_create, snd_quantum_free).                                  *)
THEOREM NothingEverLeaks == Spec => []NothingLeaks
<1>1. SafeInv => NothingLeaks
  BY DEF SafeInv, HeldInv, FlagsInv, BusInv, UseInv, RateInv, ClientPlace, NothingLeaks, Started,
         Unwound, Resources
<1> QED  BY <1>1, SafeInvAlways, PTL

---------------------------------------------------------------------------
(* Tables that are there were built for a buffer that is not empty, with   *)
(* segment sizes that quantum_dma_table_build accepts.                     *)
BuiltFor(built) ==
  /\ built.bytes \in Nat \ {0}
  /\ built.capture \in Nat /\ Accepts(built.capture)
  /\ built.playback \in Nat /\ Accepts(built.playback)
TablesInv == tables # NoTables => BuiltFor(tables)

LEMMA TablesInvNext == TablesInv /\ [Next]_vars => TablesInv'
<1> SUFFICES ASSUME TablesInv, [Next]_vars
             PROVE  tables' \in {tables, NoTables} \/ BuiltFor(tables')
  BY DEF TablesInv
<1> USE DEF To, flags, device, user
<1>1. CASE Create
  BY <1>1 DEF Create, EnableDevice, SetMask, RequestRegions, Map, StartMailbox, ProbeControl,
       AllocVectors, RequestIrq, NewPcm, Register
<1>2. CASE Free
  BY <1>2 DEF Free, FailTci, FailIomap, FailRegions, ClientsGone, FreeCard, FreeStop, FreeIrq,
       FreeIrqWaits, FreeTables, FreeMailbox, FreePci
<1>3. CASE Client
  BY <1>3 DEF Client, Open, HwParams, Start, Stop, Close
<1>4. CASE SetRateStep
  BY <1>4 DEF SetRateStep
<1>5. CASE BuildTables
  <2>1. ASSUME NEW bytes \in BufferBytes, NEW capture \in SegmentSizes, NEW playback \in SegmentSizes,
               Accepts(capture), Accepts(playback),
               tables' = [bytes |-> bytes, capture |-> capture, playback |-> playback]
        PROVE  BuiltFor(tables')
    BY <2>1, SizesAssumption DEF BuiltFor
  <2> QED  BY <1>5, <2>1 DEF BuildTables
<1>6. CASE Disabled \/ Probe \/ Remove
  BY <1>6 DEF Disabled, Probe, Remove
<1>7. CASE HandlerEnter \/ Handler
  BY <1>7 DEF HandlerEnter, Handler, HandlerPick, HandlerReport
<1>8. CASE DeviceStops \/ DeviceMoves
  BY <1>8 DEF DeviceStops, DeviceMoves
<1>9. CASE UNCHANGED vars
  BY <1>9 DEF vars
<1> QED  BY <1>1, <1>2, <1>3, <1>4, <1>5, <1>6, <1>7, <1>8, <1>9 DEF Next, Params

(* A device that follows a table of quantum_dma_table_build meets every    *)
(* page of the buffer once and in order, and then the end, for every       *)
(* buffer and every segment size the driver accepts.                       *)
THEOREM TablesAlwaysReach == Spec => []TablesReachBuffer
<1>1. Init => TablesInv
  BY DEF Init, TablesInv
<1>2. TablesInv => TablesReachBuffer
  <2> SUFFICES ASSUME TablesInv, tables # NoTables,
                      NEW per \in {tables.capture, tables.playback}
               PROVE  Walk(Table(tables.bytes, per), per, Segments(tables.bytes, per))
                        = [n \in 1..Pages(tables.bytes) |-> n - 1]
    BY DEF TablesReachBuffer
  <2>1. tables.bytes \in Nat \ {0} /\ per \in Nat /\ Accepts(per)
    BY DEF TablesInv, BuiltFor
  <2> QED  BY <2>1, TablesReach
<1> QED  BY <1>1, <1>2, TablesInvNext, PTL DEF Spec

-----------------------------------------------------------------------------
(* The parameter rules, for all intervals of integers: a pass of the core  *)
(* over them leaves the bounds of the rows that fit, or nothing, and a     *)
(* further pass changes no more.                                           *)
Later(a, b) == IF a <= b THEN b ELSE a
Sooner(a, b) == IF a <= b THEN a ELSE b

(* a..b is what Hull(S) makes of the set S. *)
HullOf(S, a, b) ==
  IF S = {} THEN a = 1 /\ b = 0
  ELSE a \in S /\ b \in S /\ \A x \in S : a <= x /\ x <= b

(* r and k are the rate and the count of a row of the table. *)
Row(r, k) == Profile(r, k) \in quantum_rate_profiles

(* The values of list within lo..hi, if there are any, are within a..b, *)
(* whose ends are two of them.                                          *)
Ends2(list, lo, hi, a, b) ==
  \/ a > b /\ \A n \in list : ~(lo <= n /\ n <= hi)
  \/ /\ a \in list /\ b \in list /\ lo <= a /\ a <= b /\ b <= hi
     /\ \A n \in list : lo <= n /\ n <= hi => a <= n /\ n <= b

(* What the rules find for an interval of the other side. *)
ChannelsBetween(a, b) ==
  {k \in quantum_channel_counts : \E r \in quantum_rates : a <= r /\ r <= b /\ Row(r, k)}
RatesBetween(a, b) ==
  {r \in quantum_rates : \E k \in quantum_channel_counts : a <= k /\ k <= b /\ Row(r, k)}

(* No row has its rate in lo..hi and its count in kl..kh; or a..b are the  *)
(* bounds of the counts, or of the rates, of those that have.              *)
NoRow(lo, hi, kl, kh) ==
  \A r \in quantum_rates, k \in quantum_channel_counts :
    lo <= r /\ r <= hi /\ kl <= k /\ k <= kh => ~Row(r, k)
ChannelsFit(lo, hi, kl, kh, a, b) ==
  /\ a <= b /\ kl <= a /\ b <= kh
  /\ \E r \in quantum_rates : lo <= r /\ r <= hi /\ Row(r, a)
  /\ \E r \in quantum_rates : lo <= r /\ r <= hi /\ Row(r, b)
  /\ \A r \in quantum_rates, k \in quantum_channel_counts :
       lo <= r /\ r <= hi /\ kl <= k /\ k <= kh /\ Row(r, k) => a <= k /\ k <= b
RatesFit(lo, hi, kl, kh, a, b) ==
  /\ a <= b /\ lo <= a /\ b <= hi
  /\ \E k \in quantum_channel_counts : kl <= k /\ k <= kh /\ Row(a, k)
  /\ \E k \in quantum_channel_counts : kl <= k /\ k <= kh /\ Row(b, k)
  /\ \A r \in quantum_rates, k \in quantum_channel_counts :
       lo <= r /\ r <= hi /\ kl <= k /\ k <= kh /\ Row(r, k) => a <= r /\ r <= b

(* A pass refines the counts to the lists and to the rule, and then the    *)
(* rates to the rule for those counts.                                     *)
LEMMA ChannelsLeft ==
  ASSUME NEW lo \in Int, NEW hi \in Int, NEW kl \in Int, NEW kh \in Int,
         NEW p1 \in Int, NEW p2 \in Int, Ends2(quantum_rates, lo, hi, p1, p2),
         NEW q1 \in Int, NEW q2 \in Int, Ends2(quantum_channel_counts, kl, kh, q1, q2),
         NEW a1 \in Int, NEW a2 \in Int, HullOf(ChannelsBetween(p1, p2), a1, a2),
         NEW u1 \in Int, NEW u2 \in Int, u1 = Later(q1, a1), u2 = Sooner(q2, a2)
  PROVE  \/ (p1 > p2 \/ u1 > u2) /\ NoRow(lo, hi, kl, kh)
         \/ ChannelsFit(lo, hi, kl, kh, u1, u2)
<1> USE DEF quantum_rates, quantum_channel_counts
<1>1. \A r \in quantum_rates, k \in quantum_channel_counts :
        Row(r, k) <=> \/ r \in {44100, 48000} /\ k = 26
                      \/ r \in {88200, 96000} /\ k = 18
                      \/ r \in {176400, 192000} /\ k = 8
  BY DEF Row, Profile, quantum_rate_profiles
<1>2. QED
  BY <1>1 DEF HullOf, Later, Sooner, Ends2, ChannelsBetween, NoRow, ChannelsFit

LEMMA RatesLeft ==
  ASSUME NEW lo \in Int, NEW hi \in Int, NEW kl \in Int, NEW kh \in Int,
         NEW p1 \in Int, NEW p2 \in Int, Ends2(quantum_rates, lo, hi, p1, p2),
         NEW u1 \in Int, NEW u2 \in Int, ChannelsFit(lo, hi, kl, kh, u1, u2),
         NEW g1 \in Int, NEW g2 \in Int, HullOf(RatesBetween(u1, u2), g1, g2),
         NEW v1 \in Int, NEW v2 \in Int, v1 = Later(p1, g1), v2 = Sooner(p2, g2)
  PROVE  RatesFit(lo, hi, kl, kh, v1, v2)
<1> USE DEF quantum_rates, quantum_channel_counts
<1>1. \A r, k :
        Row(r, k) <=> \/ r \in {44100, 48000} /\ k = 26
                      \/ r \in {88200, 96000} /\ k = 18
                      \/ r \in {176400, 192000} /\ k = 8
  BY DEF Row, Profile, quantum_rate_profiles
<1>2. QED
  BY <1>1 DEF HullOf, Later, Sooner, Ends2, RatesBetween, ChannelsFit, RatesFit

---------------------------------------------------------------------------
(* The operators of the pass, with integers for their intervals. *)
LEMMA HullIs ==
  ASSUME NEW n \in Nat, NEW S, S \subseteq 1..n
  PROVE  \E a, b \in Int : Hull(S) = Interval(a, b) /\ HullOf(S, a, b)
<1>1. CASE S = {}
  BY <1>1 DEF Hull, HullOf
<1>2. CASE S # {}
  <2>1. PICK a \in S : \A x \in S : a <= x
    <3>1. S \subseteq Nat
      OBVIOUS
    <3> QED  BY <1>2, <3>1, Least
  <2>2. PICK b \in S : \A x \in S : x <= b
    BY <1>2, Greatest
  <2>3. Min(S) = a
    <3>1. \A m \in S : (\A x \in S : m <= x) => m = a
      BY <2>1
    <3> QED  BY <2>1, <3>1 DEF Min
  <2>4. Max(S) = b
    <3>1. \A m \in S : (\A x \in S : m >= x) => m = b
      BY <2>2
    <3>2. \A x \in S : b >= x
      BY <2>2
    <3> QED  BY <3>1, <3>2 DEF Max
  <2>5. Hull(S) = Interval(a, b)
    BY <1>2, <2>3, <2>4 DEF Hull
  <2>6. a \in Int /\ b \in Int
    OBVIOUS
  <2> QED  BY <1>2, <2>1, <2>2, <2>5, <2>6 DEF HullOf
<1> QED  BY <1>1, <1>2

LEMMA RefineIs ==
  ASSUME NEW a \in Int, NEW b \in Int, NEW x \in Int, NEW y \in Int
  PROVE  Refine(Interval(a, b), Interval(x, y)) = Interval(Later(a, x), Sooner(b, y))
<1>1. Max({a, x}) = Later(a, x)
  BY DEF Max, Later
<1>2. Min({b, y}) = Sooner(b, y)
  BY DEF Min, Sooner
<1> QED  BY <1>1, <1>2 DEF Refine, Interval

(* The lists and the table are within 1..top. *)
LEMMA SmallLists ==
  \E top \in Nat : /\ quantum_rates \subseteq 1..top /\ quantum_channel_counts \subseteq 1..top
                  /\ \A p \in quantum_rate_profiles : p.rate \in 1..top /\ p.channels \in 1..top
<1>1. PICK top \in Nat : 192000 <= top
  OBVIOUS
<1>2. \A n \in quantum_rates \cup quantum_channel_counts : n \in Nat /\ 1 <= n /\ n <= 192000
  BY DEF quantum_rates, quantum_channel_counts
<1>3. \A p \in quantum_rate_profiles : /\ p.rate \in quantum_rates /\ p.channels \in quantum_channel_counts
  BY DEF quantum_rate_profiles, Profile, quantum_rates, quantum_channel_counts
<1> QED  BY <1>1, <1>2, <1>3

LEMMA ListBounds ==
  ASSUME NEW list \in {quantum_rates, quantum_channel_counts}, NEW lo \in Int, NEW hi \in Int
  PROVE  \E a, b \in Int : RefineToList(Interval(lo, hi), list) = Interval(a, b) /\ Ends2(list, lo, hi, a, b)
<1> DEFINE S == {n \in list : lo <= n /\ n <= hi}
<1>1. S = {n \in list : Test(Interval(lo, hi), n)}
  BY DEF Test, Interval, S
<1> HIDE DEF S
<1>2. PICK top \in Nat : S \subseteq 1..top
  BY SmallLists DEF S
<1>3. PICK x, y \in Int : Hull(S) = Interval(x, y) /\ HullOf(S, x, y)
  BY <1>2, HullIs
<1>4. RefineToList(Interval(lo, hi), list) = Interval(Later(lo, x), Sooner(hi, y))
  BY <1>1, <1>3, RefineIs DEF RefineToList
<1>5. \A n \in list : n \in Int
  BY DEF quantum_rates, quantum_channel_counts
<1>6. Later(lo, x) \in Int /\ Sooner(hi, y) \in Int
  BY DEF Later, Sooner
<1>7. Ends2(list, lo, hi, Later(lo, x), Sooner(hi, y))
  <2>1. \A n : n \in S <=> n \in list /\ lo <= n /\ n <= hi
    BY DEF S
  <2>2. CASE S = {}
    BY <1>3, <1>5, <2>1, <2>2 DEF HullOf, Later, Sooner, Ends2
  <2>3. CASE S # {}
    <3>1. x \in list /\ y \in list /\ lo <= x /\ y <= hi /\ x <= y
      BY <1>3, <2>1, <2>3 DEF HullOf
    <3>2. Later(lo, x) = x /\ Sooner(hi, y) = y
      BY <3>1 DEF Later, Sooner
    <3> QED  BY <1>3, <2>1, <2>3, <3>1, <3>2 DEF HullOf, Ends2
  <2> QED  BY <2>2, <2>3
<1> QED  BY <1>4, <1>6, <1>7

---------------------------------------------------------------------------
(* All configurations, and the rows within one. *)
Config == [rates : [min : Int, max : Int], channels : [min : Int, max : Int]]
Within(c, p) == Test(c.rates, p.rate) /\ Test(c.channels, p.channels)

LEMMA RowsAre ==
  /\ \A p \in quantum_rate_profiles :
       /\ p.rate \in quantum_rates /\ p.channels \in quantum_channel_counts
       /\ Row(p.rate, p.channels)
  /\ \A r, k : Row(r, k) => \E p \in quantum_rate_profiles : p.rate = r /\ p.channels = k
<1>1. \A p \in quantum_rate_profiles : p = Profile(p.rate, p.channels)
  BY DEF quantum_rate_profiles, Profile
<1>2. \A r, k : Row(r, k) => \E p \in quantum_rate_profiles : p.rate = r /\ p.channels = k
  <2> SUFFICES ASSUME NEW r, NEW k, Row(r, k)
               PROVE  \E p \in quantum_rate_profiles : p.rate = r /\ p.channels = k
    OBVIOUS
  <2>1. Profile(r, k).rate = r /\ Profile(r, k).channels = k
    BY DEF Profile
  <2>2. Profile(r, k) \in quantum_rate_profiles
    BY DEF Row
  <2> QED  BY <2>1, <2>2
<1>3. \A p \in quantum_rate_profiles : p.rate \in quantum_rates /\ p.channels \in quantum_channel_counts
  BY DEF quantum_rate_profiles, Profile, quantum_rates, quantum_channel_counts
<1>4. \A p \in quantum_rate_profiles : Row(p.rate, p.channels)
  BY <1>1 DEF Row
<1> QED  BY <1>2, <1>3, <1>4

LEMMA AllowedChannelsIs ==
  ASSUME NEW lo \in Int, NEW hi \in Int
  PROVE  \E a, b \in Int :
           /\ AllowedChannels(Interval(lo, hi)) = Interval(a, b)
           /\ HullOf(ChannelsBetween(lo, hi), a, b)
<1> DEFINE S == ChannelsBetween(lo, hi)
           T == {p.channels : p \in {q \in quantum_rate_profiles : Test(Interval(lo, hi), q.rate)}}
<1>1. \A x : x \in S => x \in T
  <2> SUFFICES ASSUME NEW x \in S PROVE x \in T
    OBVIOUS
  <2>1. PICK r \in quantum_rates : lo <= r /\ r <= hi /\ Row(r, x)
    BY DEF ChannelsBetween
  <2>2. PICK p \in quantum_rate_profiles : p.rate = r /\ p.channels = x
    BY <2>1, RowsAre
  <2>3. Test(Interval(lo, hi), p.rate)
    BY <2>1, <2>2 DEF Test, Interval
  <2> QED  BY <2>2, <2>3
<1>2. \A x : x \in T => x \in S
  <2> SUFFICES ASSUME NEW x \in T PROVE x \in S
    OBVIOUS
  <2>1. PICK p \in quantum_rate_profiles : Test(Interval(lo, hi), p.rate) /\ x = p.channels
    OBVIOUS
  <2>2. lo <= p.rate /\ p.rate <= hi
    BY <2>1 DEF Test, Interval
  <2> QED  BY <2>1, <2>2, RowsAre DEF ChannelsBetween
<1>3. S = T
  <2> HIDE DEF S, T
  <2> QED  BY <1>1, <1>2
<1>4. PICK top \in Nat : S \subseteq 1..top
  BY SmallLists DEF ChannelsBetween
<1>5. AllowedChannels(Interval(lo, hi)) = Hull(S)
  BY <1>3 DEF AllowedChannels
<1> HIDE DEF S
<1>6. PICK a, b \in Int : Hull(S) = Interval(a, b) /\ HullOf(S, a, b)
  BY <1>4, HullIs
<1> QED  BY <1>5, <1>6 DEF S

LEMMA AllowedRatesIs ==
  ASSUME NEW lo \in Int, NEW hi \in Int
  PROVE  \E a, b \in Int :
           /\ AllowedRates(Interval(lo, hi)) = Interval(a, b)
           /\ HullOf(RatesBetween(lo, hi), a, b)
<1> DEFINE S == RatesBetween(lo, hi)
           T == {p.rate : p \in {q \in quantum_rate_profiles : Test(Interval(lo, hi), q.channels)}}
<1>1. \A x : x \in S => x \in T
  <2> SUFFICES ASSUME NEW x \in S PROVE x \in T
    OBVIOUS
  <2>1. PICK k \in quantum_channel_counts : lo <= k /\ k <= hi /\ Row(x, k)
    BY DEF RatesBetween
  <2>2. PICK p \in quantum_rate_profiles : p.rate = x /\ p.channels = k
    BY <2>1, RowsAre
  <2>3. Test(Interval(lo, hi), p.channels)
    BY <2>1, <2>2 DEF Test, Interval
  <2> QED  BY <2>2, <2>3
<1>2. \A x : x \in T => x \in S
  <2> SUFFICES ASSUME NEW x \in T PROVE x \in S
    OBVIOUS
  <2>1. PICK p \in quantum_rate_profiles : Test(Interval(lo, hi), p.channels) /\ x = p.rate
    OBVIOUS
  <2>2. lo <= p.channels /\ p.channels <= hi
    BY <2>1 DEF Test, Interval
  <2> QED  BY <2>1, <2>2, RowsAre DEF RatesBetween
<1>3. S = T
  <2> HIDE DEF S, T
  <2> QED  BY <1>1, <1>2
<1>4. PICK top \in Nat : S \subseteq 1..top
  BY SmallLists DEF RatesBetween
<1>5. AllowedRates(Interval(lo, hi)) = Hull(S)
  BY <1>3 DEF AllowedRates
<1> HIDE DEF S
<1>6. PICK a, b \in Int : Hull(S) = Interval(a, b) /\ HullOf(S, a, b)
  BY <1>4, HullIs
<1> QED  BY <1>5, <1>6 DEF S

---------------------------------------------------------------------------
(* d is what is left of c: empty if no row is within c, and else with the  *)
(* same rows in it, one at each of its ends.                               *)
Settles(c, d) ==
  \/ Refused(d) /\ \A p \in quantum_rate_profiles : ~Within(c, p)
  \/ /\ \A p \in quantum_rate_profiles : Within(c, p) <=> Within(d, p)
     /\ \E p \in quantum_rate_profiles : Within(c, p) /\ p.rate = d.rates.min
     /\ \E p \in quantum_rate_profiles : Within(c, p) /\ p.rate = d.rates.max
     /\ \E p \in quantum_rate_profiles : Within(c, p) /\ p.channels = d.channels.min
     /\ \E p \in quantum_rate_profiles : Within(c, p) /\ p.channels = d.channels.max

(* One pass settles a configuration, and what is settled stays so. *)
LEMMA PassSettles ==
  ASSUME NEW c \in Config
  PROVE  Pass(c) \in Config /\ Settles(c, Pass(c))
<1>1. PICK lo, hi, kl, kh \in Int : c.rates = Interval(lo, hi) /\ c.channels = Interval(kl, kh)
  <2>1. /\ c.rates.min \in Int /\ c.rates.max \in Int /\ c.channels.min \in Int /\ c.channels.max \in Int
        /\ c.rates = Interval(c.rates.min, c.rates.max) /\ c.channels = Interval(c.channels.min, c.channels.max)
    BY DEF Config, Interval
  <2> QED  BY <2>1
<1>2. PICK p1, p2 \in Int : /\ RefineToList(c.rates, quantum_rates) = Interval(p1, p2)
                            /\ Ends2(quantum_rates, lo, hi, p1, p2)
  BY <1>1, ListBounds
<1>3. PICK q1, q2 \in Int : /\ RefineToList(c.channels, quantum_channel_counts) = Interval(q1, q2)
                            /\ Ends2(quantum_channel_counts, kl, kh, q1, q2)
  BY <1>1, ListBounds
<1>4. PICK a1, a2 \in Int :
        /\ AllowedChannels(Interval(p1, p2)) = Interval(a1, a2)
        /\ HullOf(ChannelsBetween(p1, p2), a1, a2)
  BY AllowedChannelsIs
<1>5. PICK u1, u2 \in Int : u1 = Later(q1, a1) /\ u2 = Sooner(q2, a2)
  BY DEF Later, Sooner
<1>6. Refine(Interval(q1, q2), Interval(a1, a2)) = Interval(u1, u2)
  BY <1>5, RefineIs
<1>7. PICK g1, g2 \in Int :
        /\ AllowedRates(Interval(u1, u2)) = Interval(g1, g2)
        /\ HullOf(RatesBetween(u1, u2), g1, g2)
  BY AllowedRatesIs
<1>8. PICK v1, v2 \in Int : v1 = Later(p1, g1) /\ v2 = Sooner(p2, g2)
  BY DEF Later, Sooner
<1>9. Refine(Interval(p1, p2), Interval(g1, g2)) = Interval(v1, v2)
  BY <1>8, RefineIs
<1>10. Pass(c) = [rates |-> Interval(v1, v2), channels |-> Interval(u1, u2)]
  BY <1>2, <1>3, <1>4, <1>6, <1>7, <1>9 DEF Pass
<1>11. Pass(c) \in Config
  BY <1>10 DEF Config, Interval
<1>12. \A p : Within(c, p) <=> lo <= p.rate /\ p.rate <= hi /\ kl <= p.channels /\ p.channels <= kh
  BY <1>1 DEF Within, Test, Interval
<1>13. /\ Pass(c).rates.min = v1 /\ Pass(c).rates.max = v2
       /\ Pass(c).channels.min = u1 /\ Pass(c).channels.max = u2
  BY <1>10 DEF Interval
<1>14. \A p : Within(Pass(c), p) <=> v1 <= p.rate /\ p.rate <= v2 /\ u1 <= p.channels /\ p.channels <= u2
  BY <1>13 DEF Within, Test
<1>15. \/ (p1 > p2 \/ u1 > u2) /\ NoRow(lo, hi, kl, kh)
       \/ ChannelsFit(lo, hi, kl, kh, u1, u2)
  BY <1>2, <1>3, <1>4, <1>5, ChannelsLeft
<1>16. CASE (p1 > p2 \/ u1 > u2) /\ NoRow(lo, hi, kl, kh)
  <2>1. v1 > v2 \/ u1 > u2
    BY <1>8, <1>16 DEF Later, Sooner
  <2>2. Refused(Pass(c))
    BY <2>1, <1>13 DEF Refused, IsEmpty
  <2>3. \A p \in quantum_rate_profiles : ~Within(c, p)
    BY <1>12, <1>16, RowsAre DEF NoRow
  <2> QED  BY <1>11, <2>2, <2>3 DEF Settles
<1>17. CASE ChannelsFit(lo, hi, kl, kh, u1, u2)
  <2>1. RatesFit(lo, hi, kl, kh, v1, v2)
    BY <1>2, <1>7, <1>8, <1>17, RatesLeft
  <2>2. \A p \in quantum_rate_profiles : /\ p.rate \in Int /\ p.channels \in Int
    BY RowsAre DEF quantum_rates, quantum_channel_counts
  <2>3. ASSUME NEW p \in quantum_rate_profiles
        PROVE  Within(c, p) <=> Within(Pass(c), p)
    <3>1. Within(c, p) => Within(Pass(c), p)
      BY <1>12, <1>14, <1>17, <2>1, RowsAre DEF ChannelsFit, RatesFit
    <3>2. Within(Pass(c), p) => Within(c, p)
      BY <1>12, <1>14, <1>17, <2>1, <2>2 DEF ChannelsFit, RatesFit
    <3> QED  BY <3>1, <3>2
  <2>4. \E p \in quantum_rate_profiles : Within(c, p) /\ p.rate = v1
    <3>1. PICK k \in quantum_channel_counts : kl <= k /\ k <= kh /\ Row(v1, k)
      BY <2>1 DEF RatesFit
    <3>2. PICK p \in quantum_rate_profiles : p.rate = v1 /\ p.channels = k
      BY <3>1, RowsAre
    <3>3. lo <= v1 /\ v1 <= hi
      BY <2>1 DEF RatesFit
    <3> QED  BY <1>12, <3>1, <3>2, <3>3
  <2>5. \E p \in quantum_rate_profiles : Within(c, p) /\ p.rate = v2
    <3>1. PICK k \in quantum_channel_counts : kl <= k /\ k <= kh /\ Row(v2, k)
      BY <2>1 DEF RatesFit
    <3>2. PICK p \in quantum_rate_profiles : p.rate = v2 /\ p.channels = k
      BY <3>1, RowsAre
    <3>3. lo <= v2 /\ v2 <= hi
      BY <2>1 DEF RatesFit
    <3> QED  BY <1>12, <3>1, <3>2, <3>3
  <2>6. \E p \in quantum_rate_profiles : Within(c, p) /\ p.channels = u1
    <3>1. PICK r \in quantum_rates : lo <= r /\ r <= hi /\ Row(r, u1)
      BY <1>17 DEF ChannelsFit
    <3>2. PICK p \in quantum_rate_profiles : p.rate = r /\ p.channels = u1
      BY <3>1, RowsAre
    <3>3. kl <= u1 /\ u1 <= kh
      BY <1>17 DEF ChannelsFit
    <3> QED  BY <1>12, <3>1, <3>2, <3>3
  <2>7. \E p \in quantum_rate_profiles : Within(c, p) /\ p.channels = u2
    <3>1. PICK r \in quantum_rates : lo <= r /\ r <= hi /\ Row(r, u2)
      BY <1>17 DEF ChannelsFit
    <3>2. PICK p \in quantum_rate_profiles : p.rate = r /\ p.channels = u2
      BY <3>1, RowsAre
    <3>3. kl <= u2 /\ u2 <= kh
      BY <1>17 DEF ChannelsFit
    <3> QED  BY <1>12, <3>1, <3>2, <3>3
  <2> QED  BY <1>11, <1>13, <2>3, <2>4, <2>5, <2>6, <2>7 DEF Settles
<1> QED  BY <1>15, <1>16, <1>17

LEMMA SettlesAgain ==
  ASSUME NEW c, NEW d \in Config, NEW e, Settles(c, d), Settles(d, e)
  PROVE  Settles(c, e)
<1>1. Refused(d) => \A p \in quantum_rate_profiles : ~Within(d, p)
  <2> SUFFICES ASSUME Refused(d), NEW p \in quantum_rate_profiles, Within(d, p) PROVE FALSE
    OBVIOUS
  <2>1. p.rate \in Int /\ p.channels \in Int
    BY RowsAre DEF quantum_rates, quantum_channel_counts
  <2> QED  BY <2>1 DEF Refused, IsEmpty, Within, Test, Config
<1>2. CASE Refused(d) /\ \A p \in quantum_rate_profiles : ~Within(c, p)
  BY <1>1, <1>2 DEF Settles
<1>3. CASE \A p \in quantum_rate_profiles : Within(c, p) <=> Within(d, p)
  BY <1>3 DEF Settles
<1> QED  BY <1>2, <1>3 DEF Settles

(* Hence so do all passes of a refinement. *)
LEMMA RefinedSettles ==
  ASSUME NEW c \in Config
  PROVE  Refined(c) \in Config /\ Settles(c, Refined(c))
<1> DEFINE After(f) == f = [n \in 0..MaxPasses |-> IF n = 0 THEN c ELSE Pass(f[n - 1])]
           after == CHOOSE f : After(f)
           c1 == Pass(c)
           c2 == Pass(c1)
           c3 == Pass(c2)
           c4 == Pass(c3)
           g == [n \in 0..MaxPasses |-> IF n = 0 THEN c ELSE IF n = 1 THEN c1
                                        ELSE IF n = 2 THEN c2 ELSE IF n = 3 THEN c3 ELSE c4]
<1>1. Refined(c) = after[4]
  BY DEF Refined, MaxPasses
<1>2. After(g)
  <2> HIDE DEF g
  <2>1. /\ DOMAIN g = 0..MaxPasses /\ g = [n \in 0..MaxPasses |-> g[n]]
        /\ g[0] = c /\ g[1] = c1 /\ g[2] = c2 /\ g[3] = c3 /\ g[4] = c4
    BY DEF g, MaxPasses
  <2>2. \A n \in 0..MaxPasses : g[n] = IF n = 0 THEN c ELSE Pass(g[n - 1])
    <3>1. \A n \in 0..MaxPasses : n = 0 \/ n = 1 \/ n = 2 \/ n = 3 \/ n = 4
      BY DEF MaxPasses
    <3> QED  BY <2>1, <3>1
  <2> QED  BY <2>1, <2>2
<1>3. After(after)
  <2> HIDE DEF After
  <2> QED  BY <1>2
<1>4. \A n \in 0..4 : after[n] = IF n = 0 THEN c ELSE Pass(after[n - 1])
  <2> HIDE DEF after
  <2> QED  BY <1>3 DEF MaxPasses
<1> HIDE DEF after, After, g
<1>5. /\ after[0] = c /\ after[1] = Pass(after[0]) /\ after[2] = Pass(after[1])
      /\ after[3] = Pass(after[2]) /\ after[4] = Pass(after[3])
  BY <1>4
<1>6. after[1] \in Config /\ Settles(c, after[1])
  BY <1>5, PassSettles
<1>7. after[2] \in Config /\ Settles(c, after[2])
  BY <1>5, <1>6, PassSettles, SettlesAgain
<1>8. after[3] \in Config /\ Settles(c, after[3])
  BY <1>5, <1>7, PassSettles, SettlesAgain
<1>9. after[4] \in Config /\ Settles(c, after[4])
  BY <1>5, <1>8, PassSettles, SettlesAgain
<1> QED  BY <1>1, <1>9

---------------------------------------------------------------------------
LEMMA HullOfEnds ==
  ASSUME NEW S, NEW top \in Nat, S \subseteq 1..top,
         NEW a \in S, NEW b \in S, \A x \in S : a <= x /\ x <= b
  PROVE  Hull(S) = Interval(a, b)
<1>1. PICK x, y \in Int : Hull(S) = Interval(x, y) /\ HullOf(S, x, y)
  BY HullIs
<1>2. x \in S /\ y \in S /\ \A z \in S : x <= z /\ z <= y
  BY <1>1 DEF HullOf
<1>3. x = a /\ y = b
  BY <1>2
<1> QED  BY <1>1, <1>3

(* Whatever intervals of integers a client asks for, it is refused only if *)
(* no row of the table fits, and else is left with the bounds of the rows  *)
(* that do and is given one of them.                                       *)
THEOREM RulesFollowRows ==
  ASSUME NEW c \in Config
  PROVE  RulesFollow(c)
<1> DEFINE fits == {p \in quantum_rate_profiles : Test(c.rates, p.rate) /\ Test(c.channels, p.channels)}
           left == Refined(c)
           fitCounts == {p.channels : p \in fits}
           fitRates == {p.rate : p \in fits}
<1>1. \A p : p \in fits <=> p \in quantum_rate_profiles /\ Within(c, p)
  BY DEF Within
<1>2. left \in Config /\ Settles(c, left)
  BY RefinedSettles
<1>3. PICK top \in Nat : \A p \in quantum_rate_profiles : p.rate \in 1..top /\ p.channels \in 1..top
  BY SmallLists
<1> HIDE DEF left, fits
<1>4. CASE fits = {}
  <2>1. Refused(left)
    BY <1>1, <1>2, <1>4 DEF Settles
  <2> QED  BY <1>4, <2>1 DEF RulesFollow, fits, left
<1>5. CASE fits # {}
  <2>1. /\ \A p \in quantum_rate_profiles : Within(c, p) <=> Within(left, p)
        /\ \E p \in fits : p.rate = left.rates.min
        /\ \E p \in fits : p.rate = left.rates.max
        /\ \E p \in fits : p.channels = left.channels.min
        /\ \E p \in fits : p.channels = left.channels.max
    BY <1>1, <1>2, <1>5 DEF Settles
  <2>2. \A p \in fits : /\ left.rates.min <= p.rate /\ p.rate <= left.rates.max
                        /\ left.channels.min <= p.channels /\ p.channels <= left.channels.max
    BY <1>1, <2>1 DEF Within, Test
  <2>3. Hull(fitRates) = Interval(left.rates.min, left.rates.max)
    <3>1. fitRates \subseteq 1..top
      BY <1>1, <1>3
    <3>2. left.rates.min \in fitRates /\ left.rates.max \in fitRates
      BY <2>1
    <3>3. \A x \in fitRates : left.rates.min <= x /\ x <= left.rates.max
      BY <2>2
    <3> HIDE DEF fitRates
    <3> QED  BY <3>1, <3>2, <3>3, HullOfEnds
  <2>4. Hull(fitCounts) = Interval(left.channels.min, left.channels.max)
    <3>1. fitCounts \subseteq 1..top
      BY <1>1, <1>3
    <3>2. left.channels.min \in fitCounts /\ left.channels.max \in fitCounts
      BY <2>1
    <3>3. \A x \in fitCounts : left.channels.min <= x /\ x <= left.channels.max
      BY <2>2
    <3> HIDE DEF fitCounts
    <3> QED  BY <3>1, <3>2, <3>3, HullOfEnds
  <2>5. left = [rates |-> Hull(fitRates), channels |-> Hull(fitCounts)]
    <3> HIDE DEF fitRates, fitCounts
    <3>1. left = [rates |-> Interval(left.rates.min, left.rates.max),
                  channels |-> Interval(left.channels.min, left.channels.max)]
      BY <1>2 DEF Config, Interval
    <3> QED  BY <2>3, <2>4, <3>1
  <2>6. Chosen(left) \in fits
    <3> DEFINE least == left.channels.min
               fewer == [left EXCEPT !.channels = Interval(@.min, @.min)]
               given == Refined(fewer)
    <3>1. least \in Int /\ fewer \in Config
      BY <1>2 DEF Config, Interval
    <3>2. given \in Config /\ Settles(fewer, given)
      <4> HIDE DEF fewer
      <4> QED  BY <3>1, RefinedSettles
    <3>3. \A p : p.channels \in Int => (Within(fewer, p) <=> Test(left.rates, p.rate) /\ p.channels = least)
      BY <1>2, <3>1 DEF Within, Test, Interval, Config
    <3>4. PICK p \in fits : p.channels = least
      BY <2>1
    <3>5. \A q \in quantum_rate_profiles : q.channels \in Int
      BY <1>3
    <3>6. Within(fewer, p)
      BY <1>1, <2>1, <3>3, <3>4, <3>5 DEF Within
    <3> HIDE DEF fewer, given
    <3>7. /\ \E q \in quantum_rate_profiles : Within(fewer, q) /\ q.rate = given.rates.min
          /\ \E q \in quantum_rate_profiles : Within(fewer, q) /\ q.channels = given.channels.min
      BY <1>1, <3>2, <3>4, <3>6 DEF Settles
    <3>8. given.channels.min = least
      BY <3>3, <3>5, <3>7
    <3>9. PICK q \in quantum_rate_profiles : Within(fewer, q) /\ q.rate = given.rates.min
      BY <3>7
    <3>10. q.channels = least /\ Test(left.rates, q.rate)
      BY <3>3, <3>5, <3>9
    <3>11. Test(left.channels, p.channels)
      BY <1>1, <2>1, <3>4 DEF Within
    <3>12. Within(left, q)
      BY <3>4, <3>10, <3>11 DEF Within
    <3>13. q \in fits
      BY <1>1, <2>1, <3>12
    <3>14. q = Profile(q.rate, q.channels)
      BY DEF Profile, quantum_rate_profiles
    <3>15. Chosen(left) = Profile(given.rates.min, given.channels.min)
      BY DEF Chosen, given, fewer
    <3> QED  BY <3>8, <3>9, <3>10, <3>13, <3>14, <3>15
  <2> HIDE DEF fitRates, fitCounts
  <2> QED  BY <1>5, <2>5, <2>6 DEF RulesFollow, fits, left, fitRates, fitCounts
<1> QED  BY <1>4, <1>5

LEMMA ClientsAsk == Configs \subseteq Config
<1>1. \A list \in {quantum_rates, quantum_channel_counts} : Intervals(list) \subseteq [min : Int, max : Int]
  <2>1. \A list \in {quantum_rates, quantum_channel_counts} : \A n \in Ends(list) : n \in Int
    BY DEF Ends, quantum_rates, quantum_channel_counts
  <2> QED  BY <2>1 DEF Intervals, Interval
<1> QED  BY <1>1 DEF Configs, Config

(* The rules that a client who has the card open meets never leave it a    *)
(* pair of rate and channel count that hw_params turns down.               *)
THEOREM RulesAlwaysMatch == Spec => []RulesMatchProfiles
<1>1. RulesMatchProfiles
  BY RulesFollowRows, ClientsAsk DEF RulesMatchProfiles, RulesFollowProfiles
<1> QED  BY <1>1, PTL
=============================================================================
