----------------------------- MODULE Lifecycle -----------------------------
(* Probing and removing a Quantum 2626: snd_quantum_probe, what it undoes  *)
(* when a step fails, snd_quantum_remove and snd_quantum_free, against the *)
(* interrupt handler, one client that plays, and a device that may ignore  *)
(* a request to stop.  The mailbox and the engine are seen from outside    *)
(* here: TciMailbox and DuplexEngine have their steps.                     *)
EXTENDS DmaTable, RateControl

CONSTANTS
  Cards,             (* SNDRV_CARDS                                         *)
  BufferBytes,       (* sizes of the audio buffers                          *)
  SegmentSizes       (* what the device may report as addresses per segment *)

ASSUME CardsAssumption == Cards \in Nat
ASSUME SizesAssumption == BufferBytes \subseteq Nat \ {0} /\ SegmentSizes \subseteq Nat

Resources == {"card", "device", "regions", "mapping", "slots", "vectors", "irq", "pcm"}
NoTables == [bytes |-> 0, capture |-> 0, playback |-> 0]

VARIABLES
  pc,                (* the PCI core's call: "idle", "bound", or a step     *)
  dev,               (* the static counter of snd_quantum_probe             *)
  enable,            (* the module parameter                                *)
  held,              (* resource -> acquisitions less releases              *)
  master,            (* PCI bus mastering                                   *)
  irq_requested, msi_allocated, tci_started,
  private_free,      (* card->private_free is set                           *)
  registered,        (* clients can open the card                           *)
  client,            (* "closed" or "open"                                  *)
  tables,            (* buffer size and segment sizes of both tables        *)
  engine,            (* audio_engine_running                                *)
  handler,           (* "out", "entered" or "reporting"                     *)
  mailbox, audio     (* the device's two DMA engines: "stopped", "running", *)
                     (* "stuck" after a stop that was ignored, or           *)
                     (* "previous" when that was in an earlier load         *)

flags  == <<irq_requested, msi_allocated, tci_started, private_free>>
device == <<mailbox, audio>>
user   == <<registered, client, tables, engine>>
vars   == <<pc, dev, enable, held, master, flags, user, handler, device, rates>>

Acquire(r) == held' = [held EXCEPT ![r] = @ + 1]
Release(S) == held' = [r \in Resources |-> IF r \in S THEN held[r] - 1 ELSE held[r]]

Init ==
  /\ pc = "idle" /\ dev = 0 /\ enable \in [0..(Cards - 1) -> BOOLEAN]
  /\ held = [r \in Resources |-> 0] /\ master = FALSE
  /\ irq_requested = FALSE /\ msi_allocated = FALSE /\ tci_started = FALSE
  /\ private_free = FALSE
  /\ registered = FALSE /\ client = "closed" /\ tables = NoTables /\ engine = FALSE
  /\ handler = "out" /\ mailbox = "stopped" /\ audio = "stopped"
  /\ RatesInit

---------------------------------------------------------------------------
(* snd_quantum_probe up to the card.  A DMA engine that ignored a stop in  *)
(* an earlier load may still be running.                                   *)
Disabled ==
  /\ pc = "idle" /\ dev < Cards /\ ~enable[dev]
  /\ dev' = dev + 1
  /\ UNCHANGED <<pc, enable, held, master, flags, user, handler, device, rates>>

Carried(dma) == IF dma = "stuck" THEN "previous" ELSE dma

Probe ==
  /\ pc = "idle" /\ dev < Cards /\ enable[dev]
  /\ Acquire("card")
  /\ irq_requested' = FALSE /\ msi_allocated' = FALSE /\ tci_started' = FALSE
  /\ private_free' = FALSE
  /\ mailbox' = Carried(mailbox) /\ audio' = Carried(audio)
  /\ ForgetRate
  /\ pc' = "enable"
  /\ UNCHANGED <<dev, enable, master, user, handler>>

(* snd_quantum_create.  A failure goes on where the code jumps to. *)
To(next) == pc' = next /\ UNCHANGED <<dev, enable, user, handler>>

EnableDevice ==
  /\ pc = "enable"
  /\ \/ Acquire("device") /\ To("mask")
     \/ To("release") /\ UNCHANGED held
  /\ UNCHANGED <<master, flags, device, rates>>

SetMask ==
  /\ pc = "mask"
  /\ \/ To("regions") /\ master' = TRUE /\ UNCHANGED held
     \/ To("release") /\ Release({"device"}) /\ UNCHANGED master
  /\ UNCHANGED <<flags, device, rates>>

RequestRegionsJumps ==
  /\ pc = "regions"
  /\ \/ To("map") /\ Acquire("regions")
     \/ To("fail_regions") /\ UNCHANGED held
  /\ UNCHANGED <<master, flags, device, rates>>
RequestRegions ==
  /\ pc = "regions"
  /\ \/ To("map") /\ Acquire("regions") /\ UNCHANGED master
     \/ To("release") /\ Release({"device"}) /\ master' = FALSE
  /\ UNCHANGED <<flags, device, rates>>

Map ==
  /\ pc = "map"
  /\ \/ To("mailbox") /\ Acquire("mapping")
     \/ To("fail_regions") /\ UNCHANGED held
  /\ UNCHANGED <<master, flags, device, rates>>

StartMailbox ==
  /\ pc = "mailbox"
  /\ \/ To("control") /\ Acquire("slots") /\ mailbox' = "running" /\ tci_started' = TRUE
     \/ To("fail_iomap") /\ UNCHANGED <<held, mailbox, tci_started>>
  /\ UNCHANGED <<master, irq_requested, msi_allocated, private_free, audio, rates>>

ProbeControl ==
  /\ pc = "control"
  /\ \/ To("vectors") /\ ReadRate
     \/ To("fail_tci") /\ UNCHANGED rates
  /\ UNCHANGED <<held, master, flags, device>>

AllocVectors ==
  /\ pc = "vectors"
  /\ \/ Acquire("vectors") /\ msi_allocated' = TRUE
     \/ UNCHANGED <<held, msi_allocated>>
  /\ To("irq")
  /\ UNCHANGED <<master, irq_requested, tci_started, private_free, device, rates>>

RequestIrqKeepsVectors ==
  /\ pc = "irq"
  /\ private_free' = TRUE
  /\ \/ /\ Acquire("irq") /\ irq_requested' = TRUE /\ To("pcm")
        /\ UNCHANGED msi_allocated
     \/ /\ msi_allocated' = FALSE /\ To("register")
        /\ UNCHANGED <<held, irq_requested>>
  /\ UNCHANGED <<master, tci_started, device, rates>>

(* Without an interrupt the vectors are given back and the card has no PCM.*)
(* create succeeds in any case, and probe sets private_free.               *)
RequestIrq ==
  /\ pc = "irq"
  /\ private_free' = TRUE
  /\ \/ /\ Acquire("irq") /\ irq_requested' = TRUE /\ To("pcm")
        /\ UNCHANGED msi_allocated
     \/ /\ IF msi_allocated THEN Release({"vectors"}) ELSE UNCHANGED held
        /\ msi_allocated' = FALSE /\ To("register")
        /\ UNCHANGED irq_requested
  /\ UNCHANGED <<master, tci_started, device, rates>>

(* Building the PCM may fail before or after the PCM exists. *)
NewPcm ==
  /\ pc = "pcm"
  /\ \/ To("register") /\ Acquire("pcm")
     \/ To("release") /\ Acquire("pcm")
     \/ To("release") /\ UNCHANGED held
  /\ UNCHANGED <<master, flags, device, rates>>

Register ==
  /\ pc = "register"
  /\ \/ pc' = "bound" /\ registered' = TRUE /\ dev' = dev + 1
     \/ pc' = "release" /\ UNCHANGED <<registered, dev>>
  /\ UNCHANGED <<enable, held, master, flags, client, tables, engine, handler, device, rates>>

---------------------------------------------------------------------------
(* Stopping the two DMA engines: one that ignores the request loses the    *)
(* bus.                                                                    *)
StopAudioKeepingBus ==
  /\ engine' = FALSE /\ UNCHANGED master
  /\ IF engine THEN audio' \in {"stopped", "stuck"} ELSE UNCHANGED audio
StopAudio ==
  /\ engine' = FALSE
  /\ IF engine
       THEN \/ audio' = "stopped" /\ UNCHANGED master
            \/ audio' = "stuck" /\ master' = FALSE
       ELSE UNCHANGED <<audio, master>>

StopMailbox ==
  /\ tci_started' = FALSE
  /\ IF tci_started
       THEN \/ mailbox' = "stopped" /\ UNCHANGED master
            \/ mailbox' = "stuck" /\ master' = FALSE
       ELSE UNCHANGED <<mailbox, master>>
  /\ IF held["slots"] = 1 THEN Release({"slots"}) ELSE UNCHANGED held

(* The labels at the end of snd_quantum_create. *)
FailTci ==
  /\ pc = "fail_tci"
  /\ StopMailbox
  /\ To("fail_iomap")
  /\ UNCHANGED <<irq_requested, msi_allocated, private_free, audio, rates>>

FailIomap ==
  /\ pc = "fail_iomap"
  /\ Release({"mapping"})
  /\ To("fail_regions")
  /\ UNCHANGED <<master, flags, device, rates>>

FailRegions ==
  /\ pc = "fail_regions"
  /\ Release({"regions", "device"}) /\ master' = FALSE
  /\ To("release")
  /\ UNCHANGED <<flags, device, rates>>

---------------------------------------------------------------------------
RemoveLeavesPlaying ==
  /\ pc = "bound"
  /\ registered' = FALSE
  /\ pc' = "disconnected"
  /\ UNCHANGED <<dev, enable, held, master, flags, client, tables, engine, handler, device, rates>>

(* snd_quantum_remove, and the release of the managed card after a failed  *)
(* probe.  snd_card_free disconnects: it stops what plays and waits for    *)
(* every client to close.                                                  *)
Remove ==
  /\ pc = "bound"
  /\ registered' = FALSE
  /\ StopAudio
  /\ pc' = "disconnected"
  /\ UNCHANGED <<dev, enable, held, flags, client, tables, handler, mailbox, rates>>

ClientsGone ==
  /\ pc = "disconnected" /\ client = "closed"
  /\ To("release")
  /\ UNCHANGED <<held, master, flags, device, rates>>

(* snd_card_do_free: the card's devices, private_free, the card. *)
FreeCard ==
  /\ pc = "release"
  /\ IF private_free
       THEN To("free_stop") /\ Release({r \in {"pcm"} : held[r] = 1})
       ELSE To("idle") /\ Release({"card"})
  /\ UNCHANGED <<master, flags, device, rates>>

(* snd_quantum_free. *)
FreeStop ==
  /\ pc = "free_stop"
  /\ StopAudio
  /\ pc' = "free_irq"
  /\ UNCHANGED <<dev, enable, held, flags, registered, client, tables, handler, mailbox, rates>>

(* free_irq takes the handler off the line and then waits for it. *)
FreeIrq ==
  /\ pc = "free_irq"
  /\ IF irq_requested THEN Release({"irq"}) /\ To("free_irq_wait")
                      ELSE To("free_tables") /\ UNCHANGED held
  /\ UNCHANGED <<master, flags, device, rates>>

FreeIrqReturnsAtOnce ==
  /\ pc = "free_irq_wait"
  /\ irq_requested' = FALSE
  /\ To("free_tables")
  /\ UNCHANGED <<held, master, msi_allocated, tci_started, private_free, device, rates>>
FreeIrqWaits ==
  /\ pc = "free_irq_wait" /\ handler = "out"
  /\ irq_requested' = FALSE
  /\ To("free_tables")
  /\ UNCHANGED <<held, master, msi_allocated, tci_started, private_free, device, rates>>

FreeTables ==
  /\ pc = "free_tables"
  /\ tables' = NoTables
  /\ IF msi_allocated THEN Release({"vectors"}) ELSE UNCHANGED held
  /\ pc' = "free_mailbox"
  /\ UNCHANGED <<dev, enable, master, flags, registered, client, engine, handler, device, rates>>

FreeMailbox ==
  /\ pc = "free_mailbox"
  /\ StopMailbox
  /\ To("free_pci")
  /\ UNCHANGED <<irq_requested, msi_allocated, private_free, audio, rates>>

FreePci ==
  /\ pc = "free_pci"
  /\ Release({"mapping", "regions", "device", "card"}) /\ master' = FALSE
  /\ To("idle")
  /\ UNCHANGED <<flags, device, rates>>

---------------------------------------------------------------------------
(* A client of the card.  It opens only while the channel register agrees  *)
(* with the remembered rate.                                               *)
Open ==
  /\ registered /\ held["pcm"] = 1 /\ client = "closed" /\ ChannelsMatch
  /\ client' = "open"
  /\ UNCHANGED <<pc, dev, enable, held, master, flags, registered, tables, engine, handler, device, rates>>

(* hw_params up to the setter: a change of rate frees the tables first.    *)
HwParamsKeepsTables ==
  /\ registered /\ client = "open" /\ ~engine /\ handler = "out"
  /\ \E p \in Offers : p.rate \in Rates /\ Accepted(p) /\ AskRate(p.rate)
  /\ UNCHANGED <<pc, dev, enable, held, master, flags, user, handler, device>>
HwParams ==
  /\ registered /\ client = "open" /\ ~engine /\ handler = "out"
  /\ \E p \in Offers :
       /\ p.rate \in Rates /\ Accepted(p) /\ AskRate(p.rate)
       /\ tables' = IF Changing(p.rate) THEN NoTables ELSE tables
  /\ UNCHANGED <<pc, dev, enable, held, master, flags, registered, client, engine, handler, device>>

SetRateStep ==
  /\ Setter
  /\ UNCHANGED <<pc, dev, enable, held, master, flags, user, handler, device>>

(* Its end: the old tables are freed, and new ones that cannot be built,   *)
(* or that an allocation fails for, leave none.                            *)
BuildTables ==
  /\ Built
  /\ \/ \E bytes \in BufferBytes, capture, playback \in SegmentSizes :
          /\ Accepts(capture) /\ Accepts(playback)
          /\ tables' = [bytes |-> bytes, capture |-> capture, playback |-> playback]
     \/ tables' = NoTables
  /\ UNCHANGED <<pc, dev, enable, held, master, flags, registered, client, engine, handler, device>>

Start ==
  /\ registered /\ client = "open" /\ ~engine /\ tables # NoTables /\ setting = "idle"
  /\ engine' = TRUE /\ audio' = "running"
  /\ UNCHANGED <<pc, dev, enable, held, master, flags, registered, client, tables, handler, mailbox, rates>>

Stop ==
  /\ client = "open" /\ engine
  /\ StopAudio
  /\ UNCHANGED <<pc, dev, enable, held, flags, registered, client, tables, handler, mailbox, rates>>

(* Closing frees the parameters: quantum_pcm_hw_free waits for the handler.*)
Close ==
  /\ client = "open" /\ ~engine /\ handler = "out" /\ setting = "idle"
  /\ client' = "closed" /\ tables' = NoTables
  /\ UNCHANGED <<pc, dev, enable, held, master, flags, registered, engine, handler, device, rates>>

(* The handler may be called at any time while it is on the line, which it *)
(* can share with other devices.                                           *)
HandlerEnter ==
  /\ held["irq"] = 1 /\ handler = "out"
  /\ handler' = "entered"
  /\ UNCHANGED <<pc, dev, enable, held, master, flags, user, device, rates>>

HandlerPick ==
  /\ handler = "entered"
  /\ handler' = IF engine THEN "reporting" ELSE "out"
  /\ UNCHANGED <<pc, dev, enable, held, master, flags, user, device, rates>>

(* snd_pcm_period_elapsed, which finds an underrun or not. *)
HandlerReport ==
  /\ handler = "reporting"
  /\ handler' = "out"
  /\ StopAudio \/ UNCHANGED <<engine, audio, master>>
  /\ UNCHANGED <<pc, dev, enable, held, flags, registered, client, tables, mailbox, rates>>

(* A DMA engine that ignored a stop may stop after all. *)
DeviceStops ==
  /\ \/ audio \in {"stuck", "previous"} /\ audio' = "stopped" /\ UNCHANGED mailbox
     \/ mailbox \in {"stuck", "previous"} /\ mailbox' = "stopped" /\ UNCHANGED audio
  /\ UNCHANGED <<pc, dev, enable, held, master, flags, user, handler, rates>>

(* Its rate and its channel register move on their own. *)
DeviceMoves ==
  /\ DeviceLate \/ DeviceShows
  /\ UNCHANGED <<pc, dev, enable, held, master, flags, user, handler, device>>

Create ==
  \/ EnableDevice \/ SetMask \/ RequestRegions \/ Map \/ StartMailbox
  \/ ProbeControl \/ AllocVectors \/ RequestIrq \/ NewPcm \/ Register
Free ==
  \/ FailTci \/ FailIomap \/ FailRegions \/ ClientsGone \/ FreeCard
  \/ FreeStop \/ FreeIrq \/ FreeIrqWaits \/ FreeTables \/ FreeMailbox \/ FreePci
Client  == Open \/ HwParams \/ Start \/ Stop \/ Close
Params  == SetRateStep \/ BuildTables
Handler == HandlerPick \/ HandlerReport

Next ==
  \/ Disabled \/ Probe \/ Remove \/ Create \/ Free
  \/ Client \/ Params \/ HandlerEnter \/ Handler \/ DeviceStops \/ DeviceMoves

(* The PCI core's call and the handler run on, and so does hw_params, whose*)
(* waits all end.  A client that was cut off closes, and the               *)
(* synchronize_irq in that sees a line that is quiet again and again.      *)
Fairness ==
  /\ WF_vars(Create) /\ WF_vars(Free) /\ WF_vars(Handler) /\ WF_vars(Params)
  /\ SF_vars(Close /\ ~registered)
Spec == Init /\ [][Next]_vars /\ Fairness

---------------------------------------------------------------------------
(* Types.  A resource that is released twice is held less than no times.   *)
TypeOK ==
  /\ dev \in 0..Cards
  /\ held \in [Resources -> {0, 1}]
  /\ engine => tables # NoTables /\ client = "open"
  /\ registered => pc = "bound"
  /\ setting # "idle" => client = "open" /\ ~engine /\ tci_started
  /\ {audio_rate, asked} \subseteq Rates \cup {NoRate} /\ device_rate \in Rates

(* The handler runs only while the registers are mapped and the card with  *)
(* its lock exists, also when it entered just before free_irq, and reports *)
(* to substreams only while the PCM exists.                                *)
HandlerFindsAll ==
  /\ handler # "out" => held["mapping"] = 1 /\ held["card"] = 1
  /\ handler = "reporting" => held["pcm"] = 1 /\ client = "open"

(* Whatever stops in time or not, a DMA engine that this load started and  *)
(* that has the bus has its memory, and nobody has the bus when the device *)
(* is disabled.                                                            *)
MemoryOutlivesDma ==
  /\ master /\ audio \in {"running", "stuck"} => tables # NoTables
  /\ master /\ mailbox \in {"running", "stuck"} => held["slots"] = 1
  /\ master => held["device"] = 1

(* After a failed probe, wherever it failed, and after a removal nothing   *)
(* is left of the load: no resource, no table, no bus, no engine.          *)
NothingLeaks ==
  pc = "idle" =>
    /\ \A r \in Resources : held[r] = 0
    /\ tables = NoTables /\ ~master /\ ~engine /\ handler = "out"
    /\ mailbox # "running" /\ audio # "running"

(* A device that follows a table meets every page of the buffer once and   *)
(* in order, and then the end, whether or not the last segment is full.    *)
TablesReachBuffer ==
  tables # NoTables =>
    \A per \in {tables.capture, tables.playback} :
      Walk(Table(tables.bytes, per), per, Segments(tables.bytes, per))
        = [n \in 1..Pages(tables.bytes) |-> n - 1]

(* After a change of rate that did not fail, and none that failed since,   *)
(* driver and device agree on it whenever tables are built or a stream     *)
(* plays, and no forgotten request can still take that away; tables are    *)
(* never there while the rate is being changed.                            *)
RateIsKnown ==
  /\ audio_rate # NoRate /\ setting \in {"idle", "build"} /\ ~unsure =>
       device_rate = audio_rate /\ ChannelsMatch /\ late = <<>>
  /\ setting = "build" => asked = audio_rate
  /\ setting \notin {"idle", "build"} => tables = NoTables

(* The device never changes its rate under tables, whose channel count     *)
(* would be wrong, but after a change that failed.                         *)
RateMovesWithoutTables ==
  [][device_rate' # device_rate => tables = NoTables \/ unsure]_vars

(* Whatever intervals of rates and channel counts a client that could open *)
(* asks for, it is refused only if no row of the table is in them, what is *)
(* left for it are the bounds of the rows that are, and it is given one of *)
(* them: the two rules and the lists, each of which knows one side only,   *)
(* never leave a pair that hw_params turns down.                           *)
RulesFollow(c) ==
  LET fits == {p \in quantum_rate_profiles : Test(c.rates, p.rate) /\ Test(c.channels, p.channels)}
      left == Refined(c)
  IN  IF fits = {} THEN Refused(left)
      ELSE /\ left = [rates    |-> Hull({p.rate : p \in fits}),
                      channels |-> Hull({p.channels : p \in fits})]
           /\ Chosen(left) \in fits
RulesFollowProfiles == \A c \in Configs : RulesFollow(c)
RulesMatchProfiles == client = "open" => RulesFollowProfiles

(* A probe and a removal end, though a client plays, the handler runs and  *)
(* the device ignores its stops.                                           *)
CallsEnd == pc \notin {"idle", "bound"} ~> pc \in {"idle", "bound"}
=============================================================================
