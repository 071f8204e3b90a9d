----------------------------- MODULE RateControl -----------------------------
(* The sample rate as the driver remembers it and as the device has it:    *)
(* what snd_quantum_create reads, how quantum_pcm_hw_params changes it     *)
(* step by step, and a device that may refuse a change, make it without    *)
(* an answer, make it long after the driver has given up, and move its     *)
(* channel register later than its rate.  The driver sees the device       *)
(* through the mailbox, whose requests are answered in order (TciMailbox). *)
EXTENDS PcmRules, Sequences

CONSTANTS
  Rates,         (* the rates that the device and its clients use           *)
  MaxLate        (* changes that may be outstanding when they are given up  *)

ASSUME RatesAssumption == Rates \subseteq quantum_rates
ASSUME MaxLateAssumption == MaxLate \in Nat

NoRate == 0

VARIABLES
  audio_rate,    (* the driver's; audio_channels is Channels(audio_rate)    *)
  asked,         (* the rate that hw_params is asked for                    *)
  setting,       (* its step: "idle", "clock", "set", "verify", "wait",     *)
                 (* or "build" when the rate is right                       *)
  unsure,        (* history: a change has failed since the last that did    *)
                 (* not, or since the probe                                 *)
  clock,         (* the device's clock source: "internal" or "external"     *)
  device_rate,   (* its rate                                                *)
  shown,         (* its channel register                                    *)
  late           (* changes that it will come to although nobody waits      *)

driver_rate == <<audio_rate, asked, setting, unsure>>
device_side == <<clock, device_rate, shown, late>>
rates       == <<driver_rate, device_side>>

RatesInit ==
  /\ audio_rate = NoRate /\ asked = NoRate /\ setting = "idle" /\ unsure = FALSE
  /\ clock \in {"internal", "external"}
  /\ device_rate \in Rates /\ shown = Channels(device_rate) /\ late = <<>>

---------------------------------------------------------------------------
(* The private data of a new card is zeroed. *)
ForgetRate ==
  /\ audio_rate' = NoRate /\ asked' = NoRate /\ setting' = "idle" /\ unsure' = FALSE
  /\ UNCHANGED device_side

(* quantum_tci_probe_control, when it does not fail: the device answers,   *)
(* and so has done what it was asked before, and its register agrees.      *)
ReadRate ==
  /\ late = <<>> /\ shown = Channels(device_rate)
  /\ audio_rate' = device_rate
  /\ UNCHANGED <<asked, setting, unsure, device_side>>

ChannelsMatch == shown = Channels(audio_rate)

(* quantum_pcm_hw_params asks the device only for another rate than the    *)
(* remembered one.                                                         *)
Changing(rate) == audio_rate # rate
AskRate(rate) ==
  /\ setting = "idle"
  /\ asked' = rate
  /\ setting' = IF ~Changing(rate) THEN "build" ELSE IF clock = "internal" THEN "set" ELSE "clock"
  /\ UNCHANGED <<audio_rate, unsure, device_side>>

Step(next) == setting' = next /\ UNCHANGED <<audio_rate, asked>>
Fails == setting' = "idle" /\ asked' = NoRate /\ UNCHANGED audio_rate

(* An external clock has to run at the rate; it is whatever it is when it  *)
(* is read.                                                                *)
CheckClock ==
  /\ setting = "clock"
  /\ \/ late = <<>> /\ Step("set")
     \/ Fails
  /\ UNCHANGED <<unsure, device_side>>

(* The request is answered after all earlier ones, and a status of zero is *)
(* not yet proof of a change; or its answer is bad or lost; or it is given *)
(* up before the device has come to it, which it may do later.             *)
SetRate ==
  /\ setting = "set"
  /\ \/ /\ late = <<>>
        /\ device_rate' \in {asked, device_rate}
        /\ Step("verify") /\ UNCHANGED <<unsure, late>>
     \/ /\ late = <<>>
        /\ device_rate' \in {asked, device_rate}
        /\ Fails /\ unsure' = TRUE /\ UNCHANGED late
     \/ /\ late' \in {late} \cup (IF Len(late) < MaxLate THEN {Append(late, asked)} ELSE {})
        /\ Fails /\ unsure' = TRUE /\ UNCHANGED device_rate
  /\ UNCHANGED <<clock, shown>>

VerifyTrusting ==
  /\ setting = "verify"
  /\ \/ Step("wait") /\ UNCHANGED unsure
     \/ Fails /\ unsure' = TRUE
  /\ UNCHANGED device_side
Verify ==
  /\ setting = "verify"
  /\ \/ device_rate = asked /\ Step("wait") /\ UNCHANGED unsure
     \/ Fails /\ unsure' = TRUE
  /\ UNCHANGED device_side

(* A hundred looks at the channel register. *)
Wait ==
  /\ setting = "wait"
  /\ \/ /\ shown = Channels(asked)
        /\ audio_rate' = asked /\ setting' = "build" /\ unsure' = FALSE
        /\ UNCHANGED asked
     \/ /\ shown # Channels(asked)
        /\ Fails /\ unsure' = TRUE
  /\ UNCHANGED device_side

Built == setting = "build" /\ Fails /\ UNCHANGED <<unsure, device_side>>

Setter == CheckClock \/ SetRate \/ Verify \/ Wait

---------------------------------------------------------------------------
(* The device comes to a change that nobody waits for, and makes it or     *)
(* not; and its register follows its rate.                                 *)
DeviceLate ==
  /\ late # <<>>
  /\ late' = Tail(late)
  /\ device_rate' \in {Head(late), device_rate}
  /\ UNCHANGED <<driver_rate, clock, shown>>

DeviceShows ==
  /\ shown # Channels(device_rate)
  /\ shown' = Channels(device_rate)
  /\ UNCHANGED <<driver_rate, clock, device_rate, late>>
=============================================================================
