----------------------------- MODULE TciMailbox -----------------------------
(***************************************************************************)
(* The TCI command mailbox of snd-quantum2626: two rings of message slots  *)
(* in host memory, one for requests and one for responses, each with a     *)
(* position register of the host and one of the device.  The driver starts *)
(* the mailbox at probe, drains what an earlier load may have left behind, *)
(* makes one request at a time and stops the mailbox at unload.  Requests  *)
(* come from probe and from hw_params under audio_mutex, so tci_lock is    *)
(* never contended and the host is one process.                            *)
(*                                                                         *)
(* The device is modelled from how the driver uses it: it answers in       *)
(* order, late or never, sends events of its own, may ignore a stop, and   *)
(* may keep an answer across a stop and a later start.  Every message has  *)
(* a mark that says who waits for it, which the driver does not see.       *)
(***************************************************************************)
EXTENDS Naturals, Sequences

CONSTANTS
  Slots,       (* slots of each ring, from TCI_CONFIG                        *)
  TidSpace,    (* transaction ids are counted modulo this, 2^16 in the code  *)
  Codes,       (* the requests; a response is known by its request's code    *)
  MaxPending   (* requests the device accepts before it answers the first    *)

ASSUME SlotsAssumption   == Slots \in 1..16
ASSUME PendingAssumption == MaxPending \in Nat \ {0}
(* Requests that are under way together have different ids: at most a ring  *)
(* and what the device has accepted were given up before the current one.  *)
ASSUME TidAssumption     == TidSpace \in Nat /\ TidSpace >= Slots + MaxPending

VARIABLES
  pc, tci_started,
  slots,                    (* slot memory is allocated                      *)
  addresses,                (* the address registers point to it             *)
  tci_next_transaction_id,
  request,                  (* the request in progress                       *)
  skipped,                  (* messages this operation drained or skipped    *)
  result,                   (* who waited for what the last request returned *)
  tx_host, tx_device, rx_host, rx_device,   (* position registers            *)
  tx, rx,                   (* contents of the slots                         *)
  enabled,                  (* TCI_CONTROL                                   *)
  active,                   (* TCI_STATUS: the device may still use slots    *)
  master,                   (* PCI bus mastering                             *)
  pending,                  (* accepted requests the device has to answer    *)
  accepted                  (* how many it accepted in this load, mod TidSpace *)

memory    == <<slots, addresses, master>>
positions == <<tx_host, tx_device, rx_host, rx_device>>
rings     == <<positions, tx, rx>>
device    == <<enabled, active, pending, accepted>>
host      == <<pc, tci_started, tci_next_transaction_id, request, skipped, result>>
vars      == <<host, memory, rings, device>>

Positions == 0 .. Slots - 1
Tids      == 0 .. TidSpace - 1
NextPos(i) == (i + 1) % Slots

(* Bug: the transaction id stays the same. *)
NextTidSame(t) == t

NextTid(t) == (t + 1) % TidSpace

(* The request in progress, an earlier one of this load that was given up, *)
(* or one of an earlier load.                                              *)
Waiting == {"current", "given up", "previous load"}
(* A response may also be malformed, or have another code or length than   *)
(* its request asks for.                                                   *)
Kinds    == {"control", "malformed", "unexpected"}
Messages == [kind : Kinds, tid : Tids, code : Codes, waiting : Waiting]
Event    == [kind |-> "event"]   (* a message on another channel *)
Empty    == [kind |-> "empty"]
NoRequest == Empty

Labels == {"unloaded", "start", "unwind", "drain", "idle", "send", "receive",
           "stop", "poll", "cut off", "clear", "free", "release"}

Init ==
  /\ pc = "unloaded" /\ tci_started = FALSE
  /\ slots = FALSE /\ addresses = FALSE /\ master = FALSE
  /\ tci_next_transaction_id = 0 /\ request = NoRequest /\ skipped = 0 /\ result = "none"
  /\ tx_host = 0 /\ tx_device = 0 /\ rx_host = 0 /\ rx_device = 0
  /\ tx = [i \in Positions |-> Empty] /\ rx = [i \in Positions |-> Empty]
  /\ enabled = FALSE /\ active = FALSE /\ pending = <<>> /\ accepted = 0

(* Bug: the next position is not taken modulo the number of slots. *)
TxFullUnwrapped == tx_host + 1 = tx_device

TxFull  == NextPos(tx_host) = tx_device
RxEmpty == rx_device = rx_host

-----------------------------------------------------------------------------
(* snd_quantum_create, as far as the mailbox sees it: pci_set_master. *)
Load ==
  /\ pc = "unloaded"
  /\ pc' = "start" /\ master' = TRUE
  /\ UNCHANGED <<tci_started, slots, addresses, tci_next_transaction_id, request,
                 skipped, result, rings, device>>

(* quantum_tci_start: zeroed slots, host positions zero, then enable.  An  *)
(* enabled device begins with empty rings and with what it has to answer.  *)
Start ==
  /\ pc = "start"
  /\ slots' = TRUE /\ addresses' = TRUE
  /\ tx_host' = 0 /\ rx_host' = 0 /\ tx_device' = 0 /\ rx_device' = 0
  /\ tx' = [i \in Positions |-> Empty] /\ rx' = [i \in Positions |-> Empty]
  /\ enabled' = TRUE /\ active' = TRUE /\ accepted' = 0
  /\ pending' = [i \in 1 .. Len(pending) |-> [pending[i] EXCEPT !.waiting = "previous load"]]
  /\ tci_next_transaction_id' = 0 /\ tci_started' = TRUE
  /\ pc' = "drain"
  /\ UNCHANGED <<master, request, skipped, result>>

(* An allocation fails after none or some slots were programmed. *)
StartFails ==
  /\ pc = "start"
  /\ slots' \in BOOLEAN /\ addresses' = slots'
  /\ pc' = "unwind"
  /\ UNCHANGED <<master, tci_started, tci_next_transaction_id, request, skipped,
                 result, rings, device>>

(* What was programmed is cleared and what was allocated is freed, and     *)
(* create fails, which ends bus mastering.                                 *)
Unwind ==
  /\ pc = "unwind"
  /\ addresses' = FALSE /\ slots' = FALSE /\ tx_host' = 0 /\ rx_host' = 0
  /\ master' = FALSE /\ pc' = "unloaded"
  /\ UNCHANGED <<tci_started, tci_next_transaction_id, request, skipped, result,
                 tx_device, rx_device, tx, rx, device>>

-----------------------------------------------------------------------------
(* Bug: the position is not taken modulo the number of slots. *)
ConsumeUnwrapped == rx_host' = rx_host + 1

(* Release the oldest response slot; it is not read again before the       *)
(* device has written it.                                                  *)
Consume  == rx_host' = NextPos(rx_host)
Consumed == [rx EXCEPT ![rx_host] = Empty]

(* Bug: unrelated messages are not counted. *)
CountNothing == skipped' = skipped

Count == skipped' = skipped + 1

(* quantum_tci_drain_stale_rx, a message: more than a ring of them is an   *)
(* error, and probe stops the mailbox again.                               *)
Drain ==
  /\ pc = "drain" /\ ~RxEmpty
  /\ Consume /\ rx' = Consumed
  /\ IF skipped >= Slots THEN pc' = "stop" /\ skipped' = 0
                         ELSE pc' = "drain" /\ Count
  /\ UNCHANGED <<tci_started, memory, tci_next_transaction_id, request, result,
                 tx_host, tx_device, rx_device, tx, device>>

(* The ring was quiet long enough, or messages that interrupted it have    *)
(* used up the time for the whole drain.                                   *)
DrainEnds ==
  /\ pc = "drain" /\ RxEmpty
  /\ \/ pc' = "idle"
     \/ skipped > 0 /\ pc' = "stop"
  /\ skipped' = 0
  /\ UNCHANGED <<tci_started, memory, tci_next_transaction_id, request, result,
                 rings, device>>

-----------------------------------------------------------------------------
(* quantum_tci_control_xfer *)

(* A caller makes a request: probe, or a rate change. *)
Request(c) ==
  /\ pc = "idle"
  /\ request' = [kind |-> "control", tid |-> tci_next_transaction_id, code |-> c,
                 waiting |-> "current"]
  /\ pc' = "send" /\ result' = "none"
  /\ UNCHANGED <<tci_started, memory, tci_next_transaction_id, skipped, rings, device>>

(* Write the slot and its length, then advance the position. *)
Send ==
  /\ pc = "send" /\ ~TxFull
  /\ tx' = [tx EXCEPT ![tx_host] = request]
  /\ tx_host' = NextPos(tx_host)
  /\ tci_next_transaction_id' = NextTid(tci_next_transaction_id)
  /\ pc' = "receive"
  /\ UNCHANGED <<tci_started, memory, request, skipped, result, tx_device, rx_host,
                 rx_device, rx, device>>

(* Whatever of the request is still under way, nobody waits for it now. *)
Abandoned(m) == IF m.kind \in Kinds /\ m.waiting = "current"
                THEN [m EXCEPT !.waiting = "given up"] ELSE m
AbandonedRing(ring) == [i \in Positions |-> Abandoned(ring[i])]

(* Return to the caller with r, the response ring being as given. *)
Return(r, ring) ==
  /\ pc' = "idle" /\ result' = r /\ request' = NoRequest /\ skipped' = 0
  /\ tx' = AbandonedRing(tx) /\ rx' = AbandonedRing(ring)
  /\ pending' = [i \in 1 .. Len(pending) |-> Abandoned(pending[i])]
  /\ UNCHANGED <<tci_started, memory, tci_next_transaction_id, tx_host, tx_device,
                 rx_device, enabled, active, accepted>>

(* There is no free slot, or no message, until the deadline. *)
TimesOut ==
  /\ \/ pc = "send" /\ TxFull
     \/ pc = "receive" /\ RxEmpty
  /\ Return("failed", rx)
  /\ UNCHANGED rx_host

Oldest   == rx[rx_host]
Unusable == Oldest.kind \in {"malformed", "empty"}
Matches  == Oldest.kind \in Kinds /\ Oldest.tid = request.tid
Fits     == Oldest.kind = "control" /\ Oldest.code = request.code

(* The oldest message ends the request: it is malformed, or it has the     *)
(* request's id.                                                           *)
Take ==
  /\ pc = "receive" /\ ~RxEmpty /\ (Unusable \/ Matches)
  /\ Consume
  /\ Return(IF ~Unusable /\ Fits THEN Oldest.waiting ELSE "failed", Consumed)

(* It is an event or has another id: skip it and wait afresh. *)
Skip ==
  /\ pc = "receive" /\ ~RxEmpty /\ ~Unusable /\ ~Matches
  /\ Consume
  /\ IF skipped >= Slots
     THEN Return("failed", Consumed)
     ELSE /\ Count /\ rx' = Consumed
          /\ UNCHANGED <<pc, result, request, tx, tci_started, memory,
                         tci_next_transaction_id, tx_host, tx_device, rx_device, device>>

-----------------------------------------------------------------------------
(* quantum_tci_stop *)

(* Remove, or probe after a request has failed. *)
Unload ==
  /\ pc = "idle"
  /\ pc' = "stop" /\ result' = "none"
  /\ UNCHANGED <<tci_started, memory, tci_next_transaction_id, request, skipped,
                 rings, device>>

Stop ==
  /\ pc = "stop"
  /\ enabled' = FALSE
  /\ pc' = "poll"
  /\ UNCHANGED <<tci_started, memory, tci_next_transaction_id, request, skipped,
                 result, rings, active, pending, accepted>>

(* The mailbox is inactive, or still active after a hundred polls. *)
Poll ==
  /\ pc = "poll"
  /\ pc' = IF active THEN "cut off" ELSE "clear"
  /\ tci_started' = FALSE
  /\ UNCHANGED <<memory, tci_next_transaction_id, request, skipped, result, rings,
                 device>>

(* Bug: a device that did not stop keeps the bus. *)
CutOffForgotten ==
  /\ pc = "cut off"
  /\ pc' = "clear"
  /\ UNCHANGED <<tci_started, memory, tci_next_transaction_id, request, skipped,
                 result, rings, device>>

CutOff ==
  /\ pc = "cut off"
  /\ master' = FALSE /\ pc' = "clear"
  /\ UNCHANGED <<tci_started, slots, addresses, tci_next_transaction_id, request,
                 skipped, result, rings, device>>

(* quantum_tci_clear_registers *)
ClearRegisters ==
  /\ pc = "clear"
  /\ tx_host' = 0 /\ rx_host' = 0 /\ addresses' = FALSE
  /\ pc' = "free"
  /\ UNCHANGED <<tci_started, slots, master, tci_next_transaction_id, request,
                 skipped, result, tx_device, rx_device, tx, rx, device>>

(* quantum_tci_free_slots: what the slots held is gone. *)
FreeSlots ==
  /\ pc = "free"
  /\ slots' = FALSE
  /\ tx' = [i \in Positions |-> Empty] /\ rx' = [i \in Positions |-> Empty]
  /\ pc' = "release"
  /\ UNCHANGED <<tci_started, addresses, master, tci_next_transaction_id, request,
                 skipped, result, positions, device>>

(* The rest of snd_quantum_free, or of a failed create: pci_clear_master. *)
Release ==
  /\ pc = "release"
  /\ master' = FALSE /\ pc' = "unloaded"
  /\ UNCHANGED <<tci_started, slots, addresses, tci_next_transaction_id, request,
                 skipped, result, rings, device>>

-----------------------------------------------------------------------------
(* The device.  After a stop it may use the slots for a while, but nobody  *)
(* reads what it writes.                                                   *)
Serving == enabled /\ master /\ addresses

DeviceAccepts ==
  /\ Serving /\ tx_device # tx_host /\ Len(pending) < MaxPending
  /\ pending' = Append(pending, tx[tx_device])
  /\ tx' = [tx EXCEPT ![tx_device] = Empty]
  /\ tx_device' = NextPos(tx_device)
  /\ accepted' = (accepted + 1) % TidSpace
  /\ UNCHANGED <<host, memory, tx_host, rx_host, rx_device, rx, enabled, active>>

(* A message at the device's position, if the ring has a free slot. *)
Deliver(m) ==
  /\ Serving /\ NextPos(rx_device) # rx_host
  /\ rx' = [rx EXCEPT ![rx_device] = m]
  /\ rx_device' = NextPos(rx_device)

DeviceAnswers ==
  /\ pending # <<>>
  /\ \E k \in Kinds : Deliver([Head(pending) EXCEPT !.kind = k])
  /\ pending' = Tail(pending)
  /\ UNCHANGED <<host, memory, tx_host, tx_device, rx_host, tx, enabled, active, accepted>>

DeviceReports ==
  /\ Deliver(Event)
  /\ UNCHANGED <<host, memory, tx_host, tx_device, rx_host, tx, device>>

(* It obeys a stop, sooner or later. *)
DeviceStops ==
  /\ active /\ ~enabled
  /\ active' = FALSE
  /\ UNCHANGED <<host, memory, rings, enabled, pending, accepted>>

Probe    == Start \/ StartFails \/ Unwind \/ Drain \/ DrainEnds
Transfer == Send \/ TimesOut \/ Take \/ Skip
Teardown == Stop \/ Poll \/ CutOff \/ ClearRegisters \/ FreeSlots \/ Release
Driver   == Probe \/ Transfer \/ Teardown
Client   == Load \/ Unload \/ \E c \in Codes : Request(c)
Device   == DeviceAccepts \/ DeviceAnswers \/ DeviceReports \/ DeviceStops
Next     == Driver \/ Client \/ Device

Spec == Init /\ [][Next]_vars
(* The driver's thread runs; clients and the device owe it nothing. *)
FairSpec == Spec /\ WF_vars(Driver)

-----------------------------------------------------------------------------
TypeOK ==
  /\ pc \in Labels /\ tci_started \in BOOLEAN
  /\ slots \in BOOLEAN /\ addresses \in BOOLEAN /\ master \in BOOLEAN
  /\ tci_next_transaction_id \in Tids /\ accepted \in Tids
  /\ request \in Messages \cup {NoRequest}
  /\ pc \in {"send", "receive"} => request \in Messages
  /\ skipped \in 0 .. Slots
  /\ result \in Waiting \cup {"none", "failed"}
  /\ {tx_host, tx_device, rx_host, rx_device} \subseteq Positions
  /\ tx \in [Positions -> Messages \cup {Empty}]
  /\ rx \in [Positions -> Messages \cup {Event, Empty}]
  /\ enabled \in BOOLEAN /\ active \in BOOLEAN
  /\ pending \in Seq(Messages) /\ Len(pending) <= MaxPending

(* The driver and the device agree on the requests: as many have been sent *)
(* as were accepted or wait in the ring, and the ring holds the latter in  *)
(* order, so no slot is overwritten before the device has taken it.        *)
InRing == (tx_host + Slots - tx_device) % Slots
RequestsKept ==
  enabled =>
    /\ tci_next_transaction_id = (accepted + InRing) % TidSpace
    /\ \A k \in 0 .. InRing - 1 :
         LET m == tx[(tx_device + k) % Slots]
         IN  m.kind = "control" /\ m.tid = (accepted + k) % TidSpace

(* A request never returns with the answer to an earlier request of this   *)
(* load that was given up, however late, wherever that answer was.         *)
OwnAnswer == result # "given up"

(* The device has addresses only of slots that exist, and once a load has  *)
(* enabled it the slots are freed only when it has stopped or has lost the *)
(* bus.                                                                    *)
SlotsOutliveDma ==
  /\ addresses => slots
  /\ active /\ master => slots \/ pc \in {"start", "unwind"}

(* Starting, a request and stopping end whatever the device does: it may   *)
(* be silent, and it may send unrelated messages for ever.                 *)
OperationsEnd == pc \notin {"idle", "unloaded"} ~> pc \in {"idle", "unloaded"}

=============================================================================
