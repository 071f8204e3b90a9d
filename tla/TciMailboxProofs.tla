-------------------------- MODULE TciMailboxProofs --------------------------
(* Proofs about the TCI mailbox, for every ring size and every behaviour   *)
(* of the device: its slots outlive the device's use of them, no request   *)
(* is lost or overwritten, and none returns with the answer to another.    *)
EXTENDS TciMailbox, Integers, TLAPS

(* Where slots exist, where the registers hold addresses, and where the    *)
(* device may be enabled.                                                  *)
SlotsWhere ==
  /\ pc \in {"drain", "idle", "send", "receive", "stop", "poll", "cut off", "clear", "free"}
       => slots
  /\ pc \in {"unloaded", "start", "free", "release"} => ~addresses
  /\ pc = "unwind" => (addresses => slots)

(* A device that was told to stop stays stopped once it has, and one that  *)
(* did not has lost the bus when the registers are cleared.                *)
StoppedWhere ==
  /\ pc \in {"unloaded", "start", "unwind", "poll", "cut off", "clear", "free", "release"}
       => ~enabled
  /\ pc \in {"clear", "free", "release", "unloaded"} => ~(active /\ master)

MemoryInv == pc \in Labels /\ SlotsWhere /\ StoppedWhere

LEMMA MemoryInit == Init => MemoryInv
  BY DEF Init, MemoryInv, SlotsWhere, StoppedWhere, Labels

(* The invariant reads only these variables. *)
LEMMA MemoryUnchanged ==
  ASSUME MemoryInv, UNCHANGED <<pc, slots, addresses, master, enabled, active>>
  PROVE  MemoryInv'
  BY DEF MemoryInv, SlotsWhere, StoppedWhere

(* A step within the time the mailbox is in use. *)
InUse == {"drain", "idle", "send", "receive", "stop"}
LEMMA MemoryInUse ==
  ASSUME MemoryInv, pc \in InUse, pc' \in InUse,
         UNCHANGED <<slots, addresses, master, enabled, active>>
  PROVE  MemoryInv'
  BY DEF MemoryInv, SlotsWhere, StoppedWhere, InUse, Labels

LEMMA MemoryStep == MemoryInv /\ [Next]_vars => MemoryInv'
<1> SUFFICES ASSUME MemoryInv, [Next]_vars PROVE MemoryInv'
  OBVIOUS
<1> USE DEF memory, positions, rings, device, host
<1>1. CASE Load
  BY <1>1 DEF Load, MemoryInv, SlotsWhere, StoppedWhere, Labels
<1>2. CASE Start
  BY <1>2 DEF Start, MemoryInv, SlotsWhere, StoppedWhere, Labels
<1>3. CASE StartFails
  BY <1>3 DEF StartFails, MemoryInv, SlotsWhere, StoppedWhere, Labels
<1>4. CASE Unwind
  BY <1>4 DEF Unwind, MemoryInv, SlotsWhere, StoppedWhere, Labels
<1>5. CASE Drain \/ DrainEnds
  BY <1>5, MemoryInUse DEF Drain, DrainEnds, InUse
<1>6. CASE Unload \/ \E c \in Codes : Request(c)
  BY <1>6, MemoryInUse DEF Unload, Request, InUse
<1>7. CASE Send
  BY <1>7, MemoryInUse DEF Send, InUse
<1>8. CASE TimesOut \/ Take
  BY <1>8, MemoryInUse DEF TimesOut, Take, Return, InUse
<1>9. CASE Skip
  BY <1>9, MemoryInUse DEF Skip, Return, InUse
<1>10. CASE Stop
  BY <1>10 DEF Stop, MemoryInv, SlotsWhere, StoppedWhere, Labels
<1>11. CASE Poll
  BY <1>11 DEF Poll, MemoryInv, SlotsWhere, StoppedWhere, Labels
<1>12. CASE CutOff
  BY <1>12 DEF CutOff, MemoryInv, SlotsWhere, StoppedWhere, Labels
<1>13. CASE ClearRegisters
  BY <1>13 DEF ClearRegisters, MemoryInv, SlotsWhere, StoppedWhere, Labels
<1>14. CASE FreeSlots
  BY <1>14 DEF FreeSlots, MemoryInv, SlotsWhere, StoppedWhere, Labels
<1>15. CASE Release
  BY <1>15 DEF Release, MemoryInv, SlotsWhere, StoppedWhere, Labels
<1>16. CASE DeviceAccepts \/ DeviceAnswers \/ DeviceReports
  BY <1>16, MemoryUnchanged DEF DeviceAccepts, DeviceAnswers, DeviceReports
<1>17. CASE DeviceStops
  BY <1>17 DEF DeviceStops, MemoryInv, SlotsWhere, StoppedWhere, Labels
<1>18. CASE UNCHANGED vars
  BY <1>18, MemoryUnchanged DEF vars
<1> QED
  BY <1>1, <1>2, <1>3, <1>4, <1>5, <1>6, <1>7, <1>8, <1>9, <1>10, <1>11, <1>12,
     <1>13, <1>14, <1>15, <1>16, <1>17, <1>18
     DEF Next, Driver, Probe, Transfer, Teardown, Client, Device

(* The slots the device has been given exist as long as it may use them:   *)
(* quantum_tci_stop waits, or takes the bus away, before it frees them.    *)
THEOREM MemorySafety == Spec => []SlotsOutliveDma
<1>1. MemoryInv => SlotsOutliveDma
  BY DEF MemoryInv, SlotsWhere, StoppedWhere, Labels, SlotsOutliveDma
<1> QED
  BY <1>1, MemoryInit, MemoryStep, PTL DEF Spec
-----------------------------------------------------------------------------
(* Positions on a ring. *)

(* A sum that is less than twice n is reduced modulo n by one subtraction. *)
LEMMA ModuloOnce ==
  ASSUME NEW n \in Nat \ {0}, NEW x \in 0 .. 2 * n - 1
  PROVE  x % n = IF x < n THEN x ELSE x - n
<1>1. CASE x < n
  BY <1>1
<1>2. CASE ~(x < n)
  BY <1>2
<1> QED
  BY <1>1, <1>2

(* How far position h is ahead of position d on a ring of n. *)
Ahead(n, h, d) == (h + n - d) % n

LEMMA AheadCases ==
  ASSUME NEW n \in Nat \ {0}, NEW h \in 0 .. n - 1, NEW d \in 0 .. n - 1
  PROVE  /\ Ahead(n, h, d) = IF h >= d THEN h - d ELSE h + n - d
         /\ Ahead(n, h, d) \in 0 .. n - 1
         /\ \A k \in 0 .. n - 1 : (d + k) % n = IF d + k < n THEN d + k ELSE d + k - n
         /\ (d + 1) % n = IF d + 1 < n THEN d + 1 ELSE 0
<1>1. Ahead(n, h, d) = IF h >= d THEN h - d ELSE h + n - d
  <2> DEFINE x == h + n - d
  <2>1. x \in 0 .. 2 * n - 1 /\ (x < n <=> ~(h >= d)) /\ x - n = h - d
    OBVIOUS
  <2>2. Ahead(n, h, d) = x % n
    BY DEF Ahead
  <2> HIDE DEF x
  <2>3. x % n = IF x < n THEN x ELSE x - n
    BY <2>1, ModuloOnce
  <2> QED
    BY <2>1, <2>2, <2>3 DEF x
<1>2. \A k \in 0 .. n : (d + k) % n = IF d + k < n THEN d + k ELSE d + k - n
  <2> TAKE k \in 0 .. n
  <2> DEFINE x == d + k
  <2>1. x \in 0 .. 2 * n - 1
    OBVIOUS
  <2> HIDE DEF x
  <2>2. x % n = IF x < n THEN x ELSE x - n
    BY <2>1, ModuloOnce
  <2> QED
    BY <2>2 DEF x
<1>3. (d + 1) % n = IF d + 1 < n THEN d + 1 ELSE 0
  BY <1>2
<1> QED
  BY <1>1, <1>2, <1>3

(* The host writes the slot after the last one in the ring. *)
LEMMA HostAdvances ==
  ASSUME NEW n \in Nat \ {0}, NEW h \in 0 .. n - 1, NEW d \in 0 .. n - 1, (h + 1) % n # d
  PROVE  /\ Ahead(n, (h + 1) % n, d) = Ahead(n, h, d) + 1
         /\ Ahead(n, h, d) < n - 1
         /\ (d + Ahead(n, h, d)) % n = h
         /\ \A k \in 0 .. Ahead(n, h, d) - 1 : (d + k) % n # h
<1>1. (h + 1) % n = IF h + 1 < n THEN h + 1 ELSE 0
  BY AheadCases
<1>2. (h + 1) % n \in 0 .. n - 1
  BY <1>1
<1>3. Ahead(n, (h + 1) % n, d) = IF (h + 1) % n >= d THEN ((h + 1) % n) - d ELSE ((h + 1) % n) + n - d
  BY <1>2, AheadCases
<1>4. /\ Ahead(n, h, d) = IF h >= d THEN h - d ELSE h + n - d
      /\ Ahead(n, h, d) \in 0 .. n - 1
      /\ \A k \in 0 .. n - 1 : (d + k) % n = IF d + k < n THEN d + k ELSE d + k - n
  BY AheadCases
<1>5. Ahead(n, (h + 1) % n, d) = Ahead(n, h, d) + 1 /\ Ahead(n, h, d) < n - 1
  BY <1>1, <1>3, <1>4
<1>6. (d + Ahead(n, h, d)) % n = h /\ \A k \in 0 .. Ahead(n, h, d) - 1 : (d + k) % n # h
  BY <1>4
<1> QED
  BY <1>5, <1>6

(* The device takes the first, the rest keeps its order. *)
LEMMA DeviceAdvances ==
  ASSUME NEW n \in Nat \ {0}, NEW h \in 0 .. n - 1, NEW d \in 0 .. n - 1, h # d
  PROVE  /\ Ahead(n, h, d) > 0
         /\ Ahead(n, h, (d + 1) % n) = Ahead(n, h, d) - 1
         /\ \A k \in 0 .. Ahead(n, h, d) - 2 :
              /\ (((d + 1) % n) + k) % n = (d + (k + 1)) % n
              /\ (d + (k + 1)) % n # d
<1> DEFINE e == (d + 1) % n
<1>1. e = IF d + 1 < n THEN d + 1 ELSE 0
  BY AheadCases
<1>2. e \in 0 .. n - 1
  BY <1>1
<1> HIDE DEF e
<1>3. /\ Ahead(n, h, d) = IF h >= d THEN h - d ELSE h + n - d
      /\ Ahead(n, h, d) \in 0 .. n - 1
      /\ \A k \in 0 .. n - 1 : (d + k) % n = IF d + k < n THEN d + k ELSE d + k - n
  BY AheadCases
<1>4. /\ Ahead(n, h, e) = IF h >= e THEN h - e ELSE h + n - e
      /\ \A k \in 0 .. n - 1 : (e + k) % n = IF e + k < n THEN e + k ELSE e + k - n
  BY <1>2, AheadCases
<1>5. Ahead(n, h, d) > 0 /\ Ahead(n, h, e) = Ahead(n, h, d) - 1
  <2>1. /\ Ahead(n, h, d) = IF h >= d THEN h - d ELSE h + n - d
        /\ Ahead(n, h, e) = IF h >= e THEN h - e ELSE h + n - e
    BY <1>3, <1>4
  <2>2. CASE d + 1 < n
    BY <1>1, <2>1, <2>2
  <2>3. CASE ~(d + 1 < n)
    BY <1>1, <2>1, <2>3
  <2> QED
    BY <2>2, <2>3
<1>6. ASSUME NEW k \in 0 .. Ahead(n, h, d) - 2
      PROVE  (e + k) % n = (d + (k + 1)) % n /\ (d + (k + 1)) % n # d
  <2>1. k \in 0 .. n - 1 /\ k + 1 \in 0 .. n - 1
    BY <1>3
  <2>2. /\ (d + (k + 1)) % n = IF d + (k + 1) < n THEN d + (k + 1) ELSE d + (k + 1) - n
        /\ (e + k) % n = IF e + k < n THEN e + k ELSE e + k - n
    BY <1>3, <1>4, <2>1
  <2> QED
    BY <1>1, <1>2, <1>3, <2>1, <2>2
<1> QED
  BY <1>5, <1>6 DEF e
(* Counting on modulo n. *)
LEMMA ModuloSucc ==
  ASSUME NEW n \in Nat \ {0}, NEW a \in 0 .. n - 1, NEW k \in Nat, k + 1 \in 0 .. n - 1
  PROVE  /\ (((a + k) % n) + 1) % n = (a + (k + 1)) % n
         /\ (((a + 1) % n) + k) % n = (a + (k + 1)) % n
<1>1. \A x \in 0 .. 2 * n - 1 : x % n = IF x < n THEN x ELSE x - n
  BY ModuloOnce
<1>2. /\ (a + k) % n = IF a + k < n THEN a + k ELSE a + k - n
      /\ (a + 1) % n = IF a + 1 < n THEN a + 1 ELSE a + 1 - n
      /\ (a + (k + 1)) % n = IF a + (k + 1) < n THEN a + (k + 1) ELSE a + (k + 1) - n
  <2>1. a + k \in 0 .. 2 * n - 1 /\ a + 1 \in 0 .. 2 * n - 1 /\ a + (k + 1) \in 0 .. 2 * n - 1
    OBVIOUS
  <2> QED
    BY <1>1, <2>1
<1>3. (((a + k) % n) + 1) % n = (a + (k + 1)) % n
  <2> DEFINE b == (a + k) % n
  <2>1. b + 1 \in 0 .. 2 * n - 1 /\ b \in 0 .. n - 1
    BY <1>2
  <2>2. (b + 1) % n = IF b + 1 < n THEN b + 1 ELSE b + 1 - n
    BY <1>1, <2>1
  <2> QED
    BY <1>2, <2>1, <2>2
<1>4. (((a + 1) % n) + k) % n = (a + (k + 1)) % n
  <2> DEFINE b == (a + 1) % n
  <2>1. b + k \in 0 .. 2 * n - 1 /\ b \in 0 .. n - 1
    BY <1>2
  <2> HIDE DEF b
  <2>2. (b + k) % n = IF b + k < n THEN b + k ELSE b + k - n
    <3>1. b \in 0 .. n - 1 /\ k \in 0 .. n - 1
      BY <2>1
    <3> QED
      BY <3>1, AheadCases
  <2> QED
    BY <1>2, <2>1, <2>2 DEF b
<1> QED
  BY <1>3, <1>4

-----------------------------------------------------------------------------
(* Positions and transaction ids stay in their ranges. *)
LEMMA PositionType == Slots \in Nat /\ 0 \in Positions /\ \A i \in Positions : NextPos(i) \in Positions
  BY SlotsAssumption DEF Positions, NextPos

LEMMA TidType == /\ 0 \in Tids
                 /\ \A t \in Tids : NextTid(t) \in Tids /\ (t + 1) % TidSpace \in Tids
  BY SlotsAssumption, PendingAssumption, TidAssumption DEF Tids, NextTid

(* Marking a message changes nothing else about it. *)
LEMMA AbandonedType ==
  ASSUME NEW m PROVE /\ m \in Messages => Abandoned(m) \in Messages
                     /\ m \in {Empty, Event} => Abandoned(m) = m
  BY DEF Abandoned, Messages, Waiting, Kinds, Empty, Event

LEMMA AbandonedRingType ==
  ASSUME NEW ring
  PROVE  /\ ring \in [Positions -> Messages \cup {Empty}]
              => AbandonedRing(ring) \in [Positions -> Messages \cup {Empty}]
         /\ ring \in [Positions -> Messages \cup {Event, Empty}]
              => AbandonedRing(ring) \in [Positions -> Messages \cup {Event, Empty}]
  BY AbandonedType DEF AbandonedRing

(* What the device has to answer stays a short sequence of messages. *)
LEMMA PendingType ==
  ASSUME NEW s \in Seq(Messages), NEW r, DOMAIN r = 1 .. Len(s),
         r = [i \in 1 .. Len(s) |-> r[i]], \A i \in 1 .. Len(s) : r[i] \in Messages
  PROVE  r \in Seq(Messages) /\ Len(r) = Len(s)
  OBVIOUS

LEMMA OldestRequest ==
  ASSUME TypeOK, RequestsKept, enabled, tx_device # tx_host
  PROVE  tx[tx_device] \in Messages
<1> tx_host \in 0 .. Slots - 1 /\ tx_device \in 0 .. Slots - 1 /\ Slots \in Nat \ {0}
  BY SlotsAssumption DEF TypeOK, Positions
<1>0. InRing = Ahead(Slots, tx_host, tx_device)
  BY DEF InRing, Ahead
<1>1. 0 \in 0 .. InRing - 1 /\ (tx_device + 0) % Slots = tx_device
  <2>1. InRing > 0 /\ InRing \in 0 .. Slots - 1
    BY <1>0, DeviceAdvances, AheadCases
  <2>2. (tx_device + 0) % Slots = tx_device
    BY AheadCases
  <2> QED
    BY <2>1, <2>2
<1>2. tx[tx_device].kind = "control"
  BY <1>1 DEF RequestsKept
<1> QED
  BY <1>2 DEF TypeOK, Empty

LEMMA ReturnType ==
  ASSUME TypeOK, NEW r \in Waiting \cup {"none", "failed"},
         NEW ring \in [Positions -> Messages \cup {Event, Empty}],
         Return(r, ring), rx_host' \in Positions
  PROVE  TypeOK'
<1>1. AbandonedRing(tx) \in [Positions -> Messages \cup {Empty}]
  BY AbandonedRingType DEF TypeOK
<1>2. AbandonedRing(ring) \in [Positions -> Messages \cup {Event, Empty}]
  BY AbandonedRingType
<1>3. pending' \in Seq(Messages) /\ Len(pending') <= MaxPending
  <2>1. \A i \in 1 .. Len(pending) : Abandoned(pending[i]) \in Messages
    BY AbandonedType DEF TypeOK
  <2>2. pending' = [i \in 1 .. Len(pending) |-> Abandoned(pending[i])]
    BY DEF Return
  <2> QED
    BY <2>1, <2>2, PendingType DEF TypeOK
<1>4. skipped' \in 0 .. Slots /\ request' \in Messages \cup {NoRequest} /\ pc' \in Labels
  BY SlotsAssumption DEF Return, Labels
<1> QED
  BY <1>1, <1>2, <1>3, <1>4 DEF Return, TypeOK, memory

LEMMA ConsumeType ==
  ASSUME TypeOK, Consume
  PROVE  rx_host' \in Positions /\ Consumed \in [Positions -> Messages \cup {Event, Empty}]
  BY PositionType DEF TypeOK, Consume, Consumed

LEMMA InitType == Init => TypeOK
<1> SUFFICES ASSUME Init PROVE TypeOK
  OBVIOUS
<1>1. 0 \in Positions /\ 0 \in Tids /\ 0 \in 0 .. Slots
  BY PositionType, TidType
<1>2. pending \in Seq(Messages) /\ Len(pending) <= MaxPending
  BY PendingAssumption DEF Init
<1> QED
  BY <1>1, <1>2 DEF Init, TypeOK, Labels, NoRequest

LEMMA StepType == TypeOK /\ RequestsKept /\ [Next]_vars => TypeOK'
<1> SUFFICES ASSUME TypeOK, RequestsKept, [Next]_vars PROVE TypeOK'
  OBVIOUS
<1> USE DEF memory, positions, rings, device, host
<1>1. CASE Load \/ StartFails
  BY <1>1 DEF Load, StartFails, TypeOK, Labels
<1>2. CASE Start
  <2>1. pending' \in Seq(Messages) /\ Len(pending') <= MaxPending
    <3>1. \A i \in 1 .. Len(pending) :
            [pending[i] EXCEPT !.waiting = "previous load"] \in Messages
      <4>1. \A i \in 1 .. Len(pending) : pending[i] \in Messages
        BY DEF TypeOK
      <4> QED
        BY <4>1 DEF Messages, Waiting
    <3>2. pending' = [i \in 1 .. Len(pending) |-> [pending[i] EXCEPT !.waiting = "previous load"]]
      BY <1>2 DEF Start
    <3> QED
      BY <3>1, <3>2, PendingType DEF TypeOK
  <2> QED
    BY <1>2, <2>1, PositionType, TidType DEF Start, TypeOK, Labels
<1>3. CASE Unwind
  BY <1>3, PositionType DEF Unwind, TypeOK, Labels
<1>4. CASE Drain
  <2>1. Consume /\ rx' = Consumed
    BY <1>4 DEF Drain
  <2>2. skipped' \in 0 .. Slots
    BY <1>4, SlotsAssumption DEF Drain, Count, TypeOK
  <2> QED
    BY <1>4, <2>1, <2>2, ConsumeType DEF Drain, TypeOK, Labels
<1>5. CASE DrainEnds
  <2>1. skipped' \in 0 .. Slots /\ pc' \in {"idle", "stop"}
    BY <1>5, SlotsAssumption DEF DrainEnds
  <2> QED
    BY <1>5, <2>1 DEF DrainEnds, TypeOK, Labels
<1>6. CASE \E c \in Codes : Request(c)
  <2> PICK c \in Codes : Request(c)
    BY <1>6
  <2>1. request' \in Messages
    BY DEF Request, TypeOK, Messages, Kinds, Waiting
  <2> QED
    BY <2>1 DEF Request, TypeOK, Labels
<1>7. CASE Send
  <2>1. request \in Messages
    BY <1>7 DEF Send, TypeOK
  <2> QED
    BY <1>7, <2>1, PositionType, TidType DEF Send, TypeOK, Labels
<1>8. CASE TimesOut
  BY <1>8, ReturnType DEF TimesOut, TypeOK
<1>9. CASE Take
  <2>1. Consume /\ Return(IF ~Unusable /\ Fits THEN Oldest.waiting ELSE "failed", Consumed)
    BY <1>9 DEF Take
  <2>2. ~Unusable /\ Fits => Oldest.waiting \in Waiting
    BY DEF TypeOK, Unusable, Fits, Oldest, Messages, Empty, Event
  <2> QED
    BY <2>1, <2>2, ConsumeType, ReturnType
<1>10. CASE Skip
  <2>1. Consume
    BY <1>10 DEF Skip
  <2>2. CASE skipped >= Slots
    BY <1>10, <2>1, <2>2, ConsumeType, ReturnType DEF Skip
  <2>3. CASE ~(skipped >= Slots)
    <3>1. skipped' \in 0 .. Slots /\ rx' = Consumed
      BY <1>10, <2>3, SlotsAssumption DEF Skip, Count, TypeOK
    <3> QED
      BY <1>10, <2>1, <2>3, <3>1, ConsumeType DEF Skip, TypeOK
  <2> QED
    BY <2>2, <2>3
<1>11. CASE Unload \/ Stop \/ Poll \/ CutOff \/ Release
  BY <1>11 DEF Unload, Stop, Poll, CutOff, Release, TypeOK, Labels
<1>12. CASE ClearRegisters \/ FreeSlots
  BY <1>12, PositionType DEF ClearRegisters, FreeSlots, TypeOK, Labels
<1>13. CASE DeviceAccepts
  <2>1. tx[tx_device] \in Messages
    BY <1>13, OldestRequest DEF DeviceAccepts, Serving
  <2>2. pending' \in Seq(Messages) /\ Len(pending') <= MaxPending
    BY <1>13, <2>1, PendingAssumption DEF DeviceAccepts, TypeOK
  <2> QED
    BY <1>13, <2>2, PositionType, TidType DEF DeviceAccepts, TypeOK
<1>14. CASE DeviceAnswers
  <2> PICK k \in Kinds : Deliver([Head(pending) EXCEPT !.kind = k])
    BY <1>14 DEF DeviceAnswers
  <2>1. Head(pending) \in Messages
    BY <1>14 DEF DeviceAnswers, TypeOK
  <2>2. [Head(pending) EXCEPT !.kind = k] \in Messages
    BY <2>1 DEF Messages
  <2>3. pending' \in Seq(Messages) /\ Len(pending') <= MaxPending
    BY <1>14, PendingAssumption DEF DeviceAnswers, TypeOK
  <2> QED
    BY <1>14, <2>2, <2>3, PositionType DEF DeviceAnswers, Deliver, TypeOK
<1>15. CASE DeviceReports
  BY <1>15, PositionType DEF DeviceReports, Deliver, TypeOK
<1>16. CASE DeviceStops
  BY <1>16 DEF DeviceStops, TypeOK
<1>17. CASE UNCHANGED vars
  BY <1>17 DEF vars, TypeOK
<1> QED
  BY <1>1, <1>2, <1>3, <1>4, <1>5, <1>6, <1>7, <1>8, <1>9, <1>10, <1>11, <1>12,
     <1>13, <1>14, <1>15, <1>16, <1>17
     DEF Next, Driver, Probe, Transfer, Teardown, Client, Device

-----------------------------------------------------------------------------
(* No request is lost or overwritten. *)

(* The request about to be sent has the next id. *)
RequestReady ==
  pc = "send" => request.kind = "control" /\ request.tid = tci_next_transaction_id

MailboxInv == TypeOK /\ MemoryInv /\ RequestsKept /\ RequestReady

LEMMA InitKept == Init => RequestsKept /\ RequestReady
  BY DEF Init, RequestsKept, RequestReady

LEMMA ReadyStep == TypeOK /\ RequestReady /\ [Next]_vars => RequestReady'
  BY DEF RequestReady, Next, Driver, Probe, Transfer, Teardown, Client, Device, Load,
     Start, StartFails, Unwind, Drain, DrainEnds, Request, Send, TimesOut, Take, Skip,
     Return, Unload, Stop, Poll, CutOff, ClearRegisters, FreeSlots, Release,
     DeviceAccepts, DeviceAnswers, DeviceReports, DeviceStops, vars, memory, positions,
     rings, device, host

(* Marking the messages of the ring keeps them. *)
LEMMA KeptReturn ==
  ASSUME TypeOK, RequestsKept, NEW r, NEW ring, Return(r, ring)
  PROVE  RequestsKept'
<1>1. UNCHANGED <<tci_next_transaction_id, tx_host, tx_device, enabled, accepted>>
  BY DEF Return, memory
<1>2. InRing' = InRing
  BY <1>1 DEF InRing
<1>3. SUFFICES ASSUME enabled, NEW k \in 0 .. InRing - 1
               PROVE  LET m == tx'[(tx_device + k) % Slots]
                      IN  m.kind = "control" /\ m.tid = (accepted + k) % TidSpace
  BY <1>1, <1>2 DEF RequestsKept
<1> DEFINE i == (tx_device + k) % Slots
<1>4. i \in Positions
  BY SlotsAssumption DEF TypeOK, Positions, InRing
<1>5. tx[i].kind = "control" /\ tx[i].tid = (accepted + k) % TidSpace
  BY <1>3 DEF RequestsKept
<1>6. tx'[i] = Abandoned(tx[i])
  BY <1>4 DEF Return, AbandonedRing
<1>7. tx[i] \in Messages
  BY <1>4, <1>5 DEF TypeOK, Empty
<1> QED
  BY <1>5, <1>6, <1>7 DEF Abandoned, Messages

LEMMA KeptSend ==
  ASSUME TypeOK, RequestsKept, RequestReady, Send
  PROVE  RequestsKept'
<1>1. SUFFICES ASSUME enabled
               PROVE  /\ tci_next_transaction_id' = (accepted + InRing') % TidSpace
                      /\ \A k \in 0 .. InRing' - 1 :
                           LET m == tx'[(tx_device + k) % Slots]
                           IN  m.kind = "control" /\ m.tid = (accepted + k) % TidSpace
  BY DEF Send, RequestsKept, memory, device
<1> tx_host \in 0 .. Slots - 1 /\ tx_device \in 0 .. Slots - 1 /\ Slots \in Nat \ {0}
  BY SlotsAssumption DEF TypeOK, Positions
<1>2. InRing = Ahead(Slots, tx_host, tx_device) /\ InRing' = Ahead(Slots, NextPos(tx_host), tx_device)
  BY DEF InRing, Ahead, Send
<1>3. NextPos(tx_host) # tx_device
  BY DEF Send, TxFull
<1>4. /\ InRing' = InRing + 1 /\ InRing \in 0 .. Slots - 2
      /\ (tx_device + InRing) % Slots = tx_host
      /\ \A k \in 0 .. InRing - 1 : (tx_device + k) % Slots # tx_host
  <2>1. (tx_host + 1) % Slots # tx_device
    BY <1>3 DEF NextPos
  <2>2. /\ Ahead(Slots, (tx_host + 1) % Slots, tx_device) = Ahead(Slots, tx_host, tx_device) + 1
        /\ Ahead(Slots, tx_host, tx_device) < Slots - 1
        /\ (tx_device + Ahead(Slots, tx_host, tx_device)) % Slots = tx_host
        /\ \A k \in 0 .. Ahead(Slots, tx_host, tx_device) - 1 : (tx_device + k) % Slots # tx_host
    BY <2>1, HostAdvances
  <2>3. InRing \in 0 .. Slots - 1
    BY <1>2, AheadCases
  <2> QED
    BY <1>2, <2>2, <2>3 DEF NextPos
<1>5. tci_next_transaction_id = (accepted + InRing) % TidSpace
  BY <1>1 DEF RequestsKept
<1>6. tci_next_transaction_id' = (accepted + InRing') % TidSpace
  <2>1. TidSpace \in Nat \ {0} /\ accepted \in 0 .. TidSpace - 1 /\ InRing + 1 \in 0 .. TidSpace - 1
    BY <1>4, SlotsAssumption, PendingAssumption, TidAssumption DEF TypeOK, Tids
  <2>2. (((accepted + InRing) % TidSpace) + 1) % TidSpace = (accepted + (InRing + 1)) % TidSpace
    BY <2>1, <1>4, ModuloSucc
  <2> QED
    BY <1>4, <1>5, <2>2 DEF Send, NextTid
<1>7. ASSUME NEW k \in 0 .. InRing' - 1
      PROVE  LET m == tx'[(tx_device + k) % Slots]
             IN  m.kind = "control" /\ m.tid = (accepted + k) % TidSpace
  <2>1. tx' = [tx EXCEPT ![tx_host] = request]
    BY DEF Send
  <2>2. CASE k = InRing
    <3>1. tx'[tx_host] = request
      BY <2>1 DEF TypeOK
    <3> QED
      BY <3>1, <2>2, <1>4, <1>5 DEF RequestReady, Send
  <2>3. CASE k # InRing
    <3>1. k \in 0 .. InRing - 1
      BY <1>4, <2>3
    <3>2. (tx_device + k) % Slots # tx_host
      BY <1>4, <3>1
    <3>3. tx'[(tx_device + k) % Slots] = tx[(tx_device + k) % Slots]
      <4>1. (tx_device + k) % Slots \in Positions
        BY <3>1, <1>4 DEF Positions
      <4> QED
        BY <2>1, <3>2, <4>1 DEF TypeOK
    <3> QED
      BY <1>1, <3>1, <3>3 DEF RequestsKept
  <2> QED
    BY <2>2, <2>3
<1> QED
  BY <1>6, <1>7

LEMMA KeptAccept ==
  ASSUME TypeOK, RequestsKept, DeviceAccepts
  PROVE  RequestsKept'
<1> tx_host \in 0 .. Slots - 1 /\ tx_device \in 0 .. Slots - 1 /\ Slots \in Nat \ {0}
  BY SlotsAssumption DEF TypeOK, Positions
<1>1. /\ UNCHANGED <<tci_next_transaction_id, enabled, tx_host>>
      /\ enabled /\ tx_host # tx_device
      /\ tx' = [tx EXCEPT ![tx_device] = Empty] /\ tx_device' = (tx_device + 1) % Slots
      /\ accepted' = (accepted + 1) % TidSpace
  BY DEF DeviceAccepts, host, Serving, NextPos
<1>2. InRing = Ahead(Slots, tx_host, tx_device) /\ InRing' = Ahead(Slots, tx_host, (tx_device + 1) % Slots)
  BY <1>1 DEF InRing, Ahead
<1>3. /\ InRing' = InRing - 1 /\ InRing \in 1 .. Slots - 1
      /\ \A k \in 0 .. InRing - 2 :
           /\ (((tx_device + 1) % Slots) + k) % Slots = (tx_device + (k + 1)) % Slots
           /\ (tx_device + (k + 1)) % Slots # tx_device
  <2>1. /\ Ahead(Slots, tx_host, tx_device) > 0
        /\ Ahead(Slots, tx_host, (tx_device + 1) % Slots) = Ahead(Slots, tx_host, tx_device) - 1
        /\ \A k \in 0 .. Ahead(Slots, tx_host, tx_device) - 2 :
             /\ (((tx_device + 1) % Slots) + k) % Slots = (tx_device + (k + 1)) % Slots
             /\ (tx_device + (k + 1)) % Slots # tx_device
    BY <1>1, DeviceAdvances
  <2>2. InRing \in 0 .. Slots - 1
    BY <1>2, AheadCases
  <2> QED
    BY <1>2, <2>1, <2>2
<1>4. \A k \in 0 .. InRing - 1 : (accepted' + k) % TidSpace = (accepted + (k + 1)) % TidSpace
  <2>1. TidSpace \in Nat \ {0} /\ accepted \in 0 .. TidSpace - 1
    BY SlotsAssumption, PendingAssumption, TidAssumption DEF TypeOK, Tids
  <2>2. InRing <= TidSpace - 1
    BY <1>3, SlotsAssumption, PendingAssumption, TidAssumption
  <2> TAKE k \in 0 .. InRing - 1
  <2>3. k + 1 \in 0 .. TidSpace - 1
    BY <1>3, <2>1, <2>2
  <2> QED
    BY <1>1, <2>1, <2>3, ModuloSucc
<1>5. tci_next_transaction_id = (accepted' + InRing') % TidSpace
  <2>1. tci_next_transaction_id = (accepted + ((InRing - 1) + 1)) % TidSpace
    BY <1>1, <1>3 DEF RequestsKept
  <2>2. InRing - 1 \in 0 .. InRing - 1
    BY <1>3
  <2> QED
    BY <1>3, <1>4, <2>1, <2>2
<1>6. ASSUME NEW k \in 0 .. InRing' - 1
      PROVE  LET m == tx'[(tx_device' + k) % Slots]
             IN  m.kind = "control" /\ m.tid = (accepted' + k) % TidSpace
  <2>1. k \in 0 .. InRing - 2 /\ k + 1 \in 0 .. InRing - 1
    BY <1>3
  <2>2. (tx_device' + k) % Slots = (tx_device + (k + 1)) % Slots
    BY <1>1, <1>3, <2>1
  <2>3. tx'[(tx_device + (k + 1)) % Slots] = tx[(tx_device + (k + 1)) % Slots]
    <3>1. (tx_device + (k + 1)) % Slots \in Positions
      BY <2>1, <1>3 DEF Positions
    <3>2. (tx_device + (k + 1)) % Slots # tx_device
      BY <1>3, <2>1
    <3> QED
      BY <1>1, <3>1, <3>2 DEF TypeOK
  <2>4. LET m == tx[(tx_device + (k + 1)) % Slots]
        IN  m.kind = "control" /\ m.tid = (accepted + (k + 1)) % TidSpace
    BY <1>1, <2>1 DEF RequestsKept
  <2>5. (accepted' + k) % TidSpace = (accepted + (k + 1)) % TidSpace
    BY <1>3, <1>4, <2>1
  <2> QED
    BY <2>2, <2>3, <2>4, <2>5
<1> QED
  BY <1>1, <1>5, <1>6 DEF RequestsKept

LEMMA KeptUnchanged ==
  ASSUME RequestsKept,
         UNCHANGED <<tci_next_transaction_id, tx_host, tx_device, tx, enabled, accepted>>
  PROVE  RequestsKept'
  BY DEF RequestsKept, InRing

LEMMA KeptStep == MailboxInv /\ [Next]_vars => RequestsKept'
<1> SUFFICES ASSUME MailboxInv, [Next]_vars PROVE RequestsKept'
  OBVIOUS
<1> USE DEF memory, positions, rings, device, host
<1>1. CASE Load \/ StartFails \/ Drain \/ DrainEnds \/ Unload
           \/ Poll \/ CutOff \/ Release \/ \E c \in Codes : Request(c)
  BY <1>1, KeptUnchanged DEF MailboxInv, Load, StartFails, Drain, DrainEnds, Unload,
     Poll, CutOff, Release, Request
<1>2. CASE Start
  <2>1. tx_host' = 0 /\ tx_device' = 0 /\ accepted' = 0 /\ tci_next_transaction_id' = 0
    BY <1>2 DEF Start
  <2>2. InRing' = 0
    BY <2>1, SlotsAssumption, AheadCases DEF InRing, Ahead
  <2>3. (0 + 0) % TidSpace = 0
    BY SlotsAssumption, PendingAssumption, TidAssumption
  <2> QED
    BY <2>1, <2>2, <2>3 DEF RequestsKept
<1>3. CASE Unwind \/ ClearRegisters \/ FreeSlots \/ Stop
  <2>1. ~enabled'
    BY <1>3 DEF Unwind, ClearRegisters, FreeSlots, Stop, MailboxInv, MemoryInv, StoppedWhere
  <2> QED
    BY <2>1 DEF RequestsKept
<1>4. CASE Send
  BY <1>4, KeptSend DEF MailboxInv
<1>5. CASE TimesOut \/ Take
  BY <1>5, KeptReturn DEF TimesOut, Take, MailboxInv
<1>6. CASE Skip
  <2>1. CASE skipped >= Slots
    BY <1>6, <2>1, KeptReturn DEF Skip, MailboxInv
  <2>2. CASE ~(skipped >= Slots)
    BY <1>6, <2>2, KeptUnchanged DEF Skip, MailboxInv
  <2> QED
    BY <2>1, <2>2
<1>7. CASE DeviceAccepts
  BY <1>7, KeptAccept DEF MailboxInv
<1>8. CASE DeviceAnswers \/ DeviceReports \/ DeviceStops
  BY <1>8, KeptUnchanged DEF DeviceAnswers, DeviceReports, DeviceStops, Deliver, MailboxInv
<1>9. CASE UNCHANGED vars
  BY <1>9, KeptUnchanged DEF vars, MailboxInv
<1> QED
  BY <1>1, <1>2, <1>3, <1>4, <1>5, <1>6, <1>7, <1>8, <1>9
     DEF Next, Driver, Probe, Transfer, Teardown, Client, Device

LEMMA MailboxInvariant == Spec => []MailboxInv
<1>1. Init => MailboxInv
  BY InitType, MemoryInit, InitKept DEF MailboxInv
<1>2. MailboxInv /\ [Next]_vars => MailboxInv'
  BY StepType, MemoryStep, KeptStep, ReadyStep DEF MailboxInv
<1> QED
  BY <1>1, <1>2, PTL DEF Spec

(* Every variable of the mailbox stays in its range: positions inside the  *)
(* rings, at most a ring of messages skipped, only messages under way.     *)
THEOREM MailboxTyping == Spec => []TypeOK
<1>1. MailboxInv => TypeOK
  BY DEF MailboxInv
<1> QED
  BY <1>1, MailboxInvariant, PTL

(* quantum_tci_control_xfer never overwrites a request the device has not  *)
(* taken, and the device gets every request it takes in the order sent.    *)
THEOREM NoRequestLost == Spec => []RequestsKept
<1>1. MailboxInv => RequestsKept
  BY DEF MailboxInv
<1> QED
  BY <1>1, MailboxInvariant, PTL
-----------------------------------------------------------------------------
(* No request returns with the answer to another one.  The age of a        *)
(* transaction id is the number of requests sent since it was given out,   *)
(* that one included.  Requests keep their order on the way through the    *)
(* request ring, the device and the response ring, so ages decrease along  *)
(* that way, and of the requests under way only the current one has age 1. *)
Age(next, t) == IF t < next THEN next - t ELSE next + TidSpace - t

OfThisLoad(m) == m.kind \in Kinds /\ m.waiting # "previous load"
Entry(ring, from, k) == ring[(from + k) % Slots]
TxAt(k) == Entry(tx, tx_device, k)
RxAt(k) == Entry(rx, rx_host, k)
Answers == Ahead(Slots, rx_device, rx_host)
Unanswered == InRing + Len(pending)

TxAges == \A k \in 0 .. InRing - 1 : Age(tci_next_transaction_id, TxAt(k).tid) = InRing - k
PendingAges ==
  \A i \in 1 .. Len(pending) :
    OfThisLoad(pending[i]) => Age(tci_next_transaction_id, pending[i].tid) = Unanswered + 1 - i

(* Outside a transfer nothing under way is older than a ring of requests   *)
(* and what the device has accepted.  A request that is sent makes all of  *)
(* it older by one, and ends when it has taken an answer, when there is    *)
(* none, or when it has skipped more messages than the ring held when it   *)
(* was sent; each time the oldest answer is gone.  Answers of an earlier   *)
(* load have ids that mean nothing; they have a rank all the same, because *)
(* they are taken or skipped like the others.                              *)
MaxAge == Slots - 1 + MaxPending
Ranks  == [0 .. Slots - 1 -> 0 .. MaxAge + 1]
RankedAt(f, k) ==
  /\ f[k] > Unanswered
  /\ f[k] > MaxAge => pc = "receive" /\ k + skipped < Slots - 1
  /\ OfThisLoad(RxAt(k)) => f[k] = Age(tci_next_transaction_id, RxAt(k).tid)
  /\ \A j \in 0 .. k - 1 : RxAt(j).kind \in Kinds => f[j] > f[k]
Ranked(f) ==
  \A k \in 0 .. Answers - 1 :
    RxAt(k).kind # "empty" /\ (RxAt(k).kind \in Kinds => RankedAt(f, k))
AnswersRanked == \E f \in Ranks : Ranked(f)

(* During a transfer, a request that was given up has another id.          *)
Elder(next, m) == m.kind \in Kinds /\ m.waiting = "given up" => Age(next, m.tid) > 1
GivenUpElder ==
  pc = "receive" =>
    /\ Age(tci_next_transaction_id, request.tid) = 1
    /\ \A k \in 0 .. InRing - 1 : Elder(tci_next_transaction_id, TxAt(k))
    /\ \A i \in 1 .. Len(pending) : Elder(tci_next_transaction_id, pending[i])
    /\ \A k \in 0 .. Answers - 1 : Elder(tci_next_transaction_id, RxAt(k))

AgesInv == enabled => TxAges /\ PendingAges /\ AnswersRanked /\ GivenUpElder

(* A transfer needs an enabled mailbox and begins with nothing skipped.    *)
TransferWhere ==
  /\ pc \in {"drain", "idle", "send", "receive", "stop"} => enabled
  /\ pc \in {"idle", "send"} => skipped = 0
  /\ pc = "send" => request.waiting = "current"

(* A message is put at the end of a ring, and one is taken from its front. *)
LEMMA RingPut ==
  ASSUME NEW ring, NEW filled, NEW h \in Positions, NEW d \in Positions, NextPos(h) # d,
         \A i \in Positions : i # h => filled[i] = ring[i]
  PROVE  /\ Ahead(Slots, h, d) \in 0 .. Slots - 2
         /\ Ahead(Slots, NextPos(h), d) = Ahead(Slots, h, d) + 1
         /\ Entry(filled, d, Ahead(Slots, h, d)) = filled[h]
         /\ \A k \in 0 .. Ahead(Slots, h, d) - 1 : Entry(filled, d, k) = Entry(ring, d, k)
<1> DEFINE n == Ahead(Slots, h, d)
<1>0. Slots \in Nat \ {0} /\ h \in 0 .. Slots - 1 /\ d \in 0 .. Slots - 1
  BY SlotsAssumption DEF Positions
<1>1. /\ Ahead(Slots, NextPos(h), d) = n + 1 /\ n < Slots - 1 /\ (d + n) % Slots = h
      /\ \A k \in 0 .. n - 1 : (d + k) % Slots # h
  BY <1>0, HostAdvances DEF NextPos
<1>2. n \in 0 .. Slots - 1
  BY <1>0, AheadCases
<1> HIDE DEF n
<1>3. \A k \in 0 .. n - 1 : (d + k) % Slots \in Positions
  BY <1>0, <1>2 DEF Positions
<1> QED
  BY <1>0, <1>1, <1>2, <1>3 DEF Entry, n

LEMMA RingTake ==
  ASSUME NEW ring, NEW emptied, NEW h \in Positions, NEW d \in Positions, h # d,
         \A i \in Positions : i # d => emptied[i] = ring[i]
  PROVE  /\ Ahead(Slots, h, d) \in 1 .. Slots - 1
         /\ Ahead(Slots, h, NextPos(d)) = Ahead(Slots, h, d) - 1
         /\ Entry(ring, d, 0) = ring[d]
         /\ \A k \in 0 .. Ahead(Slots, h, d) - 2 :
              Entry(emptied, NextPos(d), k) = Entry(ring, d, k + 1)
<1> DEFINE n == Ahead(Slots, h, d)
<1>0. Slots \in Nat \ {0} /\ h \in 0 .. Slots - 1 /\ d \in 0 .. Slots - 1
  BY SlotsAssumption DEF Positions
<1>1. /\ n > 0 /\ Ahead(Slots, h, NextPos(d)) = n - 1
      /\ \A k \in 0 .. n - 2 : /\ (NextPos(d) + k) % Slots = (d + (k + 1)) % Slots
                               /\ (d + (k + 1)) % Slots # d
  BY <1>0, DeviceAdvances DEF NextPos
<1>2. n \in 0 .. Slots - 1
  BY <1>0, AheadCases
<1>3. (d + 0) % Slots = d
  <2>1. \A k \in 0 .. Slots - 1 : (d + k) % Slots = IF d + k < Slots THEN d + k ELSE d + k - Slots
    BY <1>0, AheadCases
  <2> QED
    BY <1>0, <2>1
<1> HIDE DEF n
<1>4. \A k \in 0 .. n - 2 : (d + (k + 1)) % Slots \in Positions
  BY <1>0, <1>2 DEF Positions
<1>5. \A k \in 0 .. n - 2 : Entry(emptied, NextPos(d), k) = Entry(ring, d, k + 1)
  BY <1>1, <1>4 DEF Entry
<1> QED
  BY <1>1, <1>2, <1>3, <1>5 DEF Entry, n

(* The sizes of the ring's contents, and of what waits for an answer.      *)
LEMMA Sizes ==
  ASSUME TypeOK
  PROVE  /\ Slots \in Nat \ {0} /\ MaxPending \in Nat \ {0}
         /\ TidSpace \in Nat \ {0} /\ MaxAge \in Nat /\ MaxAge + 1 <= TidSpace
         /\ InRing = Ahead(Slots, tx_host, tx_device)
         /\ InRing \in 0 .. Slots - 1 /\ Answers \in 0 .. Slots - 1
         /\ Len(pending) \in 0 .. MaxPending /\ Unanswered \in 0 .. MaxAge
<1>1. Slots \in Nat \ {0} /\ MaxPending \in Nat \ {0} /\ TidSpace \in Nat \ {0}
      /\ MaxAge \in Nat /\ MaxAge + 1 <= TidSpace
  BY SlotsAssumption, PendingAssumption, TidAssumption DEF MaxAge
<1>2. InRing = Ahead(Slots, tx_host, tx_device)
  BY DEF InRing, Ahead
<1>3. {tx_host, tx_device, rx_host, rx_device} \subseteq 0 .. Slots - 1
  BY DEF TypeOK, Positions
<1>4. InRing \in 0 .. Slots - 1 /\ Answers \in 0 .. Slots - 1
  BY <1>1, <1>2, <1>3, AheadCases DEF Answers
<1>5. Len(pending) \in 0 .. MaxPending
  BY <1>1 DEF TypeOK
<1> QED
  BY <1>1, <1>2, <1>4, <1>5 DEF Unanswered, MaxAge

(* Each request that is sent makes the others older by one. *)
LEMMA Aging ==
  ASSUME TypeOK, NEW next \in Tids
  PROVE  /\ Age(NextTid(next), next) = 1
         /\ \A t \in Tids : /\ Age(next, t) \in 1 .. TidSpace
                            /\ Age(next, t) <= MaxAge => Age(NextTid(next), t) = Age(next, t) + 1
<1>1. TidSpace \in Nat \ {0} /\ MaxAge \in Nat /\ MaxAge + 1 <= TidSpace
  BY Sizes
<1>2. NextTid(next) = IF next + 1 < TidSpace THEN next + 1 ELSE 0
  BY <1>1, AheadCases DEF NextTid, Tids
<1> QED
  BY <1>1, <1>2 DEF Age, Tids

(* What lies in the rings is what their types say. *)
LEMMA EntryTypes ==
  ASSUME TypeOK, RequestsKept, enabled
  PROVE  /\ \A k \in 0 .. InRing - 1 : TxAt(k) \in Messages
         /\ \A k \in 0 .. Answers - 1 : RxAt(k) \in Messages \cup {Event, Empty}
<1>1. Slots \in Nat \ {0} /\ InRing \in 0 .. Slots - 1 /\ Answers \in 0 .. Slots - 1
  BY Sizes
<1>2. \A d \in Positions, k \in Nat : (d + k) % Slots \in Positions
  BY <1>1 DEF Positions
<1>3. ASSUME NEW k \in 0 .. InRing - 1 PROVE TxAt(k) \in Messages
  <2>1. (tx_device + k) % Slots \in Positions
    BY <1>1, <1>2 DEF TypeOK
  <2>2. tx[(tx_device + k) % Slots].kind = "control"
    BY DEF RequestsKept
  <2> QED
    BY <2>1, <2>2 DEF TypeOK, TxAt, Entry, Empty
<1>4. ASSUME NEW k \in 0 .. Answers - 1 PROVE RxAt(k) \in Messages \cup {Event, Empty}
  <2>1. (rx_host + k) % Slots \in Positions
    BY <1>1, <1>2 DEF TypeOK
  <2> QED
    BY <2>1 DEF TypeOK, RxAt, Entry
<1> QED
  BY <1>3, <1>4

(* Giving a message up changes only for whom it is.                        *)
LEMMA AbandonedSame ==
  ASSUME NEW m \in Messages \cup {Event, Empty}
  PROVE  /\ Abandoned(m).kind = m.kind
         /\ OfThisLoad(Abandoned(m)) <=> OfThisLoad(m)
         /\ m \in Messages => Abandoned(m).tid = m.tid
<1>1. CASE m \in Messages
  BY <1>1 DEF Abandoned, OfThisLoad, Messages, Waiting, Kinds
<1>2. CASE m \in {Event, Empty}
  BY <1>2 DEF Abandoned, OfThisLoad, Event, Empty, Kinds
<1> QED
  BY <1>1, <1>2

(* A ring is given up message by message. *)
LEMMA AbandonedEntry ==
  ASSUME TypeOK, NEW ring, NEW d \in Positions, NEW k \in Nat
  PROVE  Entry(AbandonedRing(ring), d, k) = Abandoned(Entry(ring, d, k))
<1>1. (d + k) % Slots \in Positions
  BY Sizes DEF Positions
<1> QED
  BY <1>1 DEF AbandonedRing, Entry

(* Steps that leave the messages, and the transfer, as they are.           *)
LEMMA AgesSame ==
  ASSUME AgesInv, UNCHANGED <<tci_next_transaction_id, rings, enabled, pending>>,
         \/ pc # "receive" /\ pc' # "receive"
         \/ UNCHANGED <<pc, skipped, request>>
  PROVE  AgesInv'
<1> USE DEF rings, positions
<1>1. SUFFICES ASSUME enabled PROVE TxAges' /\ PendingAges' /\ AnswersRanked' /\ GivenUpElder'
  BY DEF AgesInv
<1>2. InRing' = InRing /\ Answers' = Answers /\ Unanswered' = Unanswered
  BY DEF InRing, Answers, Unanswered
<1>3. \A k : TxAt(k)' = TxAt(k) /\ RxAt(k)' = RxAt(k)
  BY DEF TxAt, RxAt, Entry
<1>4. TxAges' /\ PendingAges'
  BY <1>1, <1>2, <1>3 DEF AgesInv, TxAges, PendingAges
<1>5. AnswersRanked'
  BY <1>1, <1>2, <1>3 DEF AgesInv, AnswersRanked, Ranked, RankedAt
<1>6. GivenUpElder'
  BY <1>1, <1>2, <1>3 DEF AgesInv, GivenUpElder, Elder
<1> QED
  BY <1>4, <1>5, <1>6

(* An enabled device begins with empty rings, and what it has to answer is *)
(* of an earlier load.                                                     *)
LEMMA AgesStart == TypeOK /\ Start => AgesInv'
<1> SUFFICES ASSUME TypeOK, Start PROVE AgesInv'
  OBVIOUS
<1>1. InRing' = 0 /\ Answers' = 0
  <2>1. Slots \in Nat \ {0} /\ 0 \in 0 .. Slots - 1
    BY Sizes
  <2>2. Ahead(Slots, 0, 0) = 0
    BY <2>1, AheadCases
  <2> QED
    BY <2>2 DEF Start, InRing, Answers, Ahead
<1>2. \A i \in 1 .. Len(pending') : ~OfThisLoad(pending'[i])
  <2>1. pending' = [i \in 1 .. Len(pending) |-> [pending[i] EXCEPT !.waiting = "previous load"]]
    BY DEF Start
  <2>2. \A i \in 1 .. Len(pending) : pending[i] \in Messages
    BY DEF TypeOK
  <2>3. pending' \in Seq(Messages) /\ Len(pending') = Len(pending)
    <3>1. \A i \in 1 .. Len(pending) : pending'[i] \in Messages
      BY <2>1, <2>2 DEF Messages, Waiting
    <3> QED
      BY <2>1, <3>1, PendingType DEF TypeOK
  <2> QED
    BY <2>1, <2>2, <2>3 DEF OfThisLoad, Messages
<1>3. AnswersRanked'
  <2>1. \A k \in 0 .. Answers' - 1 : FALSE
    BY <1>1
  <2>2. [k \in 0 .. Slots - 1 |-> 0] \in Ranks
    BY Sizes DEF Ranks
  <2>3. Ranked([k \in 0 .. Slots - 1 |-> 0])'
    BY <2>1 DEF Ranked
  <2> QED
    BY <2>2, <2>3 DEF AnswersRanked
<1>4. TxAges' /\ PendingAges' /\ GivenUpElder'
  <2>1. TxAges'
    BY <1>1 DEF TxAges
  <2>2. PendingAges'
    BY <1>2 DEF PendingAges
  <2> QED
    BY <2>1, <2>2 DEF GivenUpElder, Start
<1> QED
  BY <1>3, <1>4 DEF AgesInv

(* A request that was given up is one of this load. *)
LEMMA GivenUpOfThisLoad ==
  ASSUME NEW m, NEW next, OfThisLoad(m) => Age(next, m.tid) > 1
  PROVE  Elder(next, m)
<1>1. m.waiting = "given up" => m.waiting # "previous load"
  OBVIOUS
<1> QED
  BY <1>1, Zenon DEF OfThisLoad, Elder

(* A request is sent: it has age 1, and all the others are one older.      *)
LEMMA AgesSend ==
  ASSUME TypeOK, RequestsKept, RequestReady, TransferWhere, AgesInv, Send
  PROVE  AgesInv'
<1> DEFINE next == tci_next_transaction_id
<1>0. /\ enabled /\ enabled' = enabled /\ skipped = 0 /\ skipped' = 0
      /\ request' = request /\ pending' = pending /\ rx' = rx
      /\ rx_host' = rx_host /\ rx_device' = rx_device /\ tx_device' = tx_device
      /\ pc = "send" /\ pc' = "receive" /\ next' = NextTid(next) /\ next \in Tids
      /\ request.tid = next /\ request \in Messages /\ request.waiting = "current"
  BY DEF Send, TransferWhere, RequestReady, memory, device, TypeOK
<1>1. /\ Slots \in Nat \ {0} /\ MaxPending \in Nat \ {0}
      /\ TidSpace \in Nat \ {0} /\ MaxAge \in Nat /\ MaxAge + 1 <= TidSpace
      /\ InRing = Ahead(Slots, tx_host, tx_device)
      /\ InRing \in 0 .. Slots - 1 /\ Answers \in 0 .. Slots - 1
      /\ Len(pending) \in 0 .. MaxPending /\ Unanswered \in 0 .. MaxAge
  BY Sizes
<1>2. /\ InRing \in 0 .. Slots - 2 /\ InRing' = InRing + 1
      /\ \A k \in 0 .. InRing : TxAt(k)' = IF k = InRing THEN request ELSE TxAt(k)
  <2>1. /\ tx' = [tx EXCEPT ![tx_host] = request] /\ tx_host' = NextPos(tx_host)
        /\ NextPos(tx_host) # tx_device /\ DOMAIN tx = Positions
        /\ tx_host \in Positions /\ tx_device \in Positions
    BY DEF Send, TxFull, TypeOK
  <2>2. InRing' = Ahead(Slots, NextPos(tx_host), tx_device)
    BY <1>0, <2>1 DEF InRing, Ahead
  <2>5. tx'[tx_host] = request /\ \A i \in Positions : i # tx_host => tx'[i] = tx[i]
    BY <2>1
  <2>3. /\ InRing \in 0 .. Slots - 2 /\ InRing' = InRing + 1
        /\ Entry(tx', tx_device, InRing) = request
        /\ \A k \in 0 .. InRing - 1 : Entry(tx', tx_device, k) = Entry(tx, tx_device, k)
    <3>1. /\ Ahead(Slots, tx_host, tx_device) \in 0 .. Slots - 2
          /\ Ahead(Slots, NextPos(tx_host), tx_device) = Ahead(Slots, tx_host, tx_device) + 1
          /\ Entry(tx', tx_device, Ahead(Slots, tx_host, tx_device)) = tx'[tx_host]
          /\ \A k \in 0 .. Ahead(Slots, tx_host, tx_device) - 1 :
               Entry(tx', tx_device, k) = Entry(tx, tx_device, k)
      <4>1. tx_host \in Positions /\ tx_device \in Positions /\ NextPos(tx_host) # tx_device
        BY <2>1
      <4>2. \A i \in Positions : i # tx_host => tx'[i] = tx[i]
        BY <2>5
      <4> QED
        BY <4>1, <4>2, RingPut
    <3> QED
      BY <1>1, <2>2, <2>5, <3>1
  <2>4. \A k : TxAt(k)' = Entry(tx', tx_device, k)
    BY <1>0 DEF TxAt, Entry
  <2> QED
    BY <2>3, <2>4 DEF TxAt
<1>3. Unanswered' = Unanswered + 1 /\ Unanswered = InRing + Len(pending) /\ Answers' = Answers
  BY <1>0, <1>1, <1>2 DEF Unanswered, Answers
<1>4. \A k : RxAt(k)' = RxAt(k)
  BY <1>0 DEF RxAt, Entry
<1>5. /\ Age(next', next) = 1
      /\ \A t \in Tids : /\ Age(next, t) \in 1 .. TidSpace
                         /\ Age(next, t) <= MaxAge => Age(next', t) = Age(next, t) + 1
  BY <1>0, Aging
<1>6. /\ \A k \in 0 .. InRing - 1 : TxAt(k) \in Messages
      /\ \A k \in 0 .. Answers - 1 : RxAt(k) \in Messages \cup {Event, Empty}
  BY <1>0, EntryTypes
<1>7. /\ \A m \in Messages : m.tid \in Tids /\ m.kind \in Kinds
      /\ \A m \in {Event, Empty} : m.kind \notin Kinds
  BY DEF Messages, Event, Empty, Kinds
<1> HIDE DEF next
<1>8. TxAges /\ PendingAges /\ AnswersRanked
  BY <1>0 DEF AgesInv
<1>9. \A k \in 0 .. InRing - 1 :
        Age(next, TxAt(k).tid) = InRing - k /\ Age(next', TxAt(k).tid) = InRing + 1 - k
  <2> TAKE k \in 0 .. InRing - 1
  <2>1. Age(next, TxAt(k).tid) = InRing - k
    BY <1>8 DEF TxAges, next
  <2>2. InRing - k <= MaxAge
    BY <1>1 DEF MaxAge
  <2> QED
    BY <1>1, <1>5, <1>6, <1>7, <2>1, <2>2
<1>10. TxAges'
  <2> SUFFICES ASSUME NEW k \in 0 .. InRing PROVE Age(next', TxAt(k)'.tid) = InRing + 1 - k
    BY <1>1, <1>2 DEF TxAges, next
  <2>1. CASE k = InRing
    <3>1. TxAt(k)'.tid = next
      BY <1>0, <1>2, <2>1
    <3>2. InRing + 1 - k = 1
      BY <1>1, <2>1
    <3> QED
      BY <1>5, <3>1, <3>2
  <2>2. CASE k # InRing
    BY <1>1, <1>2, <1>9, <2>2
  <2> QED
    BY <2>1, <2>2
<1>11. ASSUME NEW i \in 1 .. Len(pending)
       PROVE  OfThisLoad(pending[i]) =>
                /\ Age(next, pending[i].tid) = Unanswered + 1 - i
                /\ Age(next', pending[i].tid) = Unanswered + 2 - i
  <2>1. OfThisLoad(pending[i]) => Age(next, pending[i].tid) = Unanswered + 1 - i
    BY <1>8 DEF PendingAges, next
  <2>2. Unanswered + 1 - i <= MaxAge
    <3>1. Unanswered <= MaxAge /\ Unanswered \in Int /\ MaxAge \in Int /\ i \in Int /\ i >= 1
      BY <1>1
    <3> QED
      BY <3>1
  <2>3. pending[i].tid \in Tids
    BY <1>7 DEF TypeOK
  <2>4. Age(next, pending[i].tid) <= MaxAge => Age(next', pending[i].tid) = Age(next, pending[i].tid) + 1
    BY <1>5, <2>3
  <2>5. Unanswered + 1 - i + 1 = Unanswered + 2 - i
    BY <1>1, <1>3
  <2> QED
    BY <2>1, <2>2, <2>4, <2>5
<1>12. PendingAges'
  <2>1. ASSUME NEW i \in 1 .. Len(pending)
        PROVE  OfThisLoad(pending[i]) => Age(next', pending[i].tid) = Unanswered' + 1 - i
    BY <1>1, <1>3, <1>11
  <2> QED
    BY <1>0, <2>1 DEF PendingAges, next
<1>13. PICK f \in Ranks : Ranked(f)
  BY <1>8 DEF AnswersRanked
<1> DEFINE g == [k \in 0 .. Slots - 1 |-> IF f[k] <= MaxAge THEN f[k] + 1 ELSE 0]
<1>14. \A k \in 0 .. Slots - 1 : f[k] \in 0 .. MaxAge + 1
  BY <1>13 DEF Ranks
<1>15. g \in Ranks
  BY <1>1, <1>14 DEF Ranks
<1>16. ASSUME NEW k \in 0 .. Answers - 1, RxAt(k).kind \in Kinds
       PROVE  /\ f[k] \in 0 .. MaxAge /\ g[k] = f[k] + 1 /\ k \in 0 .. Slots - 2
              /\ OfThisLoad(RxAt(k)) => Age(next', RxAt(k).tid) = g[k]
  <2>1. RankedAt(f, k)
    BY <1>13, <1>16 DEF Ranked
  <2>2. f[k] <= MaxAge /\ k \in 0 .. Slots - 2 /\ k \in 0 .. Slots - 1
    BY <1>0, <1>1, <1>14, <2>1 DEF RankedAt
  <2>3. g[k] = f[k] + 1
    BY <2>2
  <2>4. RxAt(k).tid \in Tids
    BY <1>6, <1>7, <1>16
  <2>5. OfThisLoad(RxAt(k)) => Age(next, RxAt(k).tid) = f[k]
    BY <2>1 DEF RankedAt, next
  <2> HIDE DEF g
  <2> QED
    BY <1>5, <1>14, <2>2, <2>3, <2>4, <2>5
<1>17. AnswersRanked'
  <2> HIDE DEF g
  <2> SUFFICES ASSUME NEW k \in 0 .. Answers - 1
               PROVE  /\ RxAt(k).kind # "empty"
                      /\ RxAt(k).kind \in Kinds => RankedAt(g, k)'
    BY <1>3, <1>4, <1>15 DEF AnswersRanked, Ranked
  <2>1. RxAt(k).kind # "empty"
    BY <1>13 DEF Ranked
  <2> SUFFICES ASSUME RxAt(k).kind \in Kinds PROVE RankedAt(g, k)'
    BY <2>1
  <2>2. RankedAt(f, k)
    BY <1>13 DEF Ranked
  <2>3. g[k] > Unanswered'
    <3>1. f[k] > Unanswered /\ f[k] \in Int /\ Unanswered \in Int
      BY <1>1, <1>16, <2>2 DEF RankedAt
    <3> QED
      BY <1>3, <1>16, <3>1
  <2>4. g[k] > MaxAge => pc' = "receive" /\ k + skipped' < Slots - 1
    BY <1>0, <1>1, <1>16
  <2>5. \A j \in 0 .. k - 1 : RxAt(j).kind \in Kinds => g[j] > g[k]
    <3> SUFFICES ASSUME NEW j \in 0 .. k - 1, RxAt(j).kind \in Kinds PROVE g[j] > g[k]
      OBVIOUS
    <3>1. j \in 0 .. Answers - 1
      BY <1>1
    <3>2. f[j] > f[k]
      BY <2>2 DEF RankedAt
    <3> QED
      BY <1>16, <3>1, <3>2
  <2> QED
    BY <1>4, <1>16, <2>3, <2>4, <2>5 DEF RankedAt, next
<1>18. GivenUpElder'
  <2>1. Age(next', request'.tid) = 1
    BY <1>0, <1>5
  <2>2. \A k \in 0 .. InRing : Elder(next', TxAt(k)')
    <3> TAKE k \in 0 .. InRing
    <3>1. CASE k = InRing
      BY <1>0, <1>2, <3>1 DEF Elder
    <3>2. CASE k # InRing
      <4>1. k \in 0 .. InRing - 1
        BY <1>1, <3>2
      <4>2. Age(next', TxAt(k)'.tid) > 1
        BY <1>1, <1>2, <1>9, <4>1
      <4> QED
        BY <4>2 DEF Elder
    <3> QED
      BY <3>1, <3>2
  <2>3. \A i \in 1 .. Len(pending) : Elder(next', pending[i])
    <3>1. ASSUME NEW i \in 1 .. Len(pending) PROVE OfThisLoad(pending[i]) => Age(next', pending[i].tid) > 1
      BY <1>1, <1>3, <1>11
    <3> QED
      BY <3>1, GivenUpOfThisLoad
  <2>4. \A k \in 0 .. Answers - 1 : Elder(next', RxAt(k))
    <3>1. ASSUME NEW k \in 0 .. Answers - 1, RxAt(k).kind \in Kinds
          PROVE  OfThisLoad(RxAt(k)) => Age(next', RxAt(k).tid) > 1
      <4>1. f[k] > Unanswered
        BY <1>13, <3>1 DEF Ranked, RankedAt
      <4>2. /\ OfThisLoad(RxAt(k)) => Age(next', RxAt(k).tid) = f[k] + 1
            /\ f[k] \in Nat /\ Unanswered \in Nat
        <5>1. f[k] \in Nat /\ Unanswered \in Nat
          BY <1>1, <1>14
        <5> QED
          BY <1>16, <3>1, <5>1
      <4> HIDE DEF g
      <4> QED
        BY <4>1, <4>2
    <3> QED
      BY <3>1, GivenUpOfThisLoad DEF OfThisLoad
  <2>5. /\ tci_next_transaction_id' = next' /\ pending' = pending /\ Answers' = Answers
        /\ InRing' - 1 = InRing /\ \A k : RxAt(k)' = RxAt(k)
    BY <1>0, <1>1, <1>2, <1>3, <1>4 DEF next
  <2> QED
    BY <2>1, <2>2, <2>3, <2>4, <2>5 DEF GivenUpElder
<1> QED
  BY <1>10, <1>12, <1>17, <1>18 DEF AgesInv

(* The device takes the oldest request out of the ring.                    *)
LEMMA AgesAccept ==
  ASSUME TypeOK, RequestsKept, AgesInv, DeviceAccepts
  PROVE  AgesInv'
<1> DEFINE next == tci_next_transaction_id
<1>0. /\ enabled /\ enabled' = enabled /\ next' = next /\ skipped' = skipped /\ pc' = pc
      /\ request' = request /\ rx' = rx /\ rx_host' = rx_host /\ rx_device' = rx_device
  BY DEF DeviceAccepts, Serving, host
<1>1. /\ Slots \in Nat \ {0} /\ InRing = Ahead(Slots, tx_host, tx_device)
      /\ InRing \in 0 .. Slots - 1 /\ Len(pending) \in 0 .. MaxPending /\ MaxPending \in Nat
  BY Sizes
<1>2. /\ InRing \in 1 .. Slots - 1 /\ InRing' = InRing - 1 /\ TxAt(0) = tx[tx_device]
      /\ \A k \in 0 .. InRing - 2 : TxAt(k)' = TxAt(k + 1)
  <2>1. /\ tx_host \in Positions /\ tx_device \in Positions /\ tx_host # tx_device
        /\ tx_device' = NextPos(tx_device) /\ tx_host' = tx_host
    BY DEF DeviceAccepts, TypeOK
  <2>2. \A i \in Positions : i # tx_device => tx'[i] = tx[i]
    BY DEF DeviceAccepts, TypeOK
  <2>3. /\ Ahead(Slots, tx_host, tx_device) \in 1 .. Slots - 1
        /\ Ahead(Slots, tx_host, NextPos(tx_device)) = Ahead(Slots, tx_host, tx_device) - 1
        /\ Entry(tx, tx_device, 0) = tx[tx_device]
        /\ \A k \in 0 .. Ahead(Slots, tx_host, tx_device) - 2 :
             Entry(tx', NextPos(tx_device), k) = Entry(tx, tx_device, k + 1)
    <3>1. tx_host \in Positions /\ tx_device \in Positions /\ tx_host # tx_device
      BY <2>1
    <3> QED
      BY <3>1, <2>2, RingTake
  <2>4. InRing' = Ahead(Slots, tx_host, NextPos(tx_device))
    BY <2>1 DEF InRing, Ahead
  <2>5. \A k : TxAt(k)' = Entry(tx', NextPos(tx_device), k)
    BY <2>1 DEF TxAt, Entry
  <2> QED
    BY <1>1, <2>3, <2>4, <2>5 DEF TxAt
<1>3. pending' = Append(pending, TxAt(0)) /\ pending \in Seq(Messages) /\ TxAt(0) \in Messages
  <2>1. 0 \in 0 .. InRing - 1
    BY <1>1, <1>2
  <2> QED
    BY <1>0, <1>2, <2>1, EntryTypes DEF DeviceAccepts, TypeOK
<1>4. /\ Len(pending') = Len(pending) + 1
      /\ \A i \in 1 .. Len(pending) + 1 :
           pending'[i] = IF i = Len(pending) + 1 THEN TxAt(0) ELSE pending[i]
  BY <1>3
<1>5. Unanswered' = Unanswered /\ Unanswered = InRing + Len(pending) /\ Answers' = Answers
  BY <1>0, <1>1, <1>2, <1>4 DEF Unanswered, Answers
<1>6. \A k : RxAt(k)' = RxAt(k)
  BY <1>0 DEF RxAt, Entry
<1>7. TxAges /\ PendingAges /\ AnswersRanked /\ GivenUpElder
  BY <1>0 DEF AgesInv
<1>8. \A k \in 0 .. InRing - 2 : k + 1 \in 0 .. InRing - 1
  BY <1>1
<1>9. Age(next, TxAt(0).tid) = InRing
  <2>1. 0 \in 0 .. InRing - 1 /\ InRing - 0 = InRing
    BY <1>1, <1>2
  <2> QED
    BY <1>7, <2>1 DEF TxAges
<1>10. TxAges'
  <2>1. ASSUME NEW k \in 0 .. InRing - 2 PROVE Age(next, TxAt(k)'.tid) = InRing - 1 - k
    <3>1. Age(next, TxAt(k + 1).tid) = InRing - (k + 1)
      BY <1>7, <1>8 DEF TxAges
    <3>2. InRing - (k + 1) = InRing - 1 - k
      BY <1>1
    <3> QED
      BY <1>2, <3>1, <3>2
  <2> QED
    BY <1>0, <1>1, <1>2, <2>1 DEF TxAges
<1>11. PendingAges'
  <2>1. ASSUME NEW i \in 1 .. Len(pending) + 1
        PROVE  OfThisLoad(pending'[i]) => Age(next, pending'[i].tid) = Unanswered + 1 - i
    <3>1. CASE i = Len(pending) + 1
      <4>1. Unanswered + 1 - i = InRing
        BY <1>1, <1>5, <3>1
      <4> QED
        BY <1>4, <1>9, <3>1, <4>1
    <3>2. CASE i # Len(pending) + 1
      <4>1. i \in 1 .. Len(pending) /\ pending'[i] = pending[i]
        BY <1>1, <1>4, <3>2
      <4> QED
        BY <1>7, <4>1 DEF PendingAges
    <3> QED
      BY <3>1, <3>2
  <2> QED
    BY <1>0, <1>4, <1>5, <2>1 DEF PendingAges
<1>12. AnswersRanked'
  BY <1>0, <1>5, <1>6, <1>7 DEF AnswersRanked, Ranked, RankedAt
<1>13. GivenUpElder'
  <2> SUFFICES ASSUME pc = "receive" PROVE GivenUpElder'
    BY <1>0 DEF GivenUpElder
  <2>1. /\ Age(next, request.tid) = 1
        /\ \A k \in 0 .. InRing - 1 : Elder(next, TxAt(k))
        /\ \A i \in 1 .. Len(pending) : Elder(next, pending[i])
        /\ \A k \in 0 .. Answers - 1 : Elder(next, RxAt(k))
    BY <1>7 DEF GivenUpElder
  <2>2. \A k \in 0 .. InRing - 2 : Elder(next, TxAt(k)')
    BY <1>2, <1>8, <2>1
  <2>3. ASSUME NEW i \in 1 .. Len(pending) + 1 PROVE Elder(next, pending'[i])
    <3>1. 0 \in 0 .. InRing - 1 /\ (i # Len(pending) + 1 => i \in 1 .. Len(pending))
      BY <1>1, <1>2
    <3> QED
      BY <1>4, <2>1, <3>1
  <2>4. InRing' - 1 = InRing - 2
    BY <1>1, <1>2
  <2> QED
    BY <1>0, <1>4, <1>5, <1>6, <2>1, <2>2, <2>3, <2>4 DEF GivenUpElder
<1> QED
  BY <1>10, <1>11, <1>12, <1>13 DEF AgesInv

(* The device puts a message m at the end of the response ring.            *)
LEMMA Delivered ==
  ASSUME TypeOK, NEW m, Deliver(m), UNCHANGED rx_host
  PROVE  /\ Answers \in 0 .. Slots - 2 /\ Answers' = Answers + 1
         /\ \A k \in 0 .. Answers : RxAt(k)' = IF k = Answers THEN m ELSE RxAt(k)
<1>1. /\ rx_device \in Positions /\ rx_host \in Positions /\ NextPos(rx_device) # rx_host
      /\ rx_device' = NextPos(rx_device) /\ rx_host' = rx_host
  BY DEF Deliver, TypeOK
<1>2. rx'[rx_device] = m /\ \A i \in Positions : i # rx_device => rx'[i] = rx[i]
  BY DEF Deliver, TypeOK
<1>3. /\ Ahead(Slots, rx_device, rx_host) \in 0 .. Slots - 2
      /\ Ahead(Slots, NextPos(rx_device), rx_host) = Ahead(Slots, rx_device, rx_host) + 1
      /\ Entry(rx', rx_host, Ahead(Slots, rx_device, rx_host)) = rx'[rx_device]
      /\ \A k \in 0 .. Ahead(Slots, rx_device, rx_host) - 1 :
           Entry(rx', rx_host, k) = Entry(rx, rx_host, k)
  <2>1. rx_device \in Positions /\ rx_host \in Positions /\ NextPos(rx_device) # rx_host
    BY <1>1
  <2>2. \A i \in Positions : i # rx_device => rx'[i] = rx[i]
    BY <1>2
  <2> QED
    BY <2>1, <2>2, RingPut
<1>4. Answers = Ahead(Slots, rx_device, rx_host) /\ Answers' = Ahead(Slots, NextPos(rx_device), rx_host)
  BY <1>1 DEF Answers
<1>5. \A k : RxAt(k) = Entry(rx, rx_host, k) /\ RxAt(k)' = Entry(rx', rx_host, k)
  BY <1>1 DEF RxAt, Entry
<1> QED
  BY <1>2, <1>3, <1>4, <1>5

(* It answers the oldest request that it has accepted.                     *)
LEMMA AgesAnswer ==
  ASSUME TypeOK, RequestsKept, AgesInv, DeviceAnswers
  PROVE  AgesInv'
<1> DEFINE next == tci_next_transaction_id
<1>0. /\ enabled /\ enabled' = enabled /\ next' = next /\ skipped' = skipped /\ pc' = pc
      /\ request' = request /\ tx' = tx /\ tx_host' = tx_host /\ tx_device' = tx_device
      /\ rx_host' = rx_host /\ pending # <<>> /\ pending' = Tail(pending)
  BY DEF DeviceAnswers, Deliver, Serving, host
<1>1. /\ Slots \in Nat \ {0} /\ InRing \in 0 .. Slots - 1 /\ Len(pending) \in 0 .. MaxPending
      /\ MaxPending \in Nat /\ MaxAge \in Nat /\ Unanswered \in 0 .. MaxAge
  BY Sizes
<1>2. PICK kind \in Kinds : Deliver([Head(pending) EXCEPT !.kind = kind])
  BY DEF DeviceAnswers
<1> DEFINE m == [Head(pending) EXCEPT !.kind = kind]
<1>3. /\ pending \in Seq(Messages) /\ Head(pending) \in Messages /\ Head(pending) = pending[1]
      /\ 1 \in 1 .. Len(pending) /\ Len(pending') = Len(pending) - 1
      /\ \A i \in 1 .. Len(pending) - 1 : pending'[i] = pending[i + 1]
  BY <1>0 DEF TypeOK
<1>4. /\ m.kind \in Kinds /\ m.kind # "empty" /\ m.tid = pending[1].tid
      /\ m.waiting = pending[1].waiting /\ pending[1].kind \in Kinds
  BY <1>2, <1>3 DEF Messages, Kinds
<1> HIDE DEF m
<1>5. /\ Answers \in 0 .. Slots - 2 /\ Answers' = Answers + 1
      /\ \A k \in 0 .. Answers : RxAt(k)' = IF k = Answers THEN m ELSE RxAt(k)
  BY <1>0, <1>2, Delivered DEF m
<1>6. InRing' = InRing /\ Unanswered' = Unanswered - 1 /\ Unanswered = InRing + Len(pending)
  BY <1>0, <1>1, <1>3 DEF Unanswered, InRing
<1>7. \A k : TxAt(k)' = TxAt(k)
  BY <1>0 DEF TxAt, Entry
<1>8. TxAges /\ PendingAges /\ AnswersRanked /\ GivenUpElder
  BY <1>0 DEF AgesInv
<1>9. TxAges'
  BY <1>0, <1>6, <1>7, <1>8 DEF TxAges
<1>10. PendingAges'
  <2>1. ASSUME NEW i \in 1 .. Len(pending) - 1
        PROVE  OfThisLoad(pending[i + 1]) => Age(next, pending[i + 1].tid) = Unanswered - 1 + 1 - i
    <3>1. i + 1 \in 1 .. Len(pending) /\ Unanswered + 1 - (i + 1) = Unanswered - 1 + 1 - i
      BY <1>1
    <3>2. OfThisLoad(pending[i + 1]) => Age(next, pending[i + 1].tid) = Unanswered + 1 - (i + 1)
      BY <1>8, <3>1 DEF PendingAges
    <3> QED
      BY <3>1, <3>2
  <2> QED
    BY <1>0, <1>3, <1>6, <2>1 DEF PendingAges
<1>11. OfThisLoad(m) => Age(next, m.tid) = Unanswered
  <2>1. OfThisLoad(m) => OfThisLoad(pending[1])
    BY <1>4 DEF OfThisLoad
  <2>2. OfThisLoad(pending[1]) => Age(next, pending[1].tid) = Unanswered + 1 - 1
    BY <1>3, <1>8 DEF PendingAges
  <2>3. Unanswered + 1 - 1 = Unanswered
    BY <1>1
  <2> QED
    BY <1>4, <2>1, <2>2, <2>3
<1>12. PICK f \in Ranks : Ranked(f)
  BY <1>8 DEF AnswersRanked
<1>13. PICK g \in Ranks : \A k \in 0 .. Answers : g[k] = IF k = Answers THEN Unanswered ELSE f[k]
  <2> DEFINE h == [k \in 0 .. Slots - 1 |-> IF k = Answers THEN Unanswered ELSE f[k]]
  <2>1. h \in Ranks /\ \A k \in 0 .. Answers : h[k] = IF k = Answers THEN Unanswered ELSE f[k]
    BY <1>1, <1>5, <1>12 DEF Ranks
  <2> HIDE DEF h
  <2> QED
    BY <2>1
<1>14. Unanswered' \in Int /\ Unanswered > Unanswered' /\ Unanswered <= MaxAge
  BY <1>1, <1>6
<1>15. ASSUME NEW k \in 0 .. Answers PROVE RxAt(k)'.kind # "empty"
  <2>1. k # Answers => k \in 0 .. Answers - 1
    BY <1>5
  <2> QED
    BY <1>4, <1>5, <1>12, <2>1 DEF Ranked
<1>16. ASSUME NEW k \in 0 .. Answers - 1, RxAt(k).kind \in Kinds PROVE RankedAt(f, k) /\ f[k] \in Nat
  <2>1. RankedAt(f, k)
    BY <1>12, <1>16 DEF Ranked
  <2>2. k \in 0 .. Slots - 1
    BY <1>1, <1>5
  <2> QED
    BY <1>1, <1>12, <2>1, <2>2 DEF Ranks
<1>17. ASSUME NEW k \in 0 .. Answers, RxAt(k)'.kind \in Kinds PROVE RankedAt(g, k)'
  <2>1. CASE k = Answers
    <3>1. g[k] = Unanswered /\ RxAt(k)' = m
      BY <1>5, <1>13, <2>1
    <3>2. ASSUME NEW j \in 0 .. k - 1, RxAt(j)'.kind \in Kinds PROVE g[j] > g[k]
      <4>1. j \in 0 .. Answers - 1 /\ j \in 0 .. Answers /\ j # Answers
        BY <1>5, <2>1
      <4>2. g[j] = f[j] /\ RxAt(j)' = RxAt(j)
        BY <1>5, <1>13, <4>1
      <4>3. f[j] > Unanswered
        BY <1>16, <3>2, <4>1, <4>2 DEF RankedAt
      <4> QED
        BY <3>1, <4>2, <4>3
    <3>3. g[k] > Unanswered' /\ ~(g[k] > MaxAge)
      BY <1>1, <1>14, <3>1
    <3>4. OfThisLoad(RxAt(k)') => g[k] = Age(next, RxAt(k)'.tid)
      BY <1>11, <3>1
    <3> QED
      BY <1>0, <3>2, <3>3, <3>4 DEF RankedAt
  <2>2. CASE k # Answers
    <3>1. k \in 0 .. Answers - 1 /\ g[k] = f[k] /\ RxAt(k)' = RxAt(k)
      BY <1>5, <1>13, <2>2
    <3>2. RankedAt(f, k) /\ f[k] \in Nat
      BY <1>16, <1>17, <3>1
    <3>3. g[k] > Unanswered'
      BY <1>1, <1>14, <3>1, <3>2 DEF RankedAt
    <3>4. ASSUME NEW j \in 0 .. k - 1, RxAt(j)'.kind \in Kinds PROVE g[j] > g[k]
      <4>1. j \in 0 .. Answers - 1 /\ j \in 0 .. Answers /\ j # Answers
        BY <1>5, <3>1
      <4>2. g[j] = f[j] /\ RxAt(j)' = RxAt(j)
        BY <1>5, <1>13, <4>1
      <4>3. f[j] > f[k]
        BY <3>2, <3>4, <4>2 DEF RankedAt
      <4> QED
        BY <3>1, <4>2, <4>3
    <3> QED
      BY <1>0, <3>1, <3>2, <3>3, <3>4 DEF RankedAt
  <2> QED
    BY <2>1, <2>2
<1>18. AnswersRanked'
  <2>1. \A k \in 0 .. Answers' - 1 : k \in 0 .. Answers
    BY <1>5
  <2>2. Ranked(g)'
    BY <1>15, <1>17, <2>1 DEF Ranked
  <2> QED
    BY <1>13, <2>2 DEF AnswersRanked
<1>19. GivenUpElder'
  <2> SUFFICES ASSUME pc = "receive" PROVE GivenUpElder'
    BY <1>0 DEF GivenUpElder
  <2>1. /\ Age(next, request.tid) = 1
        /\ \A k \in 0 .. InRing - 1 : Elder(next, TxAt(k))
        /\ \A i \in 1 .. Len(pending) : Elder(next, pending[i])
        /\ \A k \in 0 .. Answers - 1 : Elder(next, RxAt(k))
    BY <1>8 DEF GivenUpElder
  <2>2. \A i \in 1 .. Len(pending) - 1 : Elder(next, pending'[i])
    BY <1>1, <1>3, <2>1
  <2>3. Elder(next, m)
    BY <1>3, <1>4, <2>1 DEF Elder
  <2>4. ASSUME NEW k \in 0 .. Answers PROVE Elder(next, RxAt(k)')
    <3>1. k # Answers => k \in 0 .. Answers - 1
      BY <1>5
    <3> QED
      BY <1>5, <2>1, <2>3, <3>1
  <2>5. \A k \in 0 .. Answers' - 1 : k \in 0 .. Answers
    BY <1>5
  <2> QED
    BY <1>0, <1>3, <1>6, <1>7, <2>1, <2>2, <2>4, <2>5 DEF GivenUpElder
<1> QED
  BY <1>9, <1>10, <1>18, <1>19 DEF AgesInv

(* It sends an event, which is not one of the answers.                     *)
LEMMA AgesReport ==
  ASSUME TypeOK, RequestsKept, AgesInv, DeviceReports
  PROVE  AgesInv'
<1> DEFINE next == tci_next_transaction_id
<1>0. /\ enabled /\ enabled' = enabled /\ next' = next /\ skipped' = skipped /\ pc' = pc
      /\ request' = request /\ tx' = tx /\ tx_host' = tx_host /\ tx_device' = tx_device
      /\ rx_host' = rx_host /\ pending' = pending
  BY DEF DeviceReports, Deliver, Serving, host, device
<1>1. Event.kind # "empty" /\ Event.kind \notin Kinds
  BY DEF Event, Kinds
<1>2. /\ Answers \in 0 .. Slots - 2 /\ Answers' = Answers + 1
      /\ \A k \in 0 .. Answers : RxAt(k)' = IF k = Answers THEN Event ELSE RxAt(k)
  BY <1>0, Delivered DEF DeviceReports
<1>3. InRing' = InRing /\ Unanswered' = Unanswered
  BY <1>0 DEF Unanswered, InRing
<1>4. \A k : TxAt(k)' = TxAt(k)
  BY <1>0 DEF TxAt, Entry
<1>5. TxAges /\ PendingAges /\ AnswersRanked /\ GivenUpElder
  BY <1>0 DEF AgesInv
<1>6. TxAges' /\ PendingAges'
  BY <1>0, <1>3, <1>4, <1>5 DEF TxAges, PendingAges
<1>7. /\ \A k \in 0 .. Answers' - 1 : k \in 0 .. Answers
      /\ \A k \in 0 .. Answers : k # Answers => k \in 0 .. Answers - 1
      /\ \A k \in 0 .. Answers - 1 : \A j \in 0 .. k - 1 : j \in 0 .. Answers /\ j # Answers
  BY Sizes, <1>2
<1>8. PICK f \in Ranks : Ranked(f)
  BY <1>5 DEF AnswersRanked
<1>9. ASSUME NEW k \in 0 .. Answers
      PROVE  RxAt(k)'.kind # "empty" /\ (RxAt(k)'.kind \in Kinds => RankedAt(f, k)')
  <2>1. CASE k = Answers
    BY <1>1, <1>2, <2>1
  <2>2. CASE k # Answers
    <3>1. k \in 0 .. Answers - 1 /\ RxAt(k)' = RxAt(k)
      BY <1>2, <1>7, <2>2
    <3>2. RxAt(k).kind # "empty" /\ (RxAt(k).kind \in Kinds => RankedAt(f, k))
      BY <1>8, <3>1 DEF Ranked
    <3>3. \A j \in 0 .. k - 1 : RxAt(j)' = RxAt(j)
      BY <1>2, <1>7, <3>1
    <3>4. RankedAt(f, k) => RankedAt(f, k)'
      BY <1>0, <1>3, <3>1, <3>3 DEF RankedAt
    <3> QED
      BY <3>1, <3>2, <3>4
  <2> QED
    BY <2>1, <2>2
<1>10. AnswersRanked'
  BY <1>7, <1>8, <1>9 DEF AnswersRanked, Ranked
<1>11. GivenUpElder'
  <2> SUFFICES ASSUME pc = "receive" PROVE GivenUpElder'
    BY <1>0 DEF GivenUpElder
  <2>1. /\ Age(next, request.tid) = 1
        /\ \A k \in 0 .. InRing - 1 : Elder(next, TxAt(k))
        /\ \A i \in 1 .. Len(pending) : Elder(next, pending[i])
        /\ \A k \in 0 .. Answers - 1 : Elder(next, RxAt(k))
    BY <1>5 DEF GivenUpElder
  <2>2. Elder(next, Event)
    BY <1>1 DEF Elder
  <2>3. \A k \in 0 .. Answers : Elder(next, RxAt(k)')
    BY <1>2, <1>7, <2>1, <2>2
  <2> QED
    BY <1>0, <1>3, <1>4, <1>7, <2>1, <2>3 DEF GivenUpElder
<1> QED
  BY <1>6, <1>10, <1>11 DEF AgesInv

(* The host consumes the oldest message of the response ring.              *)
LEMMA OldestGone ==
  ASSUME TypeOK, ~RxEmpty, Consume, UNCHANGED rx_device
  PROVE  /\ Answers \in 1 .. Slots - 1 /\ Answers' = Answers - 1
         /\ RxAt(0) = Oldest /\ rx_host' \in Positions
         /\ \A k \in 0 .. Answers - 2 : Entry(Consumed, rx_host', k) = RxAt(k + 1)
<1>1. /\ rx_device \in Positions /\ rx_host \in Positions /\ rx_device # rx_host
      /\ rx_device' = rx_device /\ rx_host' = NextPos(rx_host)
  BY DEF Consume, RxEmpty, TypeOK
<1>2. \A i \in Positions : i # rx_host => Consumed[i] = rx[i]
  BY DEF Consumed, TypeOK
<1>3. /\ Ahead(Slots, rx_device, rx_host) \in 1 .. Slots - 1
      /\ Ahead(Slots, rx_device, NextPos(rx_host)) = Ahead(Slots, rx_device, rx_host) - 1
      /\ Entry(rx, rx_host, 0) = rx[rx_host]
      /\ \A k \in 0 .. Ahead(Slots, rx_device, rx_host) - 2 :
           Entry(Consumed, NextPos(rx_host), k) = Entry(rx, rx_host, k + 1)
  <2>1. rx_device \in Positions /\ rx_host \in Positions /\ rx_device # rx_host
    BY <1>1
  <2> QED
    BY <2>1, <1>2, RingTake
<1>4. Answers = Ahead(Slots, rx_device, rx_host) /\ Answers' = Ahead(Slots, rx_device, NextPos(rx_host))
  BY <1>1 DEF Answers
<1> QED
  BY <1>1, <1>3, <1>4, PositionType DEF RxAt, Oldest

(* A message is drained, or skipped: the others move up, and there is one  *)
(* less that a transfer can skip.                                          *)
LEMMA AgesSkipped ==
  ASSUME TypeOK, AgesInv, enabled, ~RxEmpty, Consume, rx' = Consumed,
         \/ pc # "receive" /\ pc' # "receive"
         \/ pc' = pc /\ Count,
         UNCHANGED <<request, tci_next_transaction_id, tx, tx_host, tx_device,
                     rx_device, enabled, pending>>
  PROVE  AgesInv'
<1> DEFINE next == tci_next_transaction_id
<1>1. Slots \in Nat \ {0} /\ MaxAge \in Nat /\ Unanswered \in Nat /\ skipped \in Nat
  BY Sizes DEF TypeOK
<1>2. /\ Answers \in 1 .. Slots - 1 /\ Answers' = Answers - 1
      /\ \A k \in 0 .. Answers - 2 : RxAt(k)' = RxAt(k + 1)
  BY OldestGone DEF RxAt, Entry
<1>3. InRing' = InRing /\ Unanswered' = Unanswered
  BY DEF Unanswered, InRing
<1>4. \A k : TxAt(k)' = TxAt(k)
  BY DEF TxAt, Entry
<1>5. TxAges /\ PendingAges /\ AnswersRanked /\ GivenUpElder
  BY DEF AgesInv
<1>6. TxAges' /\ PendingAges'
  BY <1>3, <1>4, <1>5 DEF TxAges, PendingAges
<1>7. /\ \A k \in 0 .. Answers' - 1 : k \in 0 .. Answers - 2
      /\ \A k \in 0 .. Answers - 2 :
           /\ k + 1 \in 0 .. Answers - 1 /\ k \in 0 .. Slots - 1 /\ k + 1 \in 0 .. Slots - 1
           /\ \A j \in 0 .. k - 1 : j \in 0 .. Answers - 2 /\ j + 1 \in 0 .. (k + 1) - 1
  BY <1>1, <1>2
<1>8. PICK f \in Ranks : Ranked(f)
  BY <1>5 DEF AnswersRanked
<1>9. PICK g \in Ranks : \A k \in 0 .. Answers - 2 : g[k] = f[k + 1]
  <2> DEFINE h == [k \in 0 .. Slots - 1 |-> IF k + 1 \in 0 .. Slots - 1 THEN f[k + 1] ELSE 0]
  <2>1. h \in Ranks
    BY <1>1, <1>8 DEF Ranks
  <2>2. \A k \in 0 .. Answers - 2 : h[k] = f[k + 1]
    BY <1>7
  <2> HIDE DEF h
  <2> QED
    BY <2>1, <2>2
<1>10. ASSUME NEW k \in 0 .. Answers - 2, RxAt(k)'.kind \in Kinds PROVE RankedAt(g, k)'
  <2>1. RankedAt(f, k + 1)
    BY <1>2, <1>7, <1>8, <1>10 DEF Ranked
  <2>2. g[k] = f[k + 1] /\ RxAt(k)' = RxAt(k + 1) /\ f[k + 1] > Unanswered
    BY <1>2, <1>9, <2>1 DEF RankedAt
  <2>3. g[k] > MaxAge => pc' = "receive" /\ k + skipped' < Slots - 1
    <3>1. g[k] > MaxAge => pc = "receive" /\ k + 1 + skipped < Slots - 1
      BY <2>1, <2>2 DEF RankedAt
    <3>2. CASE pc = "receive"
      <4>1. skipped' = skipped + 1 /\ pc' = "receive"
        BY <3>2 DEF Count
      <4> QED
        BY <1>1, <3>1, <4>1
    <3>3. CASE pc # "receive"
      BY <3>1, <3>3
    <3> QED
      BY <3>2, <3>3
  <2>4. ASSUME NEW j \in 0 .. k - 1, RxAt(j)'.kind \in Kinds PROVE g[j] > g[k]
    <3>1. j \in 0 .. Answers - 2 /\ j + 1 \in 0 .. (k + 1) - 1
      BY <1>7
    <3>2. RxAt(j)' = RxAt(j + 1) /\ g[j] = f[j + 1]
      BY <1>2, <1>9, <3>1
    <3>3. f[j + 1] > f[k + 1]
      BY <2>1, <2>4, <3>1, <3>2 DEF RankedAt
    <3> QED
      BY <2>2, <3>2, <3>3
  <2>5. OfThisLoad(RxAt(k)') => g[k] = Age(next', RxAt(k)'.tid)
    BY <2>1, <2>2 DEF RankedAt
  <2> QED
    BY <1>3, <2>2, <2>3, <2>4, <2>5 DEF RankedAt
<1>11. AnswersRanked'
  <2>1. \A k \in 0 .. Answers - 2 : RxAt(k)'.kind # "empty"
    BY <1>2, <1>7, <1>8 DEF Ranked
  <2>2. Ranked(g)'
    BY <1>7, <1>10, <2>1 DEF Ranked
  <2> QED
    BY <1>9, <2>2 DEF AnswersRanked
<1>12. GivenUpElder'
  <2> SUFFICES ASSUME pc = "receive" PROVE GivenUpElder'
    BY DEF GivenUpElder
  <2>1. /\ Age(next, request.tid) = 1
        /\ \A k \in 0 .. InRing - 1 : Elder(next, TxAt(k))
        /\ \A i \in 1 .. Len(pending) : Elder(next, pending[i])
        /\ \A k \in 0 .. Answers - 1 : Elder(next, RxAt(k))
    BY <1>5 DEF GivenUpElder
  <2>2. \A k \in 0 .. Answers - 2 : Elder(next, RxAt(k)')
    BY <1>2, <1>7, <2>1
  <2> QED
    BY <1>3, <1>4, <1>7, <2>1, <2>2 DEF GivenUpElder
<1> QED
  BY <1>6, <1>11, <1>12 DEF AgesInv

(* A transfer returns, having consumed c messages: what is still under way *)
(* is given up, and none of it may be too old.                             *)
LEMMA AgesReturn ==
  ASSUME TypeOK, RequestsKept, AgesInv, enabled, NEW r, NEW ring, Return(r, ring),
         NEW c \in {0, 1}, Answers' = Answers - c, Answers - c \in 0 .. Slots - 1,
         rx_host' \in Positions,
         \A k \in 0 .. Answers - c - 1 : Entry(ring, rx_host', k) = RxAt(k + c),
         NEW f \in Ranks, Ranked(f),
         \A k \in c .. Answers - 1 : RxAt(k).kind \in Kinds => f[k] <= MaxAge
  PROVE  AgesInv'
<1> DEFINE next == tci_next_transaction_id
<1>0. /\ enabled' = enabled /\ next' = next /\ pc' = "idle" /\ tx_host' = tx_host
      /\ tx_device' = tx_device /\ tx' = AbandonedRing(tx) /\ rx' = AbandonedRing(ring)
      /\ pending' = [i \in 1 .. Len(pending) |-> Abandoned(pending[i])]
  BY DEF Return
<1>1. /\ Slots \in Nat \ {0} /\ MaxAge \in Nat /\ Unanswered \in Nat
      /\ InRing \in 0 .. Slots - 1 /\ Answers \in 0 .. Slots - 1
  BY Sizes
<1>2. pending \in Seq(Messages) /\ Len(pending') = Len(pending)
  <2>1. \A i \in 1 .. Len(pending) : pending'[i] \in Messages
    BY <1>0, AbandonedType DEF TypeOK
  <2> QED
    BY <1>0, <2>1, PendingType DEF TypeOK
<1>3. InRing' = InRing /\ Unanswered' = Unanswered
  BY <1>0, <1>2 DEF Unanswered, InRing
<1>4. /\ \A k \in 0 .. InRing - 1 : TxAt(k) \in Messages
      /\ \A k \in 0 .. Answers - 1 : RxAt(k) \in Messages \cup {Event, Empty}
  BY EntryTypes
<1>5. \A k \in 0 .. InRing - 1 : TxAt(k)'.tid = TxAt(k).tid
  <2>1. ASSUME NEW k \in 0 .. InRing - 1 PROVE TxAt(k)' = Abandoned(TxAt(k))
    <3>1. tx_device \in Positions /\ k \in Nat
      BY <1>1 DEF TypeOK
    <3> QED
      BY <1>0, <3>1, AbandonedEntry DEF TxAt
  <2> QED
    BY <1>4, <2>1, AbandonedSame
<1>6. ASSUME NEW k \in 0 .. Answers - c - 1
      PROVE  /\ k + c \in c .. Answers - 1 /\ k + c \in 0 .. Answers - 1
             /\ k \in 0 .. Slots - 1 /\ k + c \in 0 .. Slots - 1
             /\ RxAt(k)' = Abandoned(RxAt(k + c))
  <2>1. rx_host' \in Positions /\ k \in Nat
    BY <1>1
  <2>2. RxAt(k)' = Abandoned(Entry(ring, rx_host', k))
    <3>1. RxAt(k)' = Entry(AbandonedRing(ring), rx_host', k)
      BY <1>0 DEF RxAt, Entry
    <3> QED
      BY <2>1, <3>1, AbandonedEntry
  <2> QED
    BY <1>1, <2>2
<1>7. ASSUME NEW k \in 0 .. Answers - c - 1
      PROVE  /\ RxAt(k)'.kind = RxAt(k + c).kind
             /\ OfThisLoad(RxAt(k)') <=> OfThisLoad(RxAt(k + c))
             /\ RxAt(k + c).kind \in Kinds => RxAt(k)'.tid = RxAt(k + c).tid
  <2>1. RxAt(k + c) \in Messages \cup {Event, Empty}
    BY <1>4, <1>6
  <2>2. RxAt(k + c).kind \in Kinds => RxAt(k + c) \in Messages
    BY <2>1 DEF Event, Empty, Kinds
  <2> QED
    BY <1>6, <2>1, <2>2, AbandonedSame
<1>8. TxAges /\ PendingAges
  BY DEF AgesInv
<1>9. TxAges'
  BY <1>0, <1>3, <1>5, <1>8 DEF TxAges
<1>10. PendingAges'
  <2>1. ASSUME NEW i \in 1 .. Len(pending)
        PROVE  OfThisLoad(pending'[i]) => Age(next, pending'[i].tid) = Unanswered + 1 - i
    <3>1. pending'[i] = Abandoned(pending[i]) /\ pending[i] \in Messages
      BY <1>0, <1>2
    <3>2. /\ OfThisLoad(pending'[i]) <=> OfThisLoad(pending[i])
          /\ pending'[i].tid = pending[i].tid
      BY <3>1, AbandonedSame
    <3>3. OfThisLoad(pending[i]) => Age(next, pending[i].tid) = Unanswered + 1 - i
      BY <1>8 DEF PendingAges
    <3> QED
      BY <3>2, <3>3
  <2> QED
    BY <1>0, <1>2, <1>3, <2>1 DEF PendingAges
<1>11. PICK g \in Ranks : \A k \in 0 .. Answers - c - 1 : g[k] = f[k + c]
  <2> DEFINE h == [k \in 0 .. Slots - 1 |-> IF k + c \in 0 .. Slots - 1 THEN f[k + c] ELSE 0]
  <2>1. h \in Ranks
    BY <1>1 DEF Ranks
  <2>2. \A k \in 0 .. Answers - c - 1 : h[k] = f[k + c]
    BY <1>6
  <2> HIDE DEF h
  <2> QED
    BY <2>1, <2>2
<1>12. ASSUME NEW k \in 0 .. Answers - c - 1, RxAt(k)'.kind \in Kinds PROVE RankedAt(g, k)'
  <2>1. RankedAt(f, k + c) /\ RxAt(k + c).kind \in Kinds
    BY <1>6, <1>7, <1>12 DEF Ranked
  <2>2. g[k] = f[k + c] /\ f[k + c] > Unanswered /\ f[k + c] <= MaxAge /\ f[k + c] \in Nat
    BY <1>1, <1>6, <1>11, <2>1 DEF RankedAt, Ranks
  <2>3. ASSUME NEW j \in 0 .. k - 1, RxAt(j)'.kind \in Kinds PROVE g[j] > g[k]
    <3>1. j \in 0 .. Answers - c - 1 /\ j + c \in 0 .. (k + c) - 1
      BY <1>1
    <3>2. RxAt(j + c).kind \in Kinds /\ g[j] = f[j + c]
      BY <1>7, <1>11, <2>3, <3>1
    <3>3. f[j + c] > f[k + c]
      BY <2>1, <3>1, <3>2 DEF RankedAt
    <3> QED
      BY <2>2, <3>2, <3>3
  <2>4. OfThisLoad(RxAt(k)') => g[k] = Age(next, RxAt(k)'.tid)
    BY <1>7, <2>1, <2>2 DEF RankedAt
  <2>5. ~(g[k] > MaxAge)
    BY <1>1, <2>2
  <2> QED
    BY <1>0, <1>3, <2>2, <2>3, <2>4, <2>5 DEF RankedAt
<1>13. AnswersRanked'
  <2>1. \A k \in 0 .. Answers - c - 1 : RxAt(k)'.kind # "empty"
    BY <1>6, <1>7 DEF Ranked
  <2>2. Ranked(g)'
    BY <1>12, <2>1 DEF Ranked
  <2> QED
    BY <1>11, <2>2 DEF AnswersRanked
<1>14. GivenUpElder'
  BY <1>0 DEF GivenUpElder
<1> QED
  BY <1>9, <1>10, <1>13, <1>14 DEF AgesInv

(* It gives up waiting.  A message too old could only be there during the  *)
(* wait for an answer, and then there is none.                             *)
LEMMA AgesTimesOut ==
  ASSUME TypeOK, RequestsKept, TransferWhere, AgesInv, TimesOut
  PROVE  AgesInv'
<1>1. /\ enabled /\ Return("failed", rx) /\ rx_host' = rx_host /\ rx_device' = rx_device
      /\ pc = "receive" => rx_device = rx_host
  BY DEF TimesOut, TransferWhere, Return, RxEmpty
<1>2. /\ Slots \in Nat \ {0} /\ Answers \in 0 .. Slots - 1 /\ MaxAge \in Nat
      /\ rx_host \in Positions /\ rx_host' \in Positions
  BY <1>1, Sizes DEF TypeOK
<1>3. Answers' = Answers - 0 /\ Answers - 0 \in 0 .. Slots - 1 /\ 0 \in {0, 1}
  BY <1>1, <1>2 DEF Answers
<1>4. pc = "receive" => Answers = 0
  BY <1>1, <1>2, AheadCases DEF Answers, Positions
<1>5. PICK f \in Ranks : Ranked(f)
  BY <1>1 DEF AgesInv, AnswersRanked
<1>6. \A k \in 0 .. Answers - 1 : RxAt(k).kind \in Kinds => f[k] <= MaxAge
  <2>1. ASSUME NEW k \in 0 .. Answers - 1, RxAt(k).kind \in Kinds PROVE f[k] <= MaxAge
    <3>1. ~(f[k] > MaxAge) /\ k \in 0 .. Slots - 1
      BY <1>2, <1>4, <1>5, <2>1 DEF Ranked, RankedAt
    <3>2. f[k] \in 0 .. MaxAge + 1
      BY <1>5, <3>1 DEF Ranks
    <3> QED
      BY <1>2, <3>1, <3>2
  <2> QED
    BY <2>1
<1>7. \A k \in 0 .. Answers - 0 - 1 : Entry(rx, rx_host', k) = RxAt(k + 0)
  BY <1>1, <1>2 DEF RxAt
<1> QED
  BY <1>1, <1>2, <1>3, <1>5, <1>6, <1>7, AgesReturn

(* It takes the oldest answer, which is older than the others.             *)
LEMMA AgesTake ==
  ASSUME TypeOK, RequestsKept, TransferWhere, AgesInv, Take
  PROVE  AgesInv'
<1>1. PICK r : Return(r, Consumed)
  BY DEF Take
<1>2. enabled /\ ~RxEmpty /\ Consume /\ rx_device' = rx_device /\ (Unusable \/ Matches)
  BY <1>1 DEF Take, TransferWhere, Return
<1>3. /\ Answers \in 1 .. Slots - 1 /\ Answers' = Answers - 1
      /\ RxAt(0) = Oldest /\ rx_host' \in Positions
      /\ \A k \in 0 .. Answers - 2 : Entry(Consumed, rx_host', k) = RxAt(k + 1)
  BY <1>2, OldestGone
<1>4. Slots \in Nat \ {0} /\ MaxAge \in Nat
  BY Sizes
<1>5. Answers - 1 \in 0 .. Slots - 1 /\ Answers - 1 - 1 = Answers - 2 /\ 0 \in 0 .. Answers - 1
  BY <1>3, <1>4
<1>6. PICK f \in Ranks : Ranked(f)
  BY <1>2 DEF AgesInv, AnswersRanked
<1>7. RxAt(0).kind \in Kinds
  BY <1>2, <1>3, <1>5, <1>6 DEF Ranked, Unusable, Matches, Kinds
<1>8. ASSUME NEW k \in 1 .. Answers - 1, RxAt(k).kind \in Kinds PROVE f[k] <= MaxAge
  <2>1. RankedAt(f, k) /\ 0 \in 0 .. k - 1
    BY <1>3, <1>6, <1>8 DEF Ranked
  <2>2. f[0] > f[k]
    BY <1>7, <2>1 DEF RankedAt
  <2>3. k \in 0 .. Slots - 1 /\ 0 \in 0 .. Slots - 1
    BY <1>3, <1>4
  <2>4. f[0] \in 0 .. MaxAge + 1 /\ f[k] \in 0 .. MaxAge + 1
    BY <1>6, <2>3 DEF Ranks
  <2> QED
    BY <1>4, <2>2, <2>4
<1>9. \A k \in 0 .. Answers - 1 - 1 : Entry(Consumed, rx_host', k) = RxAt(k + 1)
  BY <1>3, <1>5
<1>10. \A k \in 1 .. Answers - 1 : RxAt(k).kind \in Kinds => f[k] <= MaxAge
  BY <1>8
<1> QED
  BY <1>1, <1>2, <1>3, <1>5, <1>6, <1>9, <1>10, AgesReturn

(* It skips another message, and has skipped enough when it gives up.      *)
LEMMA AgesSkip ==
  ASSUME TypeOK, RequestsKept, TransferWhere, AgesInv, Skip
  PROVE  AgesInv'
<1>1. enabled /\ ~RxEmpty /\ Consume
  BY DEF Skip, TransferWhere
<1>2. CASE skipped >= Slots
  <2>1. Return("failed", Consumed) /\ rx_device' = rx_device
    BY <1>2 DEF Skip, Return
  <2>2. /\ Answers \in 1 .. Slots - 1 /\ Answers' = Answers - 1 /\ rx_host' \in Positions
        /\ \A k \in 0 .. Answers - 2 : Entry(Consumed, rx_host', k) = RxAt(k + 1)
    BY <1>1, <2>1, OldestGone
  <2>3. Slots \in Nat \ {0} /\ MaxAge \in Nat /\ skipped \in Nat
    BY Sizes DEF TypeOK
  <2>4. Answers - 1 \in 0 .. Slots - 1 /\ Answers - 1 - 1 = Answers - 2
    BY <2>2, <2>3
  <2>5. PICK f \in Ranks : Ranked(f)
    BY <1>1 DEF AgesInv, AnswersRanked
  <2>6. ASSUME NEW k \in 1 .. Answers - 1, RxAt(k).kind \in Kinds PROVE f[k] <= MaxAge
    <3>1. k \in 0 .. Answers - 1 /\ k \in 0 .. Slots - 1 /\ k \in Nat
      BY <2>2, <2>3
    <3>2. ~(f[k] > MaxAge)
      BY <1>2, <2>3, <2>5, <2>6, <3>1 DEF Ranked, RankedAt
    <3>3. f[k] \in 0 .. MaxAge + 1
      BY <2>5, <3>1 DEF Ranks
    <3> QED
      BY <2>3, <3>2, <3>3
  <2>7. \A k \in 0 .. Answers - 1 - 1 : Entry(Consumed, rx_host', k) = RxAt(k + 1)
    BY <2>2, <2>4
  <2>8. \A k \in 1 .. Answers - 1 : RxAt(k).kind \in Kinds => f[k] <= MaxAge
    BY <2>6
  <2> QED
    BY <1>1, <2>1, <2>2, <2>4, <2>5, <2>7, <2>8, AgesReturn
<1>3. CASE ~(skipped >= Slots)
  <2>1. /\ rx' = Consumed /\ Count
        /\ UNCHANGED <<pc, request, tci_next_transaction_id, tx, tx_host, tx_device,
                       rx_device, enabled, pending>>
    BY <1>3 DEF Skip, device
  <2> QED
    BY <1>1, <2>1, AgesSkipped
<1> QED
  BY <1>2, <1>3

(* A message of an earlier load is drained. *)
LEMMA AgesDrain ==
  ASSUME TypeOK, TransferWhere, AgesInv, Drain
  PROVE  AgesInv'
<1>1. /\ enabled /\ ~RxEmpty /\ Consume /\ rx' = Consumed /\ pc = "drain" /\ pc' \in {"stop", "drain"}
      /\ UNCHANGED <<request, tci_next_transaction_id, tx, tx_host, tx_device, rx_device,
                     enabled, pending>>
  BY DEF Drain, TransferWhere, device
<1> QED
  BY <1>1, AgesSkipped

LEMMA TransferInit == Init => TransferWhere
  BY DEF Init, TransferWhere

LEMMA TransferStep == TransferWhere /\ [Next]_vars => TransferWhere'
<1> SUFFICES ASSUME TransferWhere, [Next]_vars PROVE TransferWhere'
  OBVIOUS
<1> USE DEF TransferWhere, memory, positions, rings, device, host
<1>1. CASE Load \/ StartFails \/ Unwind \/ Drain \/ DrainEnds \/ Unload
  BY <1>1 DEF Load, StartFails, Unwind, Drain, DrainEnds, Unload
<1>2. CASE Start \/ Stop \/ Poll \/ CutOff \/ ClearRegisters \/ FreeSlots \/ Release
  BY <1>2 DEF Start, Stop, Poll, CutOff, ClearRegisters, FreeSlots, Release
<1>3. ASSUME NEW c \in Codes, Request(c) PROVE TransferWhere'
  BY <1>3 DEF Request
<1>4. CASE Send \/ TimesOut \/ Take \/ Skip
  BY <1>4 DEF Send, TimesOut, Take, Skip, Return
<1>5. CASE Device \/ UNCHANGED vars
  BY <1>5 DEF vars, Device, DeviceAccepts, DeviceAnswers, DeviceReports, DeviceStops
<1> QED
  BY <1>1, <1>2, <1>3, <1>4, <1>5 DEF Next, Driver, Probe, Transfer, Teardown, Client

AnswersInv == MailboxInv /\ TransferWhere /\ AgesInv /\ OwnAnswer

LEMMA AgesStep == MailboxInv /\ TransferWhere /\ AgesInv /\ [Next]_vars => AgesInv'
<1> SUFFICES ASSUME MailboxInv, TransferWhere, AgesInv, [Next]_vars PROVE AgesInv'
  OBVIOUS
<1> TypeOK /\ RequestsKept /\ RequestReady /\ StoppedWhere
  BY DEF MailboxInv, MemoryInv
<1>1. CASE Load \/ StartFails \/ Unwind \/ Teardown
  <2>1. CASE Load \/ StartFails \/ Unwind
    BY <2>1 DEF Load, StartFails, Unwind, StoppedWhere, device, AgesInv
  <2>2. CASE Stop \/ Poll \/ CutOff
    BY <2>2 DEF Stop, Poll, CutOff, StoppedWhere, device, AgesInv
  <2>3. CASE ClearRegisters \/ FreeSlots \/ Release
    BY <2>3 DEF ClearRegisters, FreeSlots, Release, StoppedWhere, device, AgesInv
  <2> QED
    BY <1>1, <2>1, <2>2, <2>3 DEF Teardown
<1>2. CASE Start
  BY <1>2, AgesStart
<1>3. CASE Drain
  BY <1>3, AgesDrain
<1>4. CASE DrainEnds \/ Unload
  BY <1>4, AgesSame DEF DrainEnds, Unload, device
<1>5. ASSUME NEW c \in Codes, Request(c) PROVE AgesInv'
  BY <1>5, AgesSame DEF Request, device
<1>6. CASE Send
  BY <1>6, AgesSend
<1>7. CASE TimesOut
  BY <1>7, AgesTimesOut
<1>8. CASE Take
  BY <1>8, AgesTake
<1>9. CASE Skip
  BY <1>9, AgesSkip
<1>10. CASE DeviceAccepts
  BY <1>10, AgesAccept
<1>11. CASE DeviceAnswers
  BY <1>11, AgesAnswer
<1>12. CASE DeviceReports
  BY <1>12, AgesReport
<1>13. CASE DeviceStops \/ UNCHANGED vars
  BY <1>13, AgesSame DEF DeviceStops, vars, device, host
<1> QED
  BY <1>1, <1>2, <1>3, <1>4, <1>5, <1>6, <1>7, <1>8, <1>9, <1>10, <1>11, <1>12, <1>13
     DEF Next, Driver, Probe, Transfer, Client, Device

(* The message that is taken has the id of the current request, of age 1;  *)
(* the answer to a request that was given up is older.                     *)
LEMMA OwnAnswerTake ==
  ASSUME TypeOK, TransferWhere, AgesInv, Take
  PROVE  OwnAnswer'
<1>1. /\ result' = IF ~Unusable /\ Fits THEN Oldest.waiting ELSE "failed"
      /\ enabled /\ pc = "receive" /\ ~RxEmpty /\ Consume /\ rx_device' = rx_device
      /\ Unusable \/ Matches
  BY DEF Take, Return, TransferWhere
<1>2. RxAt(0) = Oldest /\ 0 \in 0 .. Answers - 1
  BY <1>1, OldestGone
<1>3. /\ Age(tci_next_transaction_id, request.tid) = 1
      /\ Elder(tci_next_transaction_id, Oldest)
  BY <1>1, <1>2 DEF AgesInv, GivenUpElder
<1>4. CASE ~Unusable /\ Fits
  <2>1. Oldest.kind \in Kinds /\ Oldest.tid = request.tid
    BY <1>1, <1>4 DEF Matches
  <2>2. Oldest.waiting # "given up"
    <3>1. ~(Age(tci_next_transaction_id, Oldest.tid) > 1)
      BY <1>3, <2>1
    <3> QED
      BY <1>3, <2>1, <3>1, Zenon DEF Elder
  <2> QED
    BY <1>1, <1>4, <2>2 DEF OwnAnswer
<1>5. CASE ~(~Unusable /\ Fits)
  BY <1>1, <1>5 DEF OwnAnswer
<1> QED
  BY <1>4, <1>5

LEMMA OwnAnswerStep == AnswersInv /\ [Next]_vars => OwnAnswer'
<1> SUFFICES ASSUME AnswersInv, [Next]_vars PROVE OwnAnswer'
  OBVIOUS
<1> USE DEF OwnAnswer, memory, positions, rings, device, host
<1>0. OwnAnswer
  BY DEF AnswersInv
<1>1. CASE Load \/ Probe
  BY <1>0, <1>1 DEF Load, Probe, Start, StartFails, Unwind, Drain, DrainEnds
<1>2. CASE Unload \/ Teardown
  BY <1>0, <1>2 DEF Unload, Teardown, Stop, Poll, CutOff, ClearRegisters, FreeSlots, Release
<1>3. ASSUME NEW c \in Codes, Request(c) PROVE OwnAnswer'
  BY <1>3 DEF Request
<1>4. CASE Send \/ TimesOut \/ Skip
  BY <1>0, <1>4 DEF Send, TimesOut, Skip, Return
<1>5. CASE Take
  BY <1>5, OwnAnswerTake DEF AnswersInv, MailboxInv
<1>6. CASE Device \/ UNCHANGED vars
  BY <1>0, <1>6 DEF Device, DeviceAccepts, DeviceAnswers, DeviceReports, DeviceStops, vars
<1> QED
  BY <1>1, <1>2, <1>3, <1>4, <1>5, <1>6 DEF Next, Driver, Transfer, Client

(* quantum_tci_control_xfer never hands the late answer to a request that  *)
(* timed out to a later caller: no request that is still under way has the *)
(* transaction id of the current one, however often the ids wrap.          *)
THEOREM NoLateAnswer == Spec => []OwnAnswer
<1>1. Init => AnswersInv
  <2>1. Init => MailboxInv
    BY InitType, MemoryInit, InitKept DEF MailboxInv
  <2> QED
    BY <2>1, TransferInit DEF Init, AnswersInv, AgesInv, OwnAnswer
<1>2. AnswersInv /\ [Next]_vars => AnswersInv'
  <2>1. MailboxInv /\ [Next]_vars => MailboxInv'
    BY StepType, MemoryStep, KeptStep, ReadyStep DEF MailboxInv
  <2> QED
    BY <2>1, TransferStep, AgesStep, OwnAnswerStep DEF AnswersInv
<1>3. AnswersInv => OwnAnswer
  BY DEF AnswersInv
<1> QED
  BY <1>1, <1>2, <1>3, PTL DEF Spec
=============================================================================
