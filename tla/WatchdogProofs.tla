---------------------------- MODULE WatchdogProofs ----------------------------
(***************************************************************************)
(* Proofs about module Watchdog: a stuck main loop is cut off within       *)
(* MaxSilence, and nothing shorter than MinSilence is, for every value of  *)
(* the periods.                                                            *)
(***************************************************************************)
EXTENDS Watchdog, TLAPS

(* The manager runs over an open device. *)
DeviceOpen ==
  running => hardware /\ process = "loop"

(* The age is what the manager has seen of the silence; once it is stale the
   hardware has had no feed since it became so. *)
AgeMeasuresSilence ==
  running =>
    /\ silent_for >= heartbeat_age
    /\ heartbeat_age < STALE => silent_for = heartbeat_age
    /\ heartbeat_age = STALE => hardware_elapsed >= silent_for - (STALE - 1)

(* Without a failed keepalive the feed interval runs with the hardware's
   clock, and past it the heartbeat is stale but for a beat in this very
   unit; the silence that withheld the feed is on record. *)
NoFeedWithoutSilence ==
  running /\ ~feed_failed =>
    /\ feed_elapsed = IF hardware_elapsed >= FEED THEN FEED ELSE hardware_elapsed
    /\ hardware_elapsed >= FEED =>
         /\ heartbeat_age \in {0, STALE}
         /\ heartbeat_age = STALE => silent_for + FEED >= STALE + hardware_elapsed
         /\ longest_silence + FEED >= STALE + hardware_elapsed

(* The numbers of TypeOK, and the rest of it. *)
Clocks ==
  /\ sms_elapsed \in 0 .. HOLD
  /\ heartbeat_age \in 0 .. STALE
  /\ feed_elapsed \in 0 .. FEED
  /\ hardware_elapsed \in 0 .. TIMEOUT - 1
  /\ silent_for \in 0 .. MaxSilence + 1
  /\ longest_silence \in 0 .. MaxSilence + 1

Places ==
  /\ process \in {"down", "starting", "loop"}
  /\ main \in {"free", "waits", "uses"}
  /\ sms \in {"none", "waits", "sends"}
  /\ running \in BOOLEAN
  /\ hardware \in BOOLEAN
  /\ feed_failed \in BOOLEAN

IInv ==
  /\ TypeOK
  /\ DeviceOpen
  /\ AgeMeasuresSilence
  /\ NoFeedWithoutSilence
-----------------------------------------------------------------------------
(* A silence that has grown still covers what it covered. *)
LEMMA LargerEnough ==
  ASSUME NEW a \in Nat, NEW b \in Nat, NEW c \in Nat, NEW d \in Nat, NEW e \in Nat,
         a >= b, b + c >= d + e
  PROVE  a + c >= d + e
  OBVIOUS

(* The types, split into numbers and places for the provers. *)
LEMMA TypeParts == TypeOK <=> Clocks /\ Places
  BY DEF TypeOK, Clocks, Places

(* Before the first start nothing runs and the device is closed. *)
LEMMA InitInv == Init => IInv
<1> SUFFICES ASSUME Init PROVE IInv
  OBVIOUS
<1>1. Clocks
  BY WatchdogAssumption DEF Init, Clocks, MaxSilence
<1>2. Places
  BY DEF Init, Places
<1>3. DeviceOpen /\ AgeMeasuresSilence /\ NoFeedWithoutSilence
  BY DEF Init, DeviceOpen, AgeMeasuresSilence, NoFeedWithoutSilence
<1> QED BY <1>1, <1>2, <1>3, TypeParts DEF IInv

(* Steps that neither beat nor take time change nothing that IInv relates. *)
LEMMA ThreadsPreserve ==
  ASSUME IInv,
         process' = process, main' \in {"free", "waits", "uses"},
         sms' \in {"none", "waits", "sends"}, sms_elapsed' \in 0 .. HOLD,
         UNCHANGED <<manager, device, history>>
  PROVE  IInv'
  BY DEF IInv, TypeOK, DeviceOpen, AgeMeasuresSilence, NoFeedWithoutSilence,
         manager, device, history

(* Without a running manager IInv is little more than the types. *)
LEMMA StoppedPreserves ==
  ASSUME TypeOK', running' = FALSE
  PROVE  IInv'
  BY DEF IInv, DeviceOpen, AgeMeasuresSilence, NoFeedWithoutSilence

(* Starts, ends and resets of the process (watchdog_manager.c 229-316). *)
LEMMA ProcessPreserves ==
  ASSUME IInv, ProcessStarts \/ ManagerStarts \/ ProcessEnds \/ HardwareReset
  PROVE  IInv'
<1>0. Clocks /\ Places
  BY TypeParts DEF IInv
<1>a. TypeOK' <=> Clocks' /\ Places'
  BY TypeParts, PTL
<1>1. CASE ProcessStarts
  <2>1. running = FALSE
    BY <1>1 DEF IInv, DeviceOpen, ProcessStarts
  <2>2. TypeOK' /\ running' = FALSE
    BY <1>1, <2>1 DEF IInv, TypeOK, ProcessStarts, manager, device, history, MaxSilence
  <2> QED BY <2>2, StoppedPreserves
<1>2. CASE ManagerStarts
  <2>a. Clocks'
    BY <1>0, <1>2, WatchdogAssumption DEF Clocks, ManagerStarts, manager, device, MaxSilence
  <2>b. Places'
    BY <1>0, <1>2 DEF Places, ManagerStarts, manager, device
  <2>1. TypeOK'
    BY <2>a, <2>b, <1>a
  <2>2. CASE UNCHANGED <<manager, device, feed_failed>>
    <3>1. running' = FALSE
      BY <1>2, <2>2 DEF IInv, DeviceOpen, ManagerStarts, manager
    <3> QED BY <2>1, <3>1, StoppedPreserves
  <2>3. CASE heartbeat_age' = 0 /\ feed_elapsed' = 0 /\ hardware' = TRUE /\ hardware_elapsed' = 0
    BY <1>2, <2>1, <2>3, WatchdogAssumption
       DEF IInv, ManagerStarts, DeviceOpen, AgeMeasuresSilence, NoFeedWithoutSilence
  <2> QED BY <1>2, <2>2, <2>3 DEF ManagerStarts
<1>3. CASE ProcessEnds
  <2>a. Clocks'
    BY <1>0, <1>3, WatchdogAssumption DEF Clocks, ProcessEnds, NoProcess, device, history, MaxSilence
  <2>b. Places' /\ running' = FALSE
    BY <1>0, <1>3 DEF Places, ProcessEnds, NoProcess, device, history
  <2>1. TypeOK' /\ running' = FALSE
    BY <2>a, <2>b, <1>a
  <2> QED BY <2>1, StoppedPreserves
<1>4. CASE HardwareReset
  <2>a. Clocks'
    BY <1>0, <1>4, WatchdogAssumption DEF Clocks, HardwareReset, NoProcess, MaxSilence
  <2>b. Places' /\ running' = FALSE
    BY <1>0, <1>4 DEF Places, HardwareReset, NoProcess
  <2>1. TypeOK' /\ running' = FALSE
    BY <2>a, <2>b, <1>a
  <2> QED BY <2>1, StoppedPreserves
<1> QED BY <1>1, <1>2, <1>3, <1>4

(* A heartbeat makes age and silence start together (318-326). *)
LEMMA HeartbeatPreserves ==
  ASSUME IInv, Heartbeat
  PROVE  IInv'
<1>1. TypeOK'
  BY WatchdogAssumption DEF IInv, TypeOK, Heartbeat, threads, device, MaxSilence
<1>2. DeviceOpen'
  BY DEF IInv, DeviceOpen, Heartbeat, threads, device
<1>3. AgeMeasuresSilence'
  BY WatchdogAssumption DEF IInv, TypeOK, AgeMeasuresSilence, Heartbeat, device
<1>4. NoFeedWithoutSilence'
  BY WatchdogAssumption DEF IInv, TypeOK, NoFeedWithoutSilence, Heartbeat, device
<1> QED BY <1>1, <1>2, <1>3, <1>4 DEF IInv

(* What a tick of the running manager does to its counters. *)
LEMMA TickOfManager ==
  ASSUME IInv, running, ManagerTick, hardware_elapsed' < TIMEOUT
  PROVE  /\ running' = running
         /\ heartbeat_age' \in 1 .. STALE
         /\ heartbeat_age' = IF heartbeat_age = STALE THEN STALE ELSE heartbeat_age + 1
         /\ \/ /\ heartbeat_age' < STALE
               /\ feed_elapsed' = 0 /\ hardware_elapsed' = 0
               /\ feed_failed' = feed_failed
            \/ /\ feed_elapsed' = IF feed_elapsed + 1 >= FEED THEN FEED ELSE feed_elapsed + 1
               /\ hardware_elapsed' = hardware_elapsed + 1
               /\ feed_failed' = (feed_failed \/
                    (feed_elapsed + 1 >= FEED /\ heartbeat_age' < STALE))
  BY WatchdogAssumption
     DEF IInv, TypeOK, ManagerTick, Feeds, Age, Fed, UpTo

(* One unit of time: the tick of the manager and the growing silence. *)
LEMMA TimePreserves ==
  ASSUME IInv, TimePasses
  PROVE  IInv'
<1> USE WatchdogAssumption
<1>s. /\ silent_for' \in 0 .. MaxSilence + 1
      /\ silent_for' = IF silent_for >= MaxSilence THEN MaxSilence + 1 ELSE silent_for + 1
  BY DEF IInv, TypeOK, TimePasses, UpTo, MaxSilence
<1>l. /\ longest_silence' \in 0 .. MaxSilence + 1
      /\ hardware /\ hardware_elapsed' > 0 =>
           longest_silence' >= longest_silence /\ longest_silence' >= silent_for'
  BY <1>s DEF IInv, TypeOK, TimePasses, MaxSilence
<1>t. /\ process' = process /\ main' = main /\ sms' = sms /\ hardware' = hardware
      /\ sms_elapsed' \in 0 .. HOLD
  BY DEF IInv, TypeOK, TimePasses
<1>1. CASE ~running
  <2>1. running' = FALSE /\ UNCHANGED <<heartbeat_age, feed_elapsed, feed_failed>>
    BY <1>1 DEF IInv, TypeOK, TimePasses, ManagerTick, manager
  <2>2. hardware_elapsed' \in 0 .. TIMEOUT - 1
    BY <1>1 DEF IInv, TypeOK, TimePasses, ManagerTick
  <2>3. TypeOK'
    BY <1>s, <1>l, <1>t, <2>1, <2>2 DEF IInv, TypeOK, MaxSilence
  <2> QED BY <2>1, <2>3, StoppedPreserves
<1>2. CASE running
  <2>1. /\ running' = running
        /\ heartbeat_age' \in 1 .. STALE
        /\ heartbeat_age' = IF heartbeat_age = STALE THEN STALE ELSE heartbeat_age + 1
        /\ \/ /\ heartbeat_age' < STALE
              /\ feed_elapsed' = 0 /\ hardware_elapsed' = 0
              /\ feed_failed' = feed_failed
           \/ /\ feed_elapsed' = IF feed_elapsed + 1 >= FEED THEN FEED ELSE feed_elapsed + 1
              /\ hardware_elapsed' = hardware_elapsed + 1
              /\ feed_failed' = (feed_failed \/
                   (feed_elapsed + 1 >= FEED /\ heartbeat_age' < STALE))
    BY <1>2, TickOfManager DEF TimePasses
  <2>2. TypeOK'
    <3>1. hardware_elapsed' \in 0 .. TIMEOUT - 1
      BY <2>1 DEF IInv, TypeOK, TimePasses
    <3>2. feed_elapsed' \in 0 .. FEED
      BY <2>1 DEF IInv, TypeOK
    <3>3. feed_failed \in BOOLEAN
      BY DEF IInv, TypeOK
    <3>4. feed_failed' \in BOOLEAN
      BY <2>1, <3>3, Zenon
    <3> QED BY <1>s, <1>l, <1>t, <2>1, <3>1, <3>2, <3>4 DEF IInv, TypeOK, MaxSilence
  <2>3. DeviceOpen'
    BY <1>t, <1>2, <2>1 DEF IInv, DeviceOpen
  <2>4. silent_for <= MaxSilence - 1 /\ silent_for' = silent_for + 1
    BY <1>2, <1>s DEF IInv, TypeOK, AgeMeasuresSilence, MaxSilence
  <2>5. AgeMeasuresSilence'
    BY <1>2, <2>1, <2>4 DEF IInv, TypeOK, AgeMeasuresSilence
  <2>6. NoFeedWithoutSilence'
    <3> SUFFICES ASSUME feed_failed' = FALSE PROVE NoFeedWithoutSilence'
      BY <2>2 DEF NoFeedWithoutSilence, TypeOK
    <3>1. feed_failed = FALSE
      BY <2>1 DEF IInv, TypeOK
    <3>2. CASE heartbeat_age' < STALE /\ feed_elapsed' = 0 /\ hardware_elapsed' = 0
      BY <3>2 DEF NoFeedWithoutSilence
    <3>3. CASE /\ feed_elapsed' = IF feed_elapsed + 1 >= FEED THEN FEED ELSE feed_elapsed + 1
               /\ hardware_elapsed' = hardware_elapsed + 1
               /\ ~(feed_elapsed + 1 >= FEED /\ heartbeat_age' < STALE)
      <4>1. feed_elapsed' = IF hardware_elapsed' >= FEED THEN FEED ELSE hardware_elapsed'
        BY <1>2, <3>1, <3>3 DEF IInv, TypeOK, NoFeedWithoutSilence
      <4>2. ASSUME hardware_elapsed' >= FEED
            PROVE  /\ heartbeat_age' = STALE
                   /\ silent_for' + FEED >= STALE + hardware_elapsed'
        <5>1. feed_elapsed + 1 >= FEED
          BY <1>2, <3>1, <3>3, <4>2 DEF IInv, TypeOK, NoFeedWithoutSilence
        <5>2. heartbeat_age' = STALE
          BY <2>1, <3>3, <5>1
        <5>3. CASE hardware_elapsed >= FEED
          BY <1>2, <2>1, <2>4, <3>1, <3>3, <5>2, <5>3
             DEF IInv, TypeOK, NoFeedWithoutSilence
        <5>4. CASE hardware_elapsed + 1 = FEED
          BY <1>2, <2>1, <2>4, <3>3, <5>2, <5>4
             DEF IInv, TypeOK, AgeMeasuresSilence
        <5> QED BY <3>3, <4>2, <5>2, <5>3, <5>4 DEF IInv, TypeOK
      <4>3. ASSUME hardware_elapsed' >= FEED
            PROVE  longest_silence' + FEED >= STALE + hardware_elapsed'
        <5>1. hardware /\ hardware_elapsed' > 0
          BY <1>2, <3>3 DEF IInv, TypeOK, DeviceOpen
        <5>2. longest_silence' >= silent_for'
          BY <1>l, <5>1
        <5>3. silent_for' + FEED >= STALE + hardware_elapsed'
          BY <4>2, <4>3
        <5>4. longest_silence' \in Nat /\ silent_for' \in Nat /\ hardware_elapsed' \in Nat
          BY <1>s, <1>l, <2>2 DEF TypeOK, MaxSilence
        <5>5. STALE \in Nat /\ FEED \in Nat
          OBVIOUS
        <5> QED BY <5>2, <5>3, <5>4, <5>5, LargerEnough
      <4> QED BY <4>1, <4>2, <4>3 DEF NoFeedWithoutSilence
    <3> QED BY <2>1, <3>1, <3>2, <3>3
  <2> QED BY <2>2, <2>3, <2>5, <2>6 DEF IInv
<1> QED BY <1>1, <1>2 DEF IInv, TypeOK

(* No step leaves the invariant. *)
LEMMA StepPreserves == IInv /\ [Next]_vars => IInv'
<1> SUFFICES ASSUME IInv, [Next]_vars PROVE IInv'
  OBVIOUS
<1>1. CASE ProcessStarts \/ ManagerStarts \/ ProcessEnds \/ HardwareReset
  BY <1>1, ProcessPreserves
<1>2. CASE Heartbeat
  BY <1>2, HeartbeatPreserves
<1>3. CASE TimePasses
  BY <1>3, TimePreserves
<1>4. CASE \/ MainWantsModem \/ MainTakesModem \/ MainLeavesModem
           \/ FanoutStarts \/ FanoutTakesModem \/ FanoutLeavesModem
  <2>1. /\ process' = process /\ main' \in {"free", "waits", "uses"}
        /\ sms' \in {"none", "waits", "sends"} /\ sms_elapsed' \in 0 .. HOLD
        /\ UNCHANGED <<manager, device, history>>
    BY <1>4, WatchdogAssumption
       DEF IInv, TypeOK, MainWantsModem, MainTakesModem, MainLeavesModem,
           FanoutStarts, FanoutTakesModem, FanoutLeavesModem
  <2> QED BY <2>1, ThreadsPreserve
<1>5. CASE UNCHANGED vars
  BY <1>5 DEF IInv, TypeOK, DeviceOpen, AgeMeasuresSilence, NoFeedWithoutSilence,
         vars, threads, manager, device, history
<1> QED BY <1>1, <1>2, <1>3, <1>4, <1>5 DEF Next
-----------------------------------------------------------------------------
(* The strengthened invariant holds in every reachable state: the heartbeat
   age is the silence, capped, and the silence at the last feed was short. *)
THEOREM InvHolds == Spec => []IInv
  BY InitInv, StepPreserves, PTL DEF Spec

(* Every state of the watchdog model is well-typed (watchdog_manager.c 22-56). *)
THEOREM WatchdogTypeCorrect == Spec => []TypeOK
<1>1. IInv => TypeOK
  BY DEF IInv
<1> QED BY <1>1, InvHolds, PTL

(* A main loop that stops beating is reset within MaxSilence, for every value
   of the three periods (watchdog_manager.c 156-199). *)
THEOREM SilentLoopIsCutOff == Spec => []SilenceIsCutOff
<1>1. IInv => SilenceIsCutOff
  BY WatchdogAssumption
     DEF IInv, TypeOK, AgeMeasuresSilence, SilenceIsCutOff, MaxSilence
<1> QED BY <1>1, InvHolds, PTL

(* No board is reset by the watchdog whose main loop was silent for less than
   MinSilence and whose keepalives worked (watchdog_manager.c 156-199). *)
THEOREM BeatingLoopIsLeftAlone == Spec => ResetOnlyAfterSilence
<1>1. IInv => (HardwareReset /\ running => longest_silence >= MinSilence \/ feed_failed)
  BY WatchdogAssumption
     DEF IInv, TypeOK, NoFeedWithoutSilence, HardwareReset, MinSilence
<1>2. IInv => [HardwareReset /\ running => longest_silence >= MinSilence \/ feed_failed]_vars
  BY <1>1
<1> QED BY <1>2, InvHolds, PTL DEF ResetOnlyAfterSilence
=============================================================================
