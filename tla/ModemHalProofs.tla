---------------------------- MODULE ModemHalProofs ----------------------------
(***************************************************************************)
(* Proofs about module ModemHal, for every threshold, cooldown, call limit *)
(* and poll interval and for passes of any length: the call the HAL tracks *)
(* and the call on the line agree as far as the modem answers, and the     *)
(* reset policy keeps its promises.                                        *)
(***************************************************************************)
EXTENDS ModemHal, TLAPS

(* What the HAL knows of its call and the line does: the clocks, and the rest. *)
CallClocks ==
  /\ call_elapsed \in 0 .. CALL_MAX - 1
  /\ poll_elapsed \in 0 .. STATUS_POLL - 1

CallPlaces ==
  /\ active \in BOOLEAN
  /\ status \in {"IDLE", "DIALING", "ACTIVE", "ENDED", "FAILED"}
  /\ line \in Outgoing \cup {"down", "incoming"}
  /\ excuse \in BOOLEAN
  /\ StatusMatchesCall
  /\ OutgoingCallIsTracked

CallInv == CallClocks /\ CallPlaces

(* The reset policy.  Only a process at work has a call, and in one life of it the
   cooldown never runs ahead of the time since the last pulse. *)
PolicyInv ==
  /\ process \in {"down", "up", "resets"}
  /\ failures \in 0 .. THRESHOLD
  /\ pending \in BOOLEAN
  /\ cooldown \in 0 .. COOLDOWN
  /\ initialized \in BOOLEAN
  /\ reset_line \in BOOLEAN
  /\ gpio_failed \in BOOLEAN
  /\ active \in BOOLEAN
  /\ active => process = "up"
  /\ DeferredResetIsDue
  /\ ResetSparesCall
  /\ ModemIsNotHeldInReset

SpacingInv ==
  /\ since_reset \in 0 .. COOLDOWN
  /\ restarted \in BOOLEAN
  /\ restarted \/ cooldown <= since_reset

IInv ==
  /\ CallInv
  /\ PolicyInv
  /\ SpacingInv
  /\ sms_fault \in BOOLEAN

(* Until the last pass, the time a dead call was held on to is within what the
   clock of the poll has counted. *)
NoticeInv ==
  /\ unnoticed \in Nat
  /\ unnoticed < STATUS_POLL + MAX_ELAPSED
  /\ active => unnoticed <= poll_elapsed
-----------------------------------------------------------------------------
(* A clock that saturates stays within its limit, and two clocks with one limit
   keep their order. *)
LEMMA Saturates ==
  ASSUME NEW v \in Nat, NEW e \in Nat, NEW limit \in Nat
  PROVE  /\ SaturatingAdd(v, e, limit) \in 0 .. limit
         /\ SaturatingAdd(v, e, limit) < limit => SaturatingAdd(v, e, limit) = v + e
  BY DEF SaturatingAdd

LEMMA SaturatesInOrder ==
  ASSUME NEW v \in Nat, NEW w \in Nat, NEW e \in Nat, NEW limit \in Nat, v <= w
  PROVE  SaturatingAdd(v, e, limit) <= SaturatingAdd(w, e, limit)
  BY DEF SaturatingAdd

(* The count of failures, one higher, reaches the threshold in time. *)
LEMMA Counts ==
  ASSUME failures \in 0 .. THRESHOLD
  PROVE  /\ SaturatingAdd(failures, 1, THRESHOLD) \in 0 .. THRESHOLD
         /\ failures = THRESHOLD => SaturatingAdd(failures, 1, THRESHOLD) = THRESHOLD
  BY ModemAssumption DEF SaturatingAdd

(* The invariant gives the properties about states. *)
LEMMA InvImplies ==
  ASSUME IInv, NoticeInv
  PROVE  TypeOK /\ DeadCallIsNoticed
<1>1. TypeOK
  <2>1. unnoticed \in 0 .. STATUS_POLL + MAX_ELAPSED
    BY ModemAssumption DEF NoticeInv
  <2> QED
    BY <2>1 DEF IInv, CallInv, CallClocks, CallPlaces, PolicyInv, SpacingInv, TypeOK
<1>2. DeadCallIsNoticed
  BY ModemAssumption DEF IInv, CallInv, CallClocks, NoticeInv, DeadCallIsNoticed
<1> QED BY <1>1, <1>2

(* A hub that has never been switched on. *)
LEMMA InitInv == Init => IInv
<1> SUFFICES ASSUME Init PROVE IInv
  OBVIOUS
<1>1. CallInv
  <2>1. CallClocks
    BY ModemAssumption DEF Init, CallClocks
  <2>2. CallPlaces
    BY DEF Init, CallPlaces, StatusMatchesCall, OutgoingCallIsTracked, Outgoing
  <2> QED BY <2>1, <2>2 DEF CallInv
<1>2. PolicyInv
  <2>1. failures \in 0 .. THRESHOLD /\ cooldown \in 0 .. COOLDOWN
    BY ModemAssumption DEF Init
  <2> QED
    BY <2>1 DEF Init, PolicyInv, DeferredResetIsDue, ResetSparesCall, ModemIsNotHeldInReset
<1>3. SpacingInv
  <2>1. since_reset \in 0 .. COOLDOWN /\ cooldown <= since_reset
    BY ModemAssumption DEF Init
  <2> QED BY <2>1 DEF Init, SpacingInv
<1>4. sms_fault \in BOOLEAN
  BY DEF Init
<1> QED BY <1>1, <1>2, <1>3, <1>4 DEF IInv
-----------------------------------------------------------------------------
(* The policy's parts, each with the call already in its new state
   (modem_hal.c 103-174, 213-248). *)

LEMMA NoResetPolicy ==
  ASSUME PolicyInv, process = "up", active' \in BOOLEAN,
         NEW f \in 0 .. THRESHOLD, NEW p \in BOOLEAN, NEW cool \in 0 .. COOLDOWN,
         p => f = THRESHOLD /\ cool = COOLDOWN,
         NoReset(f, p, cool)
  PROVE  PolicyInv'
  BY DEF PolicyInv, NoReset, gpio, DeferredResetIsDue, ResetSparesCall, ModemIsNotHeldInReset

LEMMA HardResetPolicy ==
  ASSUME PolicyInv, process = "up", active' = FALSE, HardReset(THRESHOLD)
  PROVE  PolicyInv'
<1>1. /\ failures' = THRESHOLD /\ cooldown' = COOLDOWN
      /\ failures' \in 0 .. THRESHOLD /\ cooldown' \in 0 .. COOLDOWN
  BY ModemAssumption DEF HardReset
<1>2. /\ process' \in {"up", "resets"} /\ pending' \in BOOLEAN
      /\ initialized' \in BOOLEAN /\ reset_line' \in BOOLEAN /\ gpio_failed' \in BOOLEAN
  BY DEF PolicyInv, HardReset, gpio
<1>3. process' = "up" => gpio_failed'
  BY DEF HardReset
<1> QED
  BY <1>1, <1>2, <1>3 DEF PolicyInv, DeferredResetIsDue, ResetSparesCall, ModemIsNotHeldInReset

LEMMA SuccessPolicy ==
  ASSUME PolicyInv, process = "up", active' \in BOOLEAN, NoteSuccess
  PROVE  PolicyInv'
<1>1. failures' \in 0 .. THRESHOLD /\ cooldown' \in 0 .. COOLDOWN
  BY ModemAssumption DEF PolicyInv, NoteSuccess
<1> QED
  BY <1>1 DEF PolicyInv, NoteSuccess, gpio, DeferredResetIsDue, ResetSparesCall,
              ModemIsNotHeldInReset

(* A failure resets the modem at the threshold, after the cooldown and without a
   call. *)
LEMMA FailurePolicy ==
  ASSUME PolicyInv, process = "up", NEW isActive \in BOOLEAN, active' = isActive,
         NEW cool \in 0 .. COOLDOWN, pending => cool = COOLDOWN,
         NoteFailure(isActive, cool)
  PROVE  PolicyInv'
<1> DEFINE f == SaturatingAdd(failures, 1, THRESHOLD)
<1>1. f \in 0 .. THRESHOLD /\ (failures = THRESHOLD => f = THRESHOLD)
  BY Counts DEF PolicyInv
<1>2. pending \in BOOLEAN /\ (pending => f = THRESHOLD)
  BY <1>1 DEF PolicyInv, DeferredResetIsDue
<1>3. CASE f < THRESHOLD \/ cool < COOLDOWN
  <2>1. NoReset(f, pending, cool)
    BY <1>3 DEF NoteFailure
  <2> QED BY <2>1, <1>1, <1>2, NoResetPolicy
<1>4. CASE ~(f < THRESHOLD \/ cool < COOLDOWN)
  <2>1. f = THRESHOLD /\ cool = COOLDOWN
    BY <1>1, <1>4, ModemAssumption
  <2>2. CASE isActive
    <3>1. NoReset(f, TRUE, cool)
      BY <1>4, <2>2 DEF NoteFailure
    <3> QED BY <3>1, <1>1, <2>1, NoResetPolicy
  <2>3. CASE ~isActive
    <3>1. HardReset(f)
      BY <1>4, <2>3 DEF NoteFailure
    <3> QED BY <3>1, <2>1, <2>3, HardResetPolicy
  <2> QED BY <2>2, <2>3
<1> QED BY <1>3, <1>4

(* A reset that was put off is due whenever there is no call. *)
LEMMA DeferredPolicy ==
  ASSUME PolicyInv, process = "up", active' = FALSE,
         NEW cool \in 0 .. COOLDOWN, pending => cool = COOLDOWN,
         RunDeferredReset(cool)
  PROVE  PolicyInv'
<1>1. CASE pending
  <2>1. HardReset(failures) /\ failures = THRESHOLD
    BY <1>1 DEF RunDeferredReset, PolicyInv, DeferredResetIsDue
  <2> QED BY <2>1, HardResetPolicy
<1>2. CASE ~pending
  <2>1. NoReset(failures, FALSE, cool)
    BY <1>2 DEF RunDeferredReset, PolicyInv
  <2> QED BY <2>1, <1>2, NoResetPolicy DEF PolicyInv
<1> QED BY <1>1, <1>2
-----------------------------------------------------------------------------
(* The call's parts (modem_hal.c 993-1166). *)

(* A call given up is no call, and a line that the HAL may have left open has its
   excuse. *)
LEMMA CallOverAth ==
  ASSUME CallInv, NEW s \in {"IDLE", "ENDED", "FAILED"}, CallOver(s), Ath
  PROVE  CallInv'
<1>1. CallClocks'
  BY ModemAssumption DEF CallOver, CallClocks
<1>2. CallPlaces'
  <2>1. active' = FALSE /\ status' \in {"IDLE", "ENDED", "FAILED"}
    BY DEF CallOver
  <2>2. \/ line' = "down" /\ excuse' \in BOOLEAN
        \/ line' = line /\ excuse' = TRUE
    BY DEF CallInv, CallPlaces, Ath
  <2> QED
    BY <2>1, <2>2 DEF CallInv, CallPlaces, StatusMatchesCall, OutgoingCallIsTracked, Outgoing
<1> QED BY <1>1, <1>2 DEF CallInv

LEMMA CallOverOnLine ==
  ASSUME CallInv, NEW s \in {"IDLE", "ENDED", "FAILED"}, CallOver(s),
         line' = line, excuse' \in BOOLEAN, line \in Outgoing => excuse'
  PROVE  CallInv'
<1>1. CallClocks'
  BY ModemAssumption DEF CallOver, CallClocks
<1>2. CallPlaces'
  BY DEF CallInv, CallPlaces, CallOver, StatusMatchesCall, OutgoingCallIsTracked
<1> QED BY <1>1, <1>2 DEF CallInv

(* No part of the policy looks at the call's clocks, nor the other way round. *)
LEMMA SameCall ==
  ASSUME CallInv, UNCHANGED <<call, line, excuse>>
  PROVE  CallInv'
  BY DEF CallInv, CallClocks, CallPlaces, call, StatusMatchesCall, OutgoingCallIsTracked,
         Outgoing

LEMMA SamePolicy ==
  ASSUME PolicyInv, UNCHANGED <<process, active, policy, gpio, gpio_failed>>
  PROVE  PolicyInv'
  BY DEF PolicyInv, policy, gpio, DeferredResetIsDue, ResetSparesCall, ModemIsNotHeldInReset

(* Outside a tick and a pulse the cooldown stands or, on a failure that resets,
   was full already. *)
LEMMA SameSpacing ==
  ASSUME SpacingInv, UNCHANGED pulses, cooldown' = cooldown
  PROVE  SpacingInv'
  BY DEF SpacingInv, pulses

(* What the policy's parts do to the cooldown, when it was at cool, and that they
   raise the reset line only at its end. *)
LEMMA PolicyCooldown ==
  ASSUME NEW cool \in 0 .. COOLDOWN, NEW isActive \in BOOLEAN,
         PolicyInv, process = "up",
         NoteFailure(isActive, cool) \/ RunDeferredReset(cool)
  PROVE  cooldown' = cool /\ (process' = "resets" => cool = COOLDOWN)
<1>1. cool < COOLDOWN \/ cool = COOLDOWN
  BY ModemAssumption
<1> QED
  BY <1>1 DEF NoteFailure, RunDeferredReset, NoReset, HardReset, PolicyInv

(* Time that passes keeps the spacing. *)
LEMMA TickSpacing ==
  ASSUME PolicyInv, SpacingInv, NEW e \in Nat,
         cooldown' = SaturatingAdd(cooldown, e, COOLDOWN),
         since_reset' = SaturatingAdd(since_reset, e, COOLDOWN),
         restarted' = restarted
  PROVE  SpacingInv'
<1>1. cooldown \in Nat /\ since_reset \in Nat /\ COOLDOWN \in Nat
  BY ModemAssumption DEF PolicyInv, SpacingInv
<1>2. since_reset' \in 0 .. COOLDOWN
  BY <1>1, Saturates
<1>3. cooldown <= since_reset => cooldown' <= since_reset'
  BY <1>1, SaturatesInOrder
<1> QED BY <1>2, <1>3 DEF SpacingInv
-----------------------------------------------------------------------------
(* The line on its own. *)
LEMMA LinePreserves ==
  ASSUME IInv, CalleeAnswers \/ LineDrops \/ IncomingCall
  PROVE  IInv'
<1>1. /\ line' \in Outgoing \cup {"down", "incoming"}
      /\ line' \in Outgoing => line \in Outgoing
      /\ UNCHANGED <<process, call, policy, gpio, sms_fault, unnoticed, excuse,
                     pulses, gpio_failed>>
  BY DEF CalleeAnswers, LineDrops, IncomingCall, Outgoing
<1>2. CallClocks'
  BY <1>1 DEF IInv, CallInv, CallClocks, call
<1>3. CallPlaces'
  BY <1>1 DEF IInv, CallInv, CallPlaces, call, StatusMatchesCall, OutgoingCallIsTracked
<1>4. PolicyInv'
  BY <1>1, SamePolicy DEF IInv, call
<1>5. SpacingInv'
  BY <1>1, SameSpacing DEF IInv, policy
<1> QED BY <1>1, <1>2, <1>3, <1>4, <1>5 DEF IInv, CallInv

(* Starts and ends of the process (modem_hal.c 42-51, 181-211). *)
LEMMA ProcessPreserves ==
  ASSUME IInv, ProcessStarts \/ ProcessEnds
  PROVE  IInv'
<1>1. CASE ProcessStarts
  <2>1. CallInv'
    BY <1>1, SameCall DEF IInv, ProcessStarts
  <2>2. PolicyInv'
    <3>1. /\ active' = active /\ active = FALSE /\ process' = "up"
          /\ UNCHANGED <<failures, pending, cooldown>>
      BY <1>1 DEF IInv, PolicyInv, ProcessStarts, call, policy
    <3>2. /\ initialized' \in BOOLEAN /\ reset_line' \in BOOLEAN /\ gpio_failed' \in BOOLEAN
          /\ gpio_failed' \/ ~reset_line'
      BY <1>1 DEF IInv, PolicyInv, ProcessStarts, gpio
    <3> QED
      BY <3>1, <3>2 DEF IInv, PolicyInv, DeferredResetIsDue, ResetSparesCall,
                        ModemIsNotHeldInReset
  <2>3. SpacingInv'
    BY <1>1, SameSpacing DEF IInv, ProcessStarts, policy
  <2> QED BY <1>1, <2>1, <2>2, <2>3 DEF IInv, ProcessStarts
<1>2. CASE ProcessEnds
  <2>1. /\ active' = FALSE /\ status' = "IDLE" /\ excuse' = TRUE
        /\ line' \in {"down", line}
        /\ process' = "down" /\ pending' = FALSE /\ initialized' = FALSE
        /\ restarted' = TRUE /\ sms_fault' = FALSE
        /\ UNCHANGED <<reset_line, since_reset, gpio_failed>>
    BY <1>2 DEF ProcessEnds, CallOver
  <2>2. CallClocks'
    BY <1>2, ModemAssumption DEF ProcessEnds, CallOver, CallClocks
  <2>3. CallPlaces'
    BY <2>1 DEF IInv, CallInv, CallPlaces, StatusMatchesCall, OutgoingCallIsTracked
  <2>4. failures' \in 0 .. THRESHOLD /\ cooldown' \in 0 .. COOLDOWN
    BY <1>2, ModemAssumption DEF ProcessEnds
  <2>5. PolicyInv'
    BY <2>1, <2>4 DEF IInv, PolicyInv, DeferredResetIsDue, ResetSparesCall, ModemIsNotHeldInReset
  <2>6. SpacingInv'
    BY <2>1 DEF IInv, SpacingInv
  <2> QED BY <2>1, <2>2, <2>3, <2>5, <2>6 DEF IInv, CallInv
<1> QED BY <1>1, <1>2

(* The end of a pulse (modem_hal.c 242-278). *)
LEMMA PulsePreserves ==
  ASSUME IInv, PulseEnds \/ PulseSticks
  PROVE  IInv'
<1>1. /\ line' = "down" /\ process' = "up" /\ active = FALSE /\ sms_fault' = sms_fault
      /\ UNCHANGED <<call, unnoticed, excuse, initialized>>
  BY DEF IInv, PolicyInv, ResetSparesCall, PulseEnds, PulseSticks, gpio
<1>2. CallClocks'
  BY <1>1 DEF IInv, CallInv, CallClocks, call
<1>3. CallPlaces'
  BY <1>1 DEF IInv, CallInv, CallPlaces, call, StatusMatchesCall, OutgoingCallIsTracked, Outgoing
<1>4. CASE PulseEnds
  <2>1. failures' \in 0 .. THRESHOLD /\ cooldown' \in 0 .. COOLDOWN /\ cooldown' = 0
    BY <1>4, ModemAssumption DEF IInv, PolicyInv, PulseEnds
  <2>2. PolicyInv'
    BY <1>1, <1>4, <2>1
       DEF IInv, PolicyInv, PulseEnds, call, DeferredResetIsDue, ResetSparesCall,
           ModemIsNotHeldInReset
  <2>3. SpacingInv'
    <3>1. since_reset' \in 0 .. COOLDOWN /\ cooldown' <= since_reset'
      BY <1>4, <2>1, ModemAssumption DEF PulseEnds
    <3> QED BY <1>4, <3>1 DEF PulseEnds, SpacingInv
  <2> QED BY <1>1, <1>2, <1>3, <2>2, <2>3 DEF IInv, CallInv
<1>5. CASE PulseSticks
  <2>1. PolicyInv'
    BY <1>1, <1>5
       DEF IInv, PolicyInv, PulseSticks, call, policy, gpio, DeferredResetIsDue,
           ResetSparesCall, ModemIsNotHeldInReset
  <2>2. SpacingInv'
    BY <1>5, SameSpacing DEF IInv, PulseSticks, policy
  <2> QED BY <1>1, <1>2, <1>3, <2>1, <2>2 DEF IInv, CallInv
<1> QED BY <1>4, <1>5

(* modem_send_sms (modem_hal.c 944-981) *)
LEMMA SmsPreserves ==
  ASSUME IInv, SmsSent \/ SmsFails
  PROVE  IInv'
<1>1. /\ process = "up" /\ active' = active /\ active \in BOOLEAN
      /\ cooldown \in 0 .. COOLDOWN /\ (pending => cooldown = COOLDOWN)
      /\ sms_fault' \in BOOLEAN /\ UNCHANGED pulses
  BY DEF SmsSent, SmsFails, call, IInv, PolicyInv, DeferredResetIsDue
<1>2. CallInv'
  BY SameCall DEF IInv, SmsSent, SmsFails
<1>3. PolicyInv' /\ cooldown' = cooldown
  <2>1. CASE SmsSent
    BY <1>1, <2>1, SuccessPolicy DEF IInv, SmsSent, NoteSuccess
  <2>2. CASE SmsFails
    BY <1>1, <2>2, FailurePolicy, PolicyCooldown DEF IInv, SmsFails
  <2> QED BY <2>1, <2>2
<1>4. SpacingInv'
  BY <1>1, <1>3, SameSpacing DEF IInv
<1> QED BY <1>1, <1>2, <1>3, <1>4 DEF IInv

(* modem_make_voice_call (modem_hal.c 993-1069) *)
LEMMA DialPreserves ==
  ASSUME IInv, Dialled \/ DialFails
  PROVE  IInv'
<1>1. /\ process = "up" /\ active = FALSE
      /\ cooldown \in 0 .. COOLDOWN /\ (pending => cooldown = COOLDOWN)
      /\ sms_fault' = sms_fault /\ UNCHANGED pulses
  BY DEF Dialled, DialFails, IInv, CallInv, CallPlaces, PolicyInv, DeferredResetIsDue
<1>2. line' \in Outgoing \cup {"down", "incoming"}
  BY DEF IInv, CallInv, CallPlaces, Dialled, DialFails, Outgoing
<1>3. CASE Dialled
  <2>1. CallClocks'
    BY <1>3, ModemAssumption DEF Dialled, CallClocks
  <2>2. CallPlaces'
    BY <1>2, <1>3 DEF Dialled, CallPlaces, StatusMatchesCall, OutgoingCallIsTracked
  <2>3. PolicyInv' /\ cooldown' = cooldown
    BY <1>1, <1>3, SuccessPolicy DEF IInv, Dialled, NoteSuccess
  <2>4. SpacingInv'
    BY <1>1, <2>3, SameSpacing DEF IInv
  <2> QED BY <1>1, <2>1, <2>2, <2>3, <2>4 DEF IInv, CallInv
<1>4. CASE DialFails
  <2>1. CallClocks'
    BY <1>4 DEF IInv, CallInv, DialFails, CallClocks, call
  <2>2. CallPlaces'
    <3>1. /\ UNCHANGED <<active, status>>
          /\ UNCHANGED <<line, excuse>> \/ excuse' = TRUE
      BY <1>4 DEF DialFails, call
    <3> QED BY <1>2, <3>1 DEF IInv, CallInv, CallPlaces, StatusMatchesCall, OutgoingCallIsTracked
  <2>3. PolicyInv' /\ cooldown' = cooldown
    BY <1>1, <1>4, FailurePolicy, PolicyCooldown DEF IInv, DialFails, call
  <2>4. SpacingInv'
    BY <1>1, <2>3, SameSpacing DEF IInv
  <2> QED BY <1>1, <2>1, <2>2, <2>3, <2>4 DEF IInv, CallInv
<1> QED BY <1>3, <1>4

(* modem_hangup_voice_call and modem_prepare_for_next_voice_call
   (modem_hal.c 1071-1166) *)
LEMMA HangUpPreserves ==
  ASSUME IInv, HangUp
  PROVE  IInv'
<1>1. CallInv'
  <2>1. CASE active
    BY <2>1, CallOverAth DEF IInv, HangUp
  <2>2. CASE ~active
    <3>1. /\ status' = "IDLE"
          /\ UNCHANGED <<active, call_elapsed, poll_elapsed, line, excuse>>
      BY <2>2 DEF HangUp
    <3>2. CallClocks'
      BY <3>1 DEF IInv, CallInv, CallClocks
    <3>3. CallPlaces'
      BY <2>2, <3>1 DEF IInv, CallInv, CallPlaces, StatusMatchesCall, OutgoingCallIsTracked
    <3> QED BY <3>2, <3>3 DEF CallInv
  <2> QED BY <2>1, <2>2
<1>2. PolicyInv'
  <2>1. active' \in BOOLEAN /\ process' = "up"
    BY <1>1 DEF CallInv, CallPlaces, HangUp
  <2> QED
    BY <2>1 DEF IInv, PolicyInv, HangUp, policy, gpio, DeferredResetIsDue, ResetSparesCall,
                ModemIsNotHeldInReset
<1>3. SpacingInv'
  BY SameSpacing DEF IInv, HangUp, policy
<1> QED BY <1>1, <1>2, <1>3 DEF IInv, HangUp

LEMMA SettlePreserves ==
  ASSUME IInv, Settles \/ SettleFails
  PROVE  IInv'
<1>1. /\ process = "up" /\ active' = FALSE
      /\ cooldown \in 0 .. COOLDOWN /\ (pending => cooldown = COOLDOWN)
      /\ sms_fault' = sms_fault /\ UNCHANGED pulses
  BY DEF Settles, SettleFails, CallOver, IInv, PolicyInv, DeferredResetIsDue
<1>2. CallInv'
  BY CallOverAth DEF IInv, Settles, SettleFails
<1>3. PolicyInv' /\ cooldown' = cooldown
  <2>1. CASE Settles
    BY <1>1, <2>1, SuccessPolicy DEF IInv, Settles, NoteSuccess
  <2>2. CASE SettleFails
    BY <1>1, <2>2, FailurePolicy, PolicyCooldown DEF IInv, SettleFails
  <2> QED BY <2>1, <2>2
<1>4. SpacingInv'
  BY <1>1, <1>3, SameSpacing DEF IInv
<1> QED BY <1>1, <1>2, <1>3, <1>4 DEF IInv
-----------------------------------------------------------------------------
(* modem_hal_tick (modem_hal.c 1168-1278): what its ways out have in common, and
   what each does. *)
LEMMA TickPreserves ==
  ASSUME IInv, Tick
  PROVE  IInv'
<1> DEFINE Cool(e) == SaturatingAdd(cooldown, e, COOLDOWN)
<1>1. PICK e \in 1 .. MAX_ELAPSED :
        /\ \/ TickIdle(e) \/ TickCaps(e) \/ TickWaits(e)
           \/ TickSeesCall(e) \/ TickSeesEnd(e) \/ TickPollFails(e)
        /\ since_reset' = SaturatingAdd(since_reset, e, COOLDOWN)
  BY DEF Tick
<1>2. /\ process = "up" /\ sms_fault' = sms_fault /\ restarted' = restarted
      /\ e \in Nat /\ e > 0
  BY ModemAssumption DEF Tick
<1>3. /\ Cool(e) \in 0 .. COOLDOWN /\ (pending => Cool(e) = COOLDOWN)
  BY <1>2, ModemAssumption, Saturates DEF IInv, PolicyInv, DeferredResetIsDue, SaturatingAdd
<1>4. SUFFICES CallInv' /\ PolicyInv' /\ cooldown' = Cool(e)
  BY <1>1, <1>2, TickSpacing DEF IInv
<1>5. ASSUME active' = FALSE, RunDeferredReset(Cool(e))
      PROVE  PolicyInv' /\ cooldown' = Cool(e)
  BY <1>2, <1>3, <1>5, DeferredPolicy, PolicyCooldown DEF IInv
<1>6. ASSUME active' = active, NoReset(failures, pending, Cool(e))
      PROVE  PolicyInv' /\ cooldown' = Cool(e)
  <2>1. active' \in BOOLEAN /\ failures \in 0 .. THRESHOLD /\ pending \in BOOLEAN
        /\ (pending => failures = THRESHOLD /\ Cool(e) = COOLDOWN)
    BY <1>3, <1>6 DEF IInv, PolicyInv, DeferredResetIsDue
  <2> QED BY <1>2, <1>3, <1>6, <2>1, NoResetPolicy DEF IInv, NoReset
<1>7. CASE TickIdle(e)
  BY <1>5, <1>7, SameCall DEF IInv, CallInv, CallPlaces, TickIdle, call
<1>8. CASE TickCaps(e)
  BY <1>5, <1>8, CallOverAth DEF IInv, TickCaps, CallOver
<1>9. CASE TickWaits(e)
  <2>1. CallClocks'
    BY <1>2, <1>9, ModemAssumption
       DEF IInv, CallInv, CallClocks, TickWaits, CallTime, PollTime, SaturatingAdd
  <2>2. CallPlaces'
    BY <1>9 DEF IInv, CallInv, CallPlaces, TickWaits, StatusMatchesCall, OutgoingCallIsTracked
  <2> QED BY <1>6, <1>9, <2>1, <2>2 DEF CallInv, TickWaits
<1>10. CASE TickSeesCall(e)
  <2>1. CallClocks'
    BY <1>2, <1>10, ModemAssumption
       DEF IInv, CallInv, CallClocks, TickSeesCall, CallTime, SaturatingAdd
  <2>2. status' \in {"DIALING", "ACTIVE"}
    BY <1>10 DEF TickSeesCall, ClccStatus, Outgoing
  <2>3. CallPlaces'
    BY <1>10, <2>2
       DEF IInv, CallInv, CallPlaces, TickSeesCall, StatusMatchesCall, OutgoingCallIsTracked
  <2> QED BY <1>6, <1>10, <2>1, <2>3 DEF CallInv, TickSeesCall
<1>11. CASE TickSeesEnd(e)
  <2>1. active' = FALSE /\ RunDeferredReset(Cool(e)) /\ line' = line
    BY <1>11 DEF TickSeesEnd, CallOver
  <2>2. CASE line \notin Outgoing /\ CallOver(ClccStatus) /\ UNCHANGED excuse
    <3>1. ClccStatus \in {"IDLE", "ENDED", "FAILED"}
      BY <2>2 DEF ClccStatus, Outgoing, IInv, CallInv, CallPlaces
    <3>2. excuse' \in BOOLEAN
      BY <2>2 DEF IInv, CallInv, CallPlaces
    <3> QED BY <1>5, <2>1, <2>2, <3>1, <3>2, CallOverOnLine DEF IInv
  <2>3. CASE CallOver("ENDED") /\ excuse' = TRUE
    BY <1>5, <2>1, <2>3, CallOverOnLine DEF IInv
  <2>4. CASE CallOver("FAILED") /\ excuse' = TRUE
    BY <1>5, <2>1, <2>4, CallOverOnLine DEF IInv
  <2> QED BY <1>11, <2>2, <2>3, <2>4 DEF TickSeesEnd
<1>12. CASE TickPollFails(e)
  <2>1. active' = FALSE /\ CallInv'
    BY <1>12, CallOverOnLine DEF IInv, TickPollFails, CallOver
  <2>2. CASE pending /\ Cool(e) = COOLDOWN
    <3>1. SaturatingAdd(failures, 1, THRESHOLD) = THRESHOLD
      BY <2>2, Counts DEF IInv, PolicyInv, DeferredResetIsDue
    <3>2. HardReset(THRESHOLD)
      BY <1>12, <2>2, <3>1 DEF TickPollFails
    <3> QED BY <1>2, <2>1, <2>2, <3>2, HardResetPolicy DEF IInv, HardReset
  <2>3. CASE ~(pending /\ Cool(e) = COOLDOWN)
    <3>1. NoteFailure(FALSE, Cool(e))
      BY <1>12, <2>3 DEF TickPollFails
    <3> QED BY <1>2, <1>3, <2>1, <3>1, FailurePolicy, PolicyCooldown DEF IInv
  <2> QED BY <2>1, <2>2, <2>3
<1> QED BY <1>1, <1>7, <1>8, <1>9, <1>10, <1>11, <1>12
-----------------------------------------------------------------------------
(* Every step of every thread, of the network and of the process keeps IInv. *)
LEMMA NextInv == IInv /\ [Next]_vars => IInv'
<1> SUFFICES ASSUME IInv, [Next]_vars PROVE IInv'
  OBVIOUS
<1>1. CASE CalleeAnswers \/ LineDrops \/ IncomingCall
  BY <1>1, LinePreserves
<1>2. CASE ProcessStarts \/ ProcessEnds
  BY <1>2, ProcessPreserves
<1>3. CASE PulseEnds \/ PulseSticks
  BY <1>3, PulsePreserves
<1>4. CASE SmsSent \/ SmsFails
  BY <1>4, SmsPreserves
<1>5. CASE Dialled \/ DialFails
  BY <1>5, DialPreserves
<1>6. CASE HangUp
  BY <1>6, HangUpPreserves
<1>7. CASE Settles \/ SettleFails
  BY <1>7, SettlePreserves
<1>8. CASE Tick
  BY <1>8, TickPreserves
<1>9. CASE UNCHANGED vars
  <2>1. CallInv'
    BY <1>9, SameCall DEF IInv, vars
  <2>2. PolicyInv'
    BY <1>9, SamePolicy DEF IInv, vars, call
  <2>3. SpacingInv'
    BY <1>9, SameSpacing DEF IInv, vars, policy
  <2> QED BY <1>9, <2>1, <2>2, <2>3 DEF IInv, vars
<1> QED
  BY <1>1, <1>2, <1>3, <1>4, <1>5, <1>6, <1>7, <1>8, <1>9 DEF Next

(* The strengthened invariant: the HAL's call with the line's, the policy's counters
   with one another, and the cooldown with the time since the last pulse. *)
THEOREM InvHolds == Spec => []IInv
<1>1. Init => IInv
  BY InitInv
<1>2. IInv /\ [Next]_vars => IInv'
  BY NextInv
<1> QED BY <1>1, <1>2, PTL DEF Spec

(* A step that adds no time to a dead call leaves the count, or starts it anew. *)
LEMMA NoticeElsewhere ==
  ASSUME IInv, NoticeInv, [Next]_vars, ~Tick
  PROVE  \/ unnoticed' = 0
         \/ unnoticed' = unnoticed /\ active' = active /\ poll_elapsed' = poll_elapsed
<1>1. CASE CalleeAnswers \/ LineDrops \/ IncomingCall \/ UNCHANGED vars
  BY <1>1 DEF CalleeAnswers, LineDrops, IncomingCall, vars, call
<1>2. CASE ProcessStarts \/ ProcessEnds \/ PulseEnds \/ PulseSticks
  BY <1>2 DEF ProcessStarts, ProcessEnds, PulseEnds, PulseSticks, call
<1>3. CASE SmsSent \/ SmsFails \/ Dialled \/ DialFails
  BY <1>3 DEF SmsSent, SmsFails, Dialled, DialFails, call
<1>4. CASE HangUp \/ Settles \/ SettleFails
  BY <1>4 DEF HangUp, Settles, SettleFails
<1> QED BY <1>1, <1>2, <1>3, <1>4 DEF Next

(* A pass of main adds its time, and polls when the clock is full. *)
LEMMA NoticeInTick ==
  ASSUME IInv, NoticeInv, Tick
  PROVE  NoticeInv'
<1>1. PICK e \in 1 .. MAX_ELAPSED :
        /\ \/ TickIdle(e) \/ TickCaps(e) \/ TickWaits(e)
           \/ TickSeesCall(e) \/ TickSeesEnd(e) \/ TickPollFails(e)
        /\ unnoticed' = IF active /\ line \notin Outgoing THEN unnoticed + e ELSE 0
  BY DEF Tick
<1>2. /\ e \in Nat /\ e <= MAX_ELAPSED /\ MAX_ELAPSED \in Nat /\ STATUS_POLL \in Nat \ {0}
      /\ poll_elapsed \in 0 .. STATUS_POLL - 1
  BY ModemAssumption DEF IInv, CallInv, CallClocks
<1>3. unnoticed' \in Nat /\ unnoticed' < STATUS_POLL + MAX_ELAPSED
  BY <1>1, <1>2 DEF NoticeInv
<1>4. ASSUME active'
      PROVE  unnoticed' <= poll_elapsed'
  <2>1. CASE TickWaits(e)
    <3>1. active /\ poll_elapsed' = poll_elapsed + e
      BY <1>2, <2>1 DEF TickWaits, PollTime, SaturatingAdd
    <3> QED BY <1>1, <1>2, <3>1 DEF NoticeInv
  <2>2. CASE TickSeesCall(e)
    BY <1>1, <2>2 DEF TickSeesCall
  <2>3. CASE TickIdle(e) \/ TickCaps(e) \/ TickSeesEnd(e) \/ TickPollFails(e)
    BY <1>4, <2>3 DEF TickIdle, TickCaps, TickSeesEnd, TickPollFails, CallOver, call
  <2> QED BY <1>1, <2>1, <2>2, <2>3
<1> QED BY <1>3, <1>4 DEF NoticeInv

(* The time a dead call is held on to is bounded, whatever the threads, the modem
   and the network do. *)
THEOREM NoticeHolds == Spec => []NoticeInv
<1>1. Init => NoticeInv
  BY ModemAssumption DEF Init, NoticeInv
<1>2. IInv /\ IInv' /\ NoticeInv /\ [Next]_vars => NoticeInv'
  <2> SUFFICES ASSUME IInv, IInv', NoticeInv, [Next]_vars PROVE NoticeInv'
    OBVIOUS
  <2>1. CASE Tick
    BY <2>1, NoticeInTick
  <2>2. CASE ~Tick
    <3>1. \/ unnoticed' = 0
          \/ unnoticed' = unnoticed /\ active' = active /\ poll_elapsed' = poll_elapsed
      BY <2>2, NoticeElsewhere
    <3>2. poll_elapsed' \in 0 .. STATUS_POLL - 1
      BY DEF IInv, CallInv, CallClocks
    <3> QED BY <3>1, <3>2, ModemAssumption DEF NoticeInv
  <2> QED BY <2>1, <2>2
<1> QED BY <1>1, <1>2, InvHolds, PTL DEF Spec

(* Every variable keeps its type, for passes of any length: a clock that is set
   past its limit stops there (modem_hal.c 145-156, 1183-1216). *)
THEOREM ModemTypeCorrect == Spec => []TypeOK
<1>1. IInv /\ NoticeInv => TypeOK
  BY InvImplies
<1> QED BY <1>1, InvHolds, NoticeHolds, PTL

(* No call rings on unknown to the HAL unless an AT command failed or the process
   died (modem_hal.c 993-1278). *)
THEOREM CallsAreTracked == Spec => []OutgoingCallIsTracked
<1>1. IInv => OutgoingCallIsTracked
  BY DEF IInv, CallInv, CallPlaces
<1> QED BY <1>1, InvHolds, PTL

(* A call that is over is held on to for less than a poll interval and the longest
   pass of the main loop, the pass that gives it up included, for every poll
   interval and every bound on the passes (modem_hal.c 1168-1278). *)
THEOREM DeadCallsAreNoticed == Spec => []DeadCallIsNoticed
<1>1. IInv /\ NoticeInv => DeadCallIsNoticed
  BY InvImplies
<1> QED BY <1>1, InvHolds, NoticeHolds, PTL

(* A reset put off waits for the end of the call alone, and no reset meets a call
   of the HAL (modem_hal.c 103-174). *)
THEOREM DeferredResets == Spec => [](DeferredResetIsDue /\ ResetSparesCall)
<1>1. IInv => DeferredResetIsDue /\ ResetSparesCall
  BY DEF IInv, PolicyInv
<1> QED BY <1>1, InvHolds, PTL

(* A process that dies in the middle of a pulse does not leave the modem in reset
   (modem_hal.c 181-211). *)
THEOREM ModemIsReleased == Spec => []ModemIsNotHeldInReset
<1>1. IInv => ModemIsNotHeldInReset
  BY DEF IInv, PolicyInv
<1> QED BY <1>1, InvHolds, PTL

(* A step that raises the reset line finds the cooldown full. *)
LEMMA RaiseAtFullCooldown ==
  ASSUME IInv, Next, process = "up", process' = "resets"
  PROVE  cooldown' = COOLDOWN /\ restarted' = restarted
<1>1. HardReset(failures') \/ HardReset(THRESHOLD)
  <2>1. ASSUME NEW isActive, NEW cool, NoteFailure(isActive, cool)
        PROVE  HardReset(failures')
    BY <2>1 DEF NoteFailure, NoReset, HardReset
  <2>2. ASSUME NEW cool, RunDeferredReset(cool)
        PROVE  HardReset(failures')
    BY <2>2 DEF RunDeferredReset, NoReset, HardReset
  <2> QED
    BY <2>1, <2>2
       DEF Next, CalleeAnswers, LineDrops, IncomingCall, ProcessStarts, ProcessEnds, PulseEnds,
           PulseSticks, SmsSent, SmsFails, Dialled, DialFails, HangUp, Settles, SettleFails,
           NoteSuccess, NoReset, HardReset, Tick, TickIdle, TickCaps, TickWaits, TickSeesCall,
           TickSeesEnd, TickPollFails
<1>2. cooldown' = COOLDOWN
  BY <1>1 DEF HardReset
<1>3. restarted' = restarted
  BY DEF Next, CalleeAnswers, LineDrops, IncomingCall, ProcessStarts, ProcessEnds, PulseEnds,
         PulseSticks, SmsSent, SmsFails, Dialled, DialFails, HangUp, Settles, SettleFails,
         Tick, pulses
<1> QED BY <1>2, <1>3

(* Resets of one process are the cooldown apart (modem_hal.c 122-129, 251). *)
THEOREM SpacedResets == Spec => ResetsAreSpaced
<1> DEFINE Spaced ==
      process = "up" /\ process' = "resets" => since_reset' = COOLDOWN \/ restarted
<1>1. IInv /\ [Next]_vars => [Spaced]_vars
  <2> SUFFICES ASSUME IInv, Next, process = "up", process' = "resets"
               PROVE  since_reset' = COOLDOWN \/ restarted
    BY DEF vars
  <2>1. cooldown' = COOLDOWN /\ restarted' = restarted
    BY RaiseAtFullCooldown
  <2>2. SpacingInv'
    BY NextInv DEF IInv
  <2>3. restarted' \/ since_reset' = COOLDOWN
    BY <2>1, <2>2, ModemAssumption DEF SpacingInv
  <2> QED BY <2>1, <2>3
<1> QED BY <1>1, InvHolds, PTL DEF Spec, ResetsAreSpaced
=============================================================================
