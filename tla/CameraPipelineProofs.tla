------------------------ MODULE CameraPipelineProofs ------------------------
(***************************************************************************)
(* Proofs about module CameraPipeline, for any cameras, places, queue and  *)
(* clocks.  The history variables follow the code in three ways, and the   *)
(* invariant has a part for each: counts, zones and clocks; the fourth     *)
(* part counts the results left from before the arming.                    *)
(***************************************************************************)
EXTENDS CameraPipeline, SequenceTheorems, TLAPS

(* The frames counted are those confirmed, none within the grace period. *)
FramesInv ==
  /\ frames = confirmed
  /\ \A c \in CAMERAS : frames[c] < REQUIRED_FRAMES
  /\ ~armed \/ camera_arm_grace_elapsed < CAMERA_ARM_GRACE => frames = None

(* The runtime misses no arming, and a disarm only in a running incident. *)
ZonesInv ==
  /\ armed => observed_armed
  /\ observed_armed => armed \/ alarm_triggered
  /\ ~observed_armed => zones = NoZones

(* What is left to wait, one of the two clocks has still to run. *)
WaitInv ==
  armed => \/ wait = 0
           \/ calibrating /\ wait + calibration_elapsed + pass <= STATIC_CALIBRATION
           \/ wait + camera_arm_grace_elapsed + pass <= CAMERA_ARM_GRACE

Left(c, i) == queue[i].stale /\ queue[i].source = c

(* Each camera has at most one result left from before the arming: in the queue, under
   way, or counted. *)
OneLeft(c) ==
  /\ \A i, j \in 1..Len(queue) : Left(c, i) /\ Left(c, j) => i = j
  /\ capture[c] = "stale" => \A i \in 1..Len(queue) : ~Left(c, i)
  /\ frames[c] # 0 /\ ~fresh[c] =>
       capture[c] # "stale" /\ \A i \in 1..Len(queue) : ~Left(c, i)

(* Until the pass of the arming has emptied the queue there may be more. *)
LeftInv ==
  armed => \/ camera_arm_grace_elapsed = 0 /\ pc \in {"commands", "drain"}
           \/ \A c \in CAMERAS : OneLeft(c)

IInv == TypeOK /\ FramesInv /\ ZonesInv /\ WaitInv /\ LeftInv
-----------------------------------------------------------------------------
(* What the steps do to the queue. *)

\* Publishing keeps the queue within its capacity, and its results are those it had,
\* moved up by one if the oldest was dropped, and the new one last.
LEMMA PublishedProperties ==
  ASSUME CameraAssumption, NEW q \in Seq(Results), Len(q) <= QUEUE_CAPACITY, NEW r \in Results
  PROVE  /\ Published(q, r) \in Seq(Results)
         /\ Len(Published(q, r)) \in 1..QUEUE_CAPACITY
         /\ Published(q, r)[Len(Published(q, r))] = r
         /\ \E d \in {0, 1} : \A i \in 1..(Len(Published(q, r)) - 1) :
              i + d \in 1..Len(q) /\ Published(q, r)[i] = q[i + d]
<1>1. Len(q) \in Nat /\ QUEUE_CAPACITY \in Nat \ {0}
  BY LenProperties DEF CameraAssumption
<1>2. CASE Len(q) = QUEUE_CAPACITY
  <2>1. q # <<>>
    BY <1>1, <1>2
  <2>2. /\ Tail(q) \in Seq(Results) /\ Len(Tail(q)) = Len(q) - 1
        /\ \A i \in 1..Len(Tail(q)) : Tail(q)[i] = q[i + 1]
    BY <2>1, HeadTailProperties
  <2>3. Published(q, r) = Append(Tail(q), r)
    BY <1>2 DEF Published
  <2>4. /\ Append(Tail(q), r) \in Seq(Results)
        /\ Len(Append(Tail(q), r)) = Len(Tail(q)) + 1
        /\ \A i \in 1..Len(Tail(q)) : Append(Tail(q), r)[i] = Tail(q)[i]
        /\ Append(Tail(q), r)[Len(Tail(q)) + 1] = r
    BY <2>2, AppendProperties
  <2>5. \A i \in 1..(Len(Published(q, r)) - 1) :
          i + 1 \in 1..Len(q) /\ Published(q, r)[i] = q[i + 1]
    BY <1>1, <2>2, <2>3, <2>4
  <2> QED
    BY <1>1, <1>2, <2>2, <2>3, <2>4, <2>5
<1>3. CASE Len(q) # QUEUE_CAPACITY
  <2>1. Published(q, r) = Append(q, r)
    BY <1>3 DEF Published
  <2>2. /\ Append(q, r) \in Seq(Results)
        /\ Len(Append(q, r)) = Len(q) + 1
        /\ \A i \in 1..Len(q) : Append(q, r)[i] = q[i]
        /\ Append(q, r)[Len(q) + 1] = r
    BY AppendProperties
  <2>3. \A i \in 1..(Len(Published(q, r)) - 1) :
          i + 0 \in 1..Len(q) /\ Published(q, r)[i] = q[i + 0]
    BY <1>1, <2>1, <2>2
  <2> QED
    BY <1>1, <1>3, <2>1, <2>2, <2>3
<1> QED
  BY <1>2, <1>3

\* Ageing keeps the length and every source.
LEMMA AgedProperties ==
  ASSUME NEW q \in Seq(Results)
  PROVE  Aged(q) \in Seq(Results) /\ Len(Aged(q)) = Len(q)
<1>1. Len(q) \in Nat /\ q \in [1..Len(q) -> Results] /\ DOMAIN q = 1..Len(q)
  BY LenProperties
<1>2. \A i \in DOMAIN q : [q[i] EXCEPT !.stale = TRUE] \in Results
  BY <1>1 DEF Results
<1>3. Aged(q) \in [1..Len(q) -> Results]
  BY <1>1, <1>2 DEF Aged
<1> QED
  BY <1>1, <1>3, SeqDef

\* Main takes the oldest result and leaves the others in their order.
LEMMA ConsumesProperties ==
  ASSUME TypeOK, queue # <<>>
  PROVE  /\ Head(queue) \in Results /\ Head(queue) = queue[1] /\ 1 \in 1..Len(queue)
         /\ Tail(queue) \in Seq(Results)
         /\ Len(queue) \in Nat /\ Len(Tail(queue)) = Len(queue) - 1
         /\ \A i \in 1..Len(Tail(queue)) :
              i + 1 \in 1..Len(queue) /\ Tail(queue)[i] = queue[i + 1]
<1>1. queue \in Seq(Results)
  BY DEF TypeOK
<1>2. /\ Head(queue) \in Results
      /\ Tail(queue) \in Seq(Results)
      /\ Len(Tail(queue)) = Len(queue) - 1
      /\ \A i \in 1..Len(Tail(queue)) : Tail(queue)[i] = queue[i + 1]
  BY <1>1, HeadTailProperties
<1>3. Len(queue) \in Nat /\ Len(queue) # 0
  BY <1>1, LenProperties, EmptySeq
<1>4. Head(queue) = queue[1]
  BY <1>1, <1>3
<1> QED
  BY <1>2, <1>3, <1>4
-----------------------------------------------------------------------------
LEMMA NoZonesType ==
  CameraAssumption => NoZones \in [CAMERAS -> [PLACES -> 0..MIN_OCCURRENCES]]
<1> SUFFICES ASSUME CameraAssumption PROVE NoZones \in [CAMERAS -> [PLACES -> 0..MIN_OCCURRENCES]]
  OBVIOUS
<1>1. [p \in PLACES |-> 0] \in [PLACES -> 0..MIN_OCCURRENCES]
  BY DEF CameraAssumption
<1> QED
  BY <1>1 DEF NoZones

LEMMA InitInv == CameraAssumption => (Init => IInv)
<1> SUFFICES ASSUME CameraAssumption, Init PROVE IInv
  OBVIOUS
<1>1. queue \in Seq(Results) /\ Len(queue) = 0
  BY EmptySeq DEF Init
<1>2. TypeOK
  <2>1. zones \in [CAMERAS -> [PLACES -> 0..MIN_OCCURRENCES]]
    BY NoZonesType DEF Init
  <2>2. /\ frames \in [CAMERAS -> 0..REQUIRED_FRAMES]
        /\ confirmed \in [CAMERAS -> 0..REQUIRED_FRAMES]
        /\ capture \in [CAMERAS -> {"idle", "fresh", "stale"}]
        /\ fresh \in [CAMERAS -> BOOLEAN]
    BY DEF CameraAssumption, Init, None
  <2>3. wait \in 0..LongestWait /\ pass \in 0..MAX_PASS
    BY DEF CameraAssumption, Init, LongestWait
  <2>4. /\ queue \in Seq(Results) /\ Len(queue) <= QUEUE_CAPACITY
        /\ camera_arm_grace_elapsed \in 0..CAMERA_ARM_GRACE
        /\ calibration_elapsed \in 0..STATIC_CALIBRATION
    BY <1>1 DEF CameraAssumption, Init
  <2> QED
    BY <2>1, <2>2, <2>3, <2>4 DEF Init, TypeOK
<1>3. FramesInv
  BY DEF CameraAssumption, Init, FramesInv, None
<1> QED
  BY <1>2, <1>3 DEF Init, IInv, ZonesInv, WaitInv, LeftInv
-----------------------------------------------------------------------------
(* Types.  First the operators that several actions are made of. *)

LEMMA NoneType ==
  CameraAssumption => None \in [CAMERAS -> 0..REQUIRED_FRAMES] /\ 0 \in 0..REQUIRED_FRAMES
  BY DEF CameraAssumption, None

LEMMA SetArmedTypes ==
  ASSUME CameraAssumption, NEW next \in BOOLEAN, AlarmLogicSetArmed(next)
  PROVE  /\ armed' \in BOOLEAN
         /\ camera_arm_grace_elapsed' \in 0..CAMERA_ARM_GRACE
         /\ frames' \in [CAMERAS -> 0..REQUIRED_FRAMES]
  BY DEF AlarmLogicSetArmed, CameraAssumption, None

LEMMA NoteTypes ==
  ASSUME CameraAssumption, TypeOK, NEW now \in BOOLEAN, RuntimeNoteArmedState(now)
  PROVE  /\ observed_armed' \in BOOLEAN /\ calibrating' \in BOOLEAN
         /\ calibration_elapsed' \in 0..STATIC_CALIBRATION
         /\ zones' \in [CAMERAS -> [PLACES -> 0..MIN_OCCURRENCES]]
<1>1. CASE now = observed_armed
  BY <1>1 DEF RuntimeNoteArmedState, calib, TypeOK
<1>2. CASE now # observed_armed
  BY <1>2, NoZonesType DEF RuntimeNoteArmedState, CameraAssumption
<1> QED
  BY <1>1, <1>2

LEMMA NewArmingTypes ==
  ASSUME CameraAssumption, TypeOK, NewArming
  PROVE  /\ confirmed' \in [CAMERAS -> 0..REQUIRED_FRAMES]
         /\ fresh' \in [CAMERAS -> BOOLEAN]
         /\ wait' \in 0..LongestWait
<1>1. confirmed' \in [CAMERAS -> 0..REQUIRED_FRAMES] /\ fresh' \in [CAMERAS -> BOOLEAN]
  BY DEF NewArming, CameraAssumption, None
<1>2. pass \in Nat /\ LongestWait \in Nat
      /\ CAMERA_ARM_GRACE \in 0..LongestWait /\ STATIC_CALIBRATION \in 0..LongestWait
  BY DEF CameraAssumption, TypeOK, LongestWait
<1>3. wait' \in 0..LongestWait
  BY <1>2 DEF NewArming
<1> QED
  BY <1>1, <1>3

LEMMA AgedCaptureTypes ==
  AgedCapture \in [CAMERAS -> {"idle", "fresh", "stale"}]
  BY DEF AgedCapture

LEMMA TriggerTypes ==
  ASSUME CameraAssumption, TypeOK, Trigger
  PROVE  /\ armed' = FALSE /\ alarm_triggered' = TRUE
         /\ camera_arm_grace_elapsed' \in 0..CAMERA_ARM_GRACE
         /\ frames' \in [CAMERAS -> 0..REQUIRED_FRAMES]
         /\ observed_armed' \in BOOLEAN /\ calibrating' \in BOOLEAN
         /\ calibration_elapsed' \in 0..STATIC_CALIBRATION
         /\ zones' \in [CAMERAS -> [PLACES -> 0..MIN_OCCURRENCES]]
         /\ capture' \in [CAMERAS -> {"idle", "fresh", "stale"}]
         /\ confirmed' \in [CAMERAS -> 0..REQUIRED_FRAMES]
         /\ fresh' \in [CAMERAS -> BOOLEAN]
         /\ wait' \in 0..LongestWait
<1>1. /\ armed' = FALSE /\ alarm_triggered' = TRUE
      /\ camera_arm_grace_elapsed' \in 0..CAMERA_ARM_GRACE
      /\ frames' \in [CAMERAS -> 0..REQUIRED_FRAMES]
  <2>1. CASE armed
    BY <2>1, SetArmedTypes DEF Trigger, AlarmLogicSetArmed
  <2>2. CASE ~armed
    BY <2>2 DEF Trigger, TypeOK
  <2> QED
    BY <2>1, <2>2
<1>2. /\ observed_armed' \in BOOLEAN /\ calibrating' \in BOOLEAN
      /\ calibration_elapsed' \in 0..STATIC_CALIBRATION
      /\ zones' \in [CAMERAS -> [PLACES -> 0..MIN_OCCURRENCES]]
  <2>1. CASE alarm_triggered
    BY <2>1 DEF Trigger, TypeOK, calib
  <2>2. CASE ~alarm_triggered
    BY <2>2, NoteTypes DEF Trigger
  <2> QED
    BY <2>1, <2>2
<1>3. capture' \in [CAMERAS -> {"idle", "fresh", "stale"}]
  BY AgedCaptureTypes DEF Trigger
<1>4. NewArming
  BY DEF Trigger
<1> QED
  BY <1>1, <1>2, <1>3, <1>4, NewArmingTypes

LEMMA CountTypes ==
  ASSUME TypeOK, FramesInv, CameraAssumption, NEW r \in Results,
         \/ Innocent(r)
         \/ Suspicious(r) /\ frames[r.source] + 1 < REQUIRED_FRAMES
  PROVE  /\ confirmed' \in [CAMERAS -> 0..REQUIRED_FRAMES]
         /\ fresh' \in [CAMERAS -> BOOLEAN]
         /\ wait' \in 0..LongestWait
<1>1. r.source \in CAMERAS /\ r.stale \in BOOLEAN
  BY DEF Results
<1>2. fresh' \in [CAMERAS -> BOOLEAN] /\ wait' = wait
  BY <1>1 DEF TypeOK, Innocent, Suspicious
<1>3. confirmed' \in [CAMERAS -> 0..REQUIRED_FRAMES]
  <2>1. CASE Innocent(r)
    BY <1>1, <2>1 DEF TypeOK, CameraAssumption, Innocent
  <2>2. CASE Suspicious(r) /\ frames[r.source] + 1 < REQUIRED_FRAMES
    <3>1. confirmed[r.source] + 1 \in 0..REQUIRED_FRAMES
      BY <1>1, <2>2 DEF TypeOK, FramesInv, CameraAssumption
    <3> QED
      BY <2>2, <3>1 DEF TypeOK, Suspicious
  <2> QED
    BY <2>1, <2>2
<1> QED
  BY <1>2, <1>3 DEF TypeOK

LEMMA LearnedTypes ==
  ASSUME CameraAssumption, NEW zs \in [PLACES -> 0..MIN_OCCURRENCES], NEW p \in PLACES
  PROVE  Learned(zs, p) \in [PLACES -> 0..MIN_OCCURRENCES]
  BY DEF CameraAssumption, Learned

\* The queue and main's place after a result was taken.
LEMMA ConsumesTypes ==
  ASSUME CameraAssumption, TypeOK, NEW r, Consumes(r)
  PROVE  /\ queue' \in Seq(Results) /\ Len(queue') <= QUEUE_CAPACITY
         /\ pc' = pc /\ pass' = pass
<1>1. queue # <<>> /\ queue' = Tail(queue) /\ pc' = pc /\ pass' = pass
  BY DEF Consumes, loop
<1>2. Len(queue) \in Nat /\ Len(queue) <= QUEUE_CAPACITY /\ QUEUE_CAPACITY \in Nat
  BY <1>1, ConsumesProperties DEF TypeOK, CameraAssumption
<1> QED
  BY <1>1, <1>2, ConsumesProperties

\* A repeated command touches nothing in an armed shop, and in a disarmed one only what
\* hangs on the observation.
LEMMA AgainKeeps ==
  ASSUME IInv, SetArmedAgain
  PROVE  /\ UNCHANGED <<armed, alarm_triggered, camera_arm_grace_elapsed, frames, queue, capture,
                        pc, pass, confirmed, fresh, wait>>
         /\ armed => UNCHANGED <<observed_armed, calibrating, calibration_elapsed, zones>>
<1>1. UNCHANGED <<armed, alarm_triggered, camera_arm_grace_elapsed, frames, queue, capture,
                  pc, pass, confirmed, fresh, wait>>
  BY DEF SetArmedAgain, alarm, loop, past
<1>2. ASSUME armed PROVE UNCHANGED <<observed_armed, calibrating, calibration_elapsed, zones>>
  <2>1. armed = TRUE /\ observed_armed = TRUE
    BY <1>2 DEF IInv, TypeOK, ZonesInv
  <2> QED
    BY <2>1 DEF SetArmedAgain, RuntimeNoteArmedState, calib
<1> QED
  BY <1>1, <1>2

LEMMA TypeStep ==
  ASSUME CameraAssumption, IInv, [Next]_vars
  PROVE  TypeOK'
<1> USE DEF IInv
<1>1. ASSUME NEW c \in CAMERAS, CaptureStarts(c) \/ CaptureFails(c) PROVE TypeOK'
  BY <1>1 DEF CaptureStarts, CaptureFails, TypeOK, alarm, calib, loop, past
<1>2. ASSUME NEW c \in CAMERAS, Publish(c) PROVE TypeOK'
  <2>1. PICK v \in Views :
          queue' = Published(queue, [source |-> c, view |-> v, stale |-> capture[c] = "stale"])
    BY <1>2 DEF Publish
  <2>2. [source |-> c, view |-> v, stale |-> capture[c] = "stale"] \in Results
    BY DEF Results
  <2>3. queue' \in Seq(Results) /\ Len(queue') <= QUEUE_CAPACITY
    BY <2>1, <2>2, PublishedProperties DEF TypeOK
  <2> QED
    BY <1>2, <2>3 DEF Publish, TypeOK, alarm, calib, loop, past
<1>3. CASE Tick
  <2>1. /\ camera_arm_grace_elapsed' \in 0..CAMERA_ARM_GRACE
        /\ calibration_elapsed' \in 0..STATIC_CALIBRATION
        /\ calibrating' \in BOOLEAN /\ pass' \in 0..MAX_PASS
    BY <1>3 DEF Tick, TypeOK, CameraAssumption
  <2> QED
    BY <1>3, <2>1 DEF Tick, TypeOK, alarm, past
<1>4. CASE SetArmed
  <2>1. armed \in BOOLEAN /\ queue \in Seq(Results)
    BY DEF TypeOK
  <2>2. queue' \in Seq(Results) /\ Len(queue') <= QUEUE_CAPACITY
    BY <1>4, <2>1, AgedProperties DEF SetArmed, TypeOK
  <2>3. /\ AlarmLogicSetArmed(~armed) /\ RuntimeNoteArmedState(~armed) /\ NewArming
        /\ capture' = AgedCapture
        /\ UNCHANGED <<alarm_triggered, pc, pass>>
    BY <1>4 DEF SetArmed, loop
  <2>4. /\ armed' \in BOOLEAN
        /\ camera_arm_grace_elapsed' \in 0..CAMERA_ARM_GRACE
        /\ frames' \in [CAMERAS -> 0..REQUIRED_FRAMES]
    BY <2>1, <2>3, SetArmedTypes
  <2>5. /\ observed_armed' \in BOOLEAN /\ calibrating' \in BOOLEAN
        /\ calibration_elapsed' \in 0..STATIC_CALIBRATION
        /\ zones' \in [CAMERAS -> [PLACES -> 0..MIN_OCCURRENCES]]
    BY <2>1, <2>3, NoteTypes
  <2>6. /\ confirmed' \in [CAMERAS -> 0..REQUIRED_FRAMES]
        /\ fresh' \in [CAMERAS -> BOOLEAN]
        /\ wait' \in 0..LongestWait
    BY <2>3, NewArmingTypes
  <2> QED
    BY <2>2, <2>3, <2>4, <2>5, <2>6, AgedCaptureTypes DEF TypeOK
<1>a. CASE SetArmedAgain
  <2>1. /\ observed_armed' \in BOOLEAN /\ calibrating' \in BOOLEAN
        /\ calibration_elapsed' \in 0..STATIC_CALIBRATION
        /\ zones' \in [CAMERAS -> [PLACES -> 0..MIN_OCCURRENCES]]
    BY <1>a, NoteTypes DEF SetArmedAgain, TypeOK
  <2> QED
    BY <1>a, <2>1, AgainKeeps DEF TypeOK
<1>5. CASE Stop
  <2>1. queue \in Seq(Results) /\ FALSE \in BOOLEAN
    BY DEF TypeOK
  <2>2. queue' \in Seq(Results) /\ Len(queue') <= QUEUE_CAPACITY
    BY <1>5, <2>1, AgedProperties DEF Stop, TypeOK
  <2>3. /\ RuntimeNoteArmedState(FALSE) /\ NewArming
        /\ capture' = AgedCapture
        /\ UNCHANGED <<pc, pass>>
    BY <1>5 DEF Stop, loop
  <2>4. /\ armed' \in BOOLEAN /\ alarm_triggered' \in BOOLEAN
        /\ camera_arm_grace_elapsed' \in 0..CAMERA_ARM_GRACE
        /\ frames' \in [CAMERAS -> 0..REQUIRED_FRAMES]
    <3>1. /\ armed' = FALSE /\ alarm_triggered' = FALSE
          /\ camera_arm_grace_elapsed' = CAMERA_ARM_GRACE /\ frames' = None
      BY <1>5 DEF Stop
    <3>2. CAMERA_ARM_GRACE \in 0..CAMERA_ARM_GRACE
      BY DEF CameraAssumption
    <3> QED
      BY <3>1, <3>2, NoneType
  <2>5. /\ observed_armed' \in BOOLEAN /\ calibrating' \in BOOLEAN
        /\ calibration_elapsed' \in 0..STATIC_CALIBRATION
        /\ zones' \in [CAMERAS -> [PLACES -> 0..MIN_OCCURRENCES]]
    BY <2>1, <2>3, NoteTypes
  <2>6. /\ confirmed' \in [CAMERAS -> 0..REQUIRED_FRAMES]
        /\ fresh' \in [CAMERAS -> BOOLEAN]
        /\ wait' \in 0..LongestWait
    BY <2>3, NewArmingTypes
  <2> QED
    BY <2>2, <2>3, <2>4, <2>5, <2>6, AgedCaptureTypes DEF TypeOK
<1>6. CASE CommandsDone \/ QueueDrained \/ PassEnds
  BY <1>6 DEF CommandsDone, QueueDrained, PassEnds, TypeOK, alarm, calib, past
<1>7. ASSUME NEW r \in Results, ConsumeDisarmed(r) PROVE TypeOK'
  <2>1. /\ Consumes(r) /\ RuntimeNoteArmedState(FALSE) /\ Innocent(r)
        /\ UNCHANGED <<armed, alarm_triggered, camera_arm_grace_elapsed, capture>>
        /\ frames' = [frames EXCEPT ![r.source] = 0]
    BY <1>7 DEF ConsumeDisarmed, alarm
  <2>2. frames' \in [CAMERAS -> 0..REQUIRED_FRAMES]
    BY <2>1, NoneType DEF TypeOK
  <2> QED
    BY <2>1, <2>2, ConsumesTypes, NoteTypes, CountTypes DEF TypeOK
<1>8. ASSUME NEW r \in Results, ConsumeCalibrating(r) PROVE TypeOK'
  <2>1. /\ Consumes(r) /\ Innocent(r)
        /\ UNCHANGED <<armed, alarm_triggered, camera_arm_grace_elapsed, observed_armed,
                       calibrating, calibration_elapsed, capture>>
        /\ frames' = [frames EXCEPT ![r.source] = 0]
    BY <1>8 DEF ConsumeCalibrating, alarm
  <2>2. frames' \in [CAMERAS -> 0..REQUIRED_FRAMES]
    BY <2>1, NoneType DEF TypeOK
  <2>3. zones' \in [CAMERAS -> [PLACES -> 0..MIN_OCCURRENCES]]
    <3>1. r.source \in CAMERAS
      BY DEF Results
    <3>2. r.view \in PLACES =>
            Learned(zones[r.source], r.view) \in [PLACES -> 0..MIN_OCCURRENCES]
      BY <3>1, LearnedTypes DEF TypeOK
    <3> QED
      BY <1>8, <3>2 DEF ConsumeCalibrating, TypeOK
  <2> QED
    BY <2>1, <2>2, <2>3, ConsumesTypes, CountTypes DEF TypeOK
<1>9. ASSUME NEW r \in Results, ConsumeStatic(r) \/ ConsumeQuiet(r) PROVE TypeOK'
  <2>1. /\ Consumes(r) /\ Innocent(r)
        /\ UNCHANGED <<armed, alarm_triggered, camera_arm_grace_elapsed, observed_armed,
                       calibrating, calibration_elapsed, zones, capture>>
        /\ frames' = [frames EXCEPT ![r.source] = 0]
    BY <1>9 DEF ConsumeStatic, ConsumeQuiet, alarm, calib
  <2>2. frames' \in [CAMERAS -> 0..REQUIRED_FRAMES]
    BY <2>1, NoneType DEF TypeOK
  <2> QED
    BY <2>1, <2>2, ConsumesTypes, CountTypes DEF TypeOK
<1>10. ASSUME NEW r \in Results, ConsumePerson(r) PROVE TypeOK'
  <2>1. /\ Consumes(r) /\ Suspicious(r) /\ frames[r.source] + 1 < REQUIRED_FRAMES
        /\ UNCHANGED <<armed, alarm_triggered, camera_arm_grace_elapsed, observed_armed,
                       calibrating, calibration_elapsed, zones, capture>>
        /\ frames' = [frames EXCEPT ![r.source] = @ + 1]
    BY <1>10 DEF ConsumePerson, SeesPerson, alarm, calib
  <2>2. r.source \in CAMERAS
    BY DEF Results
  <2>3. frames[r.source] + 1 \in 0..REQUIRED_FRAMES
    BY <2>1, <2>2 DEF TypeOK, CameraAssumption
  <2>4. frames' \in [CAMERAS -> 0..REQUIRED_FRAMES]
    BY <2>1, <2>3 DEF TypeOK
  <2> QED
    BY <2>1, <2>4, ConsumesTypes, CountTypes DEF TypeOK
<1>11. ASSUME NEW r \in Results, ConsumeAlarm(r) PROVE TypeOK'
  <2>1. queue # <<>> /\ queue' = Aged(Tail(queue)) /\ Trigger /\ UNCHANGED <<pc, pass>>
    BY <1>11 DEF ConsumeAlarm, loop
  <2>2. /\ Tail(queue) \in Seq(Results) /\ Len(Tail(queue)) = Len(queue) - 1
        /\ Len(queue) \in Nat /\ Len(queue) <= QUEUE_CAPACITY /\ QUEUE_CAPACITY \in Nat
    BY <2>1, ConsumesProperties DEF TypeOK, CameraAssumption
  <2>3. queue' \in Seq(Results) /\ Len(queue') <= QUEUE_CAPACITY
    <3>1. Aged(Tail(queue)) \in Seq(Results) /\ Len(Aged(Tail(queue))) = Len(Tail(queue))
      BY <2>2, AgedProperties
    <3> QED
      BY <2>1, <2>2, <3>1
  <2> QED
    BY <2>1, <2>3, TriggerTypes DEF TypeOK
<1>12. CASE SensorAlarm
  <2>1. queue' = Aged(queue) /\ Trigger /\ UNCHANGED <<pc, pass>>
    BY <1>12 DEF SensorAlarm, loop
  <2>2. queue' \in Seq(Results) /\ Len(queue') <= QUEUE_CAPACITY
    BY <2>1, AgedProperties DEF TypeOK
  <2> QED
    BY <2>1, <2>2, TriggerTypes DEF TypeOK
<1>13. CASE TimePasses
  <2>1. LongestWait \in Nat
    BY DEF CameraAssumption, LongestWait
  <2>2. pass' \in 0..MAX_PASS /\ wait' \in 0..LongestWait
    BY <1>13, <2>1 DEF TimePasses, TypeOK, CameraAssumption
  <2> QED
    BY <1>13, <2>2 DEF TimePasses, TypeOK, alarm, calib
<1>14. CASE UNCHANGED vars
  BY <1>14 DEF vars, TypeOK, alarm, calib, loop, past
<1> QED
  BY <1>a, <1>1, <1>2, <1>3, <1>4, <1>5, <1>6, <1>7, <1>8, <1>9, <1>10, <1>11, <1>12, <1>13, <1>14
     DEF Next, Consume
-----------------------------------------------------------------------------
(* The frames, which the history counts too. *)

\* An arming or disarming starts to count from nothing.
LEMMA NewArmingFrames ==
  ASSUME CameraAssumption, NewArming, frames' = None
  PROVE  FramesInv'
  BY DEF NewArming, FramesInv, None, CameraAssumption

LEMMA TriggerFrames ==
  ASSUME CameraAssumption, FramesInv, Trigger
  PROVE  FramesInv'
<1>1. NewArming
  BY DEF Trigger
<1>2. frames' = None
  BY DEF Trigger, AlarmLogicSetArmed, FramesInv
<1> QED
  BY <1>1, <1>2, NewArmingFrames

\* A result that counts for nothing resets its camera.
LEMMA InnocentFrames ==
  ASSUME CameraAssumption, TypeOK, FramesInv, NEW r \in Results, Innocent(r),
         frames' = [frames EXCEPT ![r.source] = 0],
         UNCHANGED <<armed, camera_arm_grace_elapsed>>
  PROVE  FramesInv'
<1>1. frames' = confirmed'
  BY DEF Innocent, FramesInv
<1>2. \A c \in CAMERAS : frames'[c] < REQUIRED_FRAMES
  BY DEF FramesInv, TypeOK, CameraAssumption
<1>3. frames = None => frames' = None
  BY DEF None
<1> QED
  BY <1>1, <1>2, <1>3 DEF FramesInv, None

LEMMA FramesStep ==
  ASSUME CameraAssumption, IInv, [Next]_vars
  PROVE  FramesInv'
<1> USE DEF IInv
<1>1. ASSUME NEW c \in CAMERAS, CaptureStarts(c) \/ CaptureFails(c) \/ Publish(c)
      PROVE  FramesInv'
  BY <1>1 DEF CaptureStarts, CaptureFails, Publish, FramesInv, alarm, past, None
<1>2. CASE Tick
  <2>1. /\ UNCHANGED <<frames, confirmed, armed>>
        /\ camera_arm_grace_elapsed' < CAMERA_ARM_GRACE =>
             camera_arm_grace_elapsed < CAMERA_ARM_GRACE
    BY <1>2 DEF Tick, TypeOK, CameraAssumption, alarm, past
  <2> QED
    BY <2>1 DEF FramesInv, None
<1>3. CASE SetArmed
  BY <1>3, NewArmingFrames DEF SetArmed, AlarmLogicSetArmed
<1>a. CASE SetArmedAgain
  BY <1>a, AgainKeeps DEF FramesInv
<1>4. CASE Stop
  BY <1>4, NewArmingFrames DEF Stop
<1>5. CASE CommandsDone \/ QueueDrained \/ PassEnds \/ TimePasses
  BY <1>5 DEF CommandsDone, QueueDrained, PassEnds, TimePasses, FramesInv, alarm, past, None
<1>6. ASSUME NEW r \in Results,
             \/ ConsumeDisarmed(r) \/ ConsumeCalibrating(r) \/ ConsumeStatic(r) \/ ConsumeQuiet(r)
      PROVE  FramesInv'
  BY <1>6, InnocentFrames
     DEF ConsumeDisarmed, ConsumeCalibrating, ConsumeStatic, ConsumeQuiet, alarm
<1>7. ASSUME NEW r \in Results, ConsumePerson(r) PROVE FramesInv'
  <2>1. r.source \in CAMERAS
    BY DEF Results
  <2>2. frames' = confirmed'
    BY <1>7 DEF ConsumePerson, Suspicious, FramesInv
  <2>3. \A c \in CAMERAS : frames'[c] < REQUIRED_FRAMES
    BY <1>7, <2>1 DEF ConsumePerson, FramesInv, TypeOK
  <2>4. armed' /\ ~(camera_arm_grace_elapsed' < CAMERA_ARM_GRACE)
    BY <1>7 DEF ConsumePerson, SeesPerson, alarm, CameraAssumption
  <2> QED
    BY <2>2, <2>3, <2>4 DEF FramesInv
<1>8. ASSUME NEW r \in Results, ConsumeAlarm(r) PROVE FramesInv'
  BY <1>8, TriggerFrames DEF ConsumeAlarm
<1>9. CASE SensorAlarm
  BY <1>9, TriggerFrames DEF SensorAlarm
<1>10. CASE UNCHANGED vars
  BY <1>10 DEF vars, FramesInv, alarm, past, None
<1> QED
  BY <1>a, <1>1, <1>2, <1>3, <1>4, <1>5, <1>6, <1>7, <1>8, <1>9, <1>10 DEF Next, Consume
-----------------------------------------------------------------------------
(* What the runtime has noticed, and what it has learned. *)

\* Once the runtime has noticed the arm state, zones are left only if it is armed.
LEMMA NoteZones ==
  ASSUME ZonesInv, NEW now \in BOOLEAN, armed' = now, RuntimeNoteArmedState(now)
  PROVE  ZonesInv'
  BY DEF ZonesInv, RuntimeNoteArmedState, calib, NoZones

LEMMA TriggerZones ==
  ASSUME TypeOK, ZonesInv, Trigger
  PROVE  ZonesInv'
<1>1. armed' = FALSE /\ alarm_triggered'
  BY DEF Trigger, AlarmLogicSetArmed, TypeOK
<1>2. CASE alarm_triggered
  BY <1>1, <1>2 DEF Trigger, ZonesInv, calib, NoZones
<1>3. CASE ~alarm_triggered
  BY <1>1, <1>3, NoteZones DEF Trigger
<1> QED
  BY <1>2, <1>3

LEMMA ZonesStep ==
  ASSUME CameraAssumption, IInv, [Next]_vars
  PROVE  ZonesInv'
<1> USE DEF IInv
<1>1. ASSUME NEW c \in CAMERAS, CaptureStarts(c) \/ CaptureFails(c) \/ Publish(c)
      PROVE  ZonesInv'
  BY <1>1 DEF CaptureStarts, CaptureFails, Publish, ZonesInv, alarm, calib, NoZones
<1>2. CASE Tick \/ CommandsDone \/ QueueDrained \/ PassEnds \/ TimePasses
  BY <1>2 DEF Tick, CommandsDone, QueueDrained, PassEnds, TimePasses, ZonesInv, alarm, calib,
              NoZones
<1>3. CASE SetArmed
  <2>1. (~armed) \in BOOLEAN
    OBVIOUS
  <2>2. AlarmLogicSetArmed(~armed) /\ RuntimeNoteArmedState(~armed)
    BY <1>3 DEF SetArmed
  <2>3. armed' = ~armed
    BY <2>2 DEF AlarmLogicSetArmed
  <2> QED
    BY <2>1, <2>2, <2>3, NoteZones
<1>a. CASE SetArmedAgain
  <2>1. armed \in BOOLEAN /\ armed' = armed /\ RuntimeNoteArmedState(armed)
    BY <1>a, AgainKeeps DEF SetArmedAgain, TypeOK
  <2> QED
    BY <2>1, NoteZones
<1>4. CASE Stop
  BY <1>4, NoteZones DEF Stop
<1>5. ASSUME NEW r \in Results, ConsumeDisarmed(r) PROVE ZonesInv'
  <2>1. armed' = FALSE /\ RuntimeNoteArmedState(FALSE)
    BY <1>5 DEF ConsumeDisarmed, alarm, TypeOK
  <2> QED
    BY <2>1, NoteZones
<1>6. ASSUME NEW r \in Results, ConsumeCalibrating(r) PROVE ZonesInv'
  BY <1>6 DEF ConsumeCalibrating, ZonesInv, alarm
<1>7. ASSUME NEW r \in Results, ConsumeStatic(r) \/ ConsumeQuiet(r) \/ ConsumePerson(r)
      PROVE  ZonesInv'
  BY <1>7 DEF ConsumeStatic, ConsumeQuiet, ConsumePerson, ZonesInv, alarm, calib, NoZones
<1>8. ASSUME NEW r \in Results, ConsumeAlarm(r) PROVE ZonesInv'
  BY <1>8, TriggerZones DEF ConsumeAlarm
<1>9. CASE SensorAlarm
  BY <1>9, TriggerZones DEF SensorAlarm
<1>10. CASE UNCHANGED vars
  BY <1>10 DEF vars, ZonesInv, alarm, calib, NoZones
<1> QED
  BY <1>a, <1>1, <1>2, <1>3, <1>4, <1>5, <1>6, <1>7, <1>8, <1>9, <1>10 DEF Next, Consume
-----------------------------------------------------------------------------
(* The time a camera alarm has to wait. *)

\* An arming gives the wait of the clock that it starts.
LEMMA NewArmingWait ==
  ASSUME CameraAssumption, TypeOK, NewArming,
         armed' => /\ pass' = pass /\ camera_arm_grace_elapsed' = 0
                   /\ observed_armed \/ (calibrating' /\ calibration_elapsed' = 0)
  PROVE  WaitInv'
<1> SUFFICES ASSUME armed', wait' # 0
             PROVE  \/ /\ calibrating'
                       /\ wait' + calibration_elapsed' + pass' <= STATIC_CALIBRATION
                    \/ wait' + camera_arm_grace_elapsed' + pass' <= CAMERA_ARM_GRACE
  BY DEF WaitInv
<1>1. pass \in Nat /\ CAMERA_ARM_GRACE \in Nat /\ STATIC_CALIBRATION \in Nat
  BY DEF TypeOK, CameraAssumption
<1>2. CASE observed_armed
  <2>1. wait' = CAMERA_ARM_GRACE - pass /\ pass < CAMERA_ARM_GRACE
    BY <1>1, <1>2 DEF NewArming
  <2> QED
    BY <1>1, <2>1
<1>3. CASE ~observed_armed
  <2>1. wait' = STATIC_CALIBRATION - pass /\ pass < STATIC_CALIBRATION
    BY <1>1, <1>3 DEF NewArming
  <2> QED
    BY <1>1, <1>3, <2>1
<1> QED
  BY <1>2, <1>3

\* A disarm leaves nothing to wait for.
LEMMA TriggerDisarms == Trigger /\ TypeOK => ~armed'
  BY DEF Trigger, AlarmLogicSetArmed, TypeOK

LEMMA WaitStep ==
  ASSUME CameraAssumption, IInv, [Next]_vars
  PROVE  WaitInv'
<1> USE DEF IInv
<1>1. ASSUME NEW c \in CAMERAS, CaptureStarts(c) \/ CaptureFails(c) \/ Publish(c)
      PROVE  WaitInv'
  BY <1>1 DEF CaptureStarts, CaptureFails, Publish, WaitInv, alarm, calib, loop, past
<1>2. CASE Tick
  <2> SUFFICES ASSUME armed, wait # 0
               PROVE  \/ /\ calibrating'
                         /\ wait + calibration_elapsed' + pass' <= STATIC_CALIBRATION
                      \/ wait + camera_arm_grace_elapsed' + pass' <= CAMERA_ARM_GRACE
    BY <1>2 DEF Tick, WaitInv, alarm, past
  <2>1. /\ wait \in Nat /\ pass \in Nat /\ pass' = 0
        /\ camera_arm_grace_elapsed \in 0..CAMERA_ARM_GRACE /\ CAMERA_ARM_GRACE \in Nat
        /\ calibration_elapsed \in 0..STATIC_CALIBRATION /\ STATIC_CALIBRATION \in Nat
    BY <1>2 DEF Tick, TypeOK, CameraAssumption, LongestWait
  <2>2. CASE calibrating /\ wait + calibration_elapsed + pass <= STATIC_CALIBRATION
    <3>1. pass < STATIC_CALIBRATION - calibration_elapsed
      BY <2>1, <2>2
    <3>2. calibration_elapsed' = calibration_elapsed + pass
      BY <1>2, <2>2, <3>1 DEF Tick
    <3>3. calibrating'
      <4>1. calibration_elapsed' < STATIC_CALIBRATION
        BY <2>1, <2>2, <3>2
      <4>2. calibrating' = (calibrating /\ calibration_elapsed' < STATIC_CALIBRATION)
        BY <1>2 DEF Tick
      <4> QED
        BY <2>2, <4>1, <4>2, Zenon
    <3> QED
      BY <2>1, <2>2, <3>2, <3>3
  <2>3. CASE wait + camera_arm_grace_elapsed + pass <= CAMERA_ARM_GRACE
    <3>1. pass < CAMERA_ARM_GRACE - camera_arm_grace_elapsed
      BY <2>1, <2>3
    <3>2. camera_arm_grace_elapsed' = camera_arm_grace_elapsed + pass
      BY <1>2, <3>1 DEF Tick
    <3> QED
      BY <2>1, <2>3, <3>2
  <2> QED
    BY <2>2, <2>3 DEF WaitInv
<1>3. CASE SetArmed
  <2>1. CASE armed
    BY <1>3, <2>1 DEF SetArmed, AlarmLogicSetArmed, WaitInv
  <2>2. CASE ~armed
    <3>1. NewArming /\ pass' = pass
      BY <1>3 DEF SetArmed, loop
    <3>2. camera_arm_grace_elapsed' = 0
      BY <1>3, <2>2 DEF SetArmed, AlarmLogicSetArmed
    <3>3. observed_armed \/ (calibrating' /\ calibration_elapsed' = 0)
      BY <1>3, <2>2 DEF SetArmed, RuntimeNoteArmedState
    <3> QED
      BY <3>1, <3>2, <3>3, NewArmingWait
  <2> QED
    BY <2>1, <2>2
<1>a. CASE SetArmedAgain
  BY <1>a, AgainKeeps DEF WaitInv
<1>4. CASE Stop
  BY <1>4 DEF Stop, WaitInv
<1>5. CASE CommandsDone \/ QueueDrained \/ PassEnds
  BY <1>5 DEF CommandsDone, QueueDrained, PassEnds, WaitInv, alarm, calib, past
<1>6. CASE TimePasses
  <2>1. wait \in Nat /\ pass \in Nat /\ pass' = pass + 1
        /\ (wait # 0 => wait' = wait - 1) /\ (wait = 0 => wait' = 0)
        /\ camera_arm_grace_elapsed \in Nat /\ calibration_elapsed \in Nat
    BY <1>6 DEF TimePasses, TypeOK, CameraAssumption, LongestWait
  <2>2. UNCHANGED <<armed, camera_arm_grace_elapsed, calibrating, calibration_elapsed>>
    BY <1>6 DEF TimePasses, alarm, calib
  <2> QED
    BY <2>1, <2>2 DEF WaitInv, CameraAssumption
<1>7. ASSUME NEW r \in Results, ConsumeDisarmed(r) PROVE WaitInv'
  BY <1>7 DEF ConsumeDisarmed, WaitInv, alarm
<1>8. ASSUME NEW r \in Results, ConsumeCalibrating(r) PROVE WaitInv'
  BY <1>8 DEF ConsumeCalibrating, Consumes, Innocent, WaitInv, alarm, loop
<1>9. ASSUME NEW r \in Results, ConsumeStatic(r) \/ ConsumeQuiet(r) \/ ConsumePerson(r)
      PROVE  WaitInv'
  BY <1>9 DEF ConsumeStatic, ConsumeQuiet, ConsumePerson, SeesPerson, Consumes, Innocent,
              Suspicious, WaitInv, alarm, calib, loop
<1>10. ASSUME NEW r \in Results, ConsumeAlarm(r) PROVE WaitInv'
  BY <1>10, TriggerDisarms DEF ConsumeAlarm, WaitInv
<1>11. CASE SensorAlarm
  BY <1>11, TriggerDisarms DEF SensorAlarm, WaitInv
<1>12. CASE UNCHANGED vars
  BY <1>12 DEF vars, WaitInv, alarm, calib, loop, past
<1> QED
  BY <1>a, <1>1, <1>2, <1>3, <1>4, <1>5, <1>6, <1>7, <1>8, <1>9, <1>10, <1>11, <1>12
     DEF Next, Consume
-----------------------------------------------------------------------------
(* Results left from before the arming. *)

\* Publishing what a thread was at leaves each camera with at most one.
LEMMA PublishLeavesOne ==
  ASSUME CameraAssumption, TypeOK, NEW c \in CAMERAS, Publish(c), NEW d \in CAMERAS, OneLeft(d)
  PROVE  OneLeft(d)'
<1>1. PICK v \in Views :
        queue' = Published(queue, [source |-> c, view |-> v, stale |-> capture[c] = "stale"])
  BY DEF Publish
<1> DEFINE r == [source |-> c, view |-> v, stale |-> capture[c] = "stale"]
           n == Len(queue')
           LeftNow(i) == queue'[i].stale /\ queue'[i].source = d
<1>2. r \in Results
  BY DEF Results
<1>3. /\ n \in 1..QUEUE_CAPACITY /\ queue'[n] = r
      /\ \E k \in {0, 1} : \A i \in 1..(n - 1) :
           i + k \in 1..Len(queue) /\ queue'[i] = queue[i + k]
  <2>1. queue \in Seq(Results) /\ Len(queue) <= QUEUE_CAPACITY
    BY DEF TypeOK
  <2>2. queue' = Published(queue, r)
    BY <1>1
  <2> HIDE DEF r
  <2>3. /\ Len(Published(queue, r)) \in 1..QUEUE_CAPACITY
        /\ Published(queue, r)[Len(Published(queue, r))] = r
        /\ \E k \in {0, 1} : \A i \in 1..(Len(Published(queue, r)) - 1) :
             i + k \in 1..Len(queue) /\ Published(queue, r)[i] = queue[i + k]
    BY <1>2, <2>1, PublishedProperties
  <2> QED
    BY <2>2, <2>3
<1>4. PICK k \in {0, 1} : \A i \in 1..(n - 1) :
        i + k \in 1..Len(queue) /\ queue'[i] = queue[i + k]
  BY <1>3
<1>5. /\ capture' = [capture EXCEPT ![c] = "idle"] /\ UNCHANGED <<frames, fresh>>
      /\ capture \in [CAMERAS -> {"idle", "fresh", "stale"}]
      /\ n \in Nat /\ QUEUE_CAPACITY \in Nat
  BY <1>3 DEF Publish, past, TypeOK, CameraAssumption
<1>6. r.stale /\ r.source = d => d = c /\ capture[d] = "stale"
  OBVIOUS
<1>7. \A i \in 1..(n - 1) : LeftNow(i) => i + k \in 1..Len(queue) /\ Left(d, i + k)
  BY <1>4 DEF Left
<1>8. LeftNow(n) => d = c /\ capture[d] = "stale"
  BY <1>3, <1>6
<1>9. \A i, j \in 1..n : LeftNow(i) /\ LeftNow(j) => i = j
  <2> SUFFICES ASSUME NEW i \in 1..n, NEW j \in 1..n, LeftNow(i), LeftNow(j)
               PROVE  i = j
    OBVIOUS
  <2>1. CASE i < n /\ j < n
    <3>1. i \in 1..(n - 1) /\ j \in 1..(n - 1)
      BY <1>5, <2>1
    <3>2. i + k = j + k
      BY <1>7, <3>1 DEF OneLeft
    <3> QED
      BY <3>1, <3>2
  <2>2. CASE i = n /\ j < n
    BY <1>5, <1>7, <1>8, <2>2 DEF OneLeft
  <2>3. CASE i < n /\ j = n
    BY <1>5, <1>7, <1>8, <2>3 DEF OneLeft
  <2> QED
    BY <1>5, <2>1, <2>2, <2>3
<1>10. capture'[d] = "stale" => d # c /\ capture[d] = "stale"
  BY <1>5
<1>11. \A i \in 1..n : LeftNow(i) =>
          (d = c /\ capture[d] = "stale") \/ \E j \in 1..Len(queue) : Left(d, j)
  <2> TAKE i \in 1..n
  <2>1. CASE i = n
    BY <1>8, <2>1
  <2>2. CASE i < n
    BY <1>5, <1>7, <2>2
  <2> QED
    BY <1>5, <2>1, <2>2
<1>12. capture'[d] = "stale" => \A i \in 1..n : ~LeftNow(i)
  BY <1>10, <1>11 DEF OneLeft
<1>13. frames'[d] # 0 /\ ~fresh'[d] => capture'[d] # "stale" /\ \A i \in 1..n : ~LeftNow(i)
  BY <1>5, <1>10, <1>11 DEF OneLeft
<1> QED
  BY <1>9, <1>12, <1>13 DEF OneLeft, Left

\* Neither does taking the oldest, whether it is counted or not.
LEMMA TakenLeavesOne ==
  ASSUME TypeOK, queue # <<>>, queue' = Tail(queue), UNCHANGED capture,
         NEW d \in CAMERAS, OneLeft(d),
         frames'[d] # 0 /\ ~fresh'[d] => Left(d, 1) \/ (frames[d] # 0 /\ ~fresh[d])
  PROVE  OneLeft(d)'
<1>1. /\ 1 \in 1..Len(queue) /\ Len(queue) \in Nat /\ Len(queue') = Len(queue) - 1
      /\ \A i \in 1..Len(queue') : i + 1 \in 1..Len(queue) /\ queue'[i] = queue[i + 1]
  BY ConsumesProperties
<1>2. \A i \in 1..Len(queue') : Left(d, i)' => Left(d, i + 1)
  BY <1>1 DEF Left
<1>3. \A i, j \in 1..Len(queue') : Left(d, i)' /\ Left(d, j)' => i = j
  <2> TAKE i, j \in 1..Len(queue')
  <2>1. Left(d, i)' /\ Left(d, j)' => i + 1 = j + 1
    BY <1>1, <1>2 DEF OneLeft
  <2> QED
    BY <1>1, <2>1
<1>4. capture'[d] = "stale" => \A i \in 1..Len(queue') : ~Left(d, i)'
  BY <1>1, <1>2 DEF OneLeft
<1>5. Left(d, 1) => capture[d] # "stale" /\ \A i \in 1..Len(queue') : ~Left(d, i)'
  <2>1. Left(d, 1) => \A i \in 1..Len(queue') : Left(d, i + 1) => i + 1 = 1
    BY <1>1 DEF OneLeft
  <2>2. \A i \in 1..Len(queue') : i + 1 # 1
    BY <1>1
  <2> QED
    BY <1>1, <1>2, <2>1, <2>2 DEF OneLeft
<1>6. frames[d] # 0 /\ ~fresh[d] =>
        capture[d] # "stale" /\ \A i \in 1..Len(queue') : ~Left(d, i)'
  BY <1>1, <1>2 DEF OneLeft
<1> QED
  BY <1>3, <1>4, <1>5, <1>6 DEF OneLeft

\* While frames are counted the first pass is over, or nothing is counted yet.
LEMMA ConsumeLeft ==
  ASSUME CameraAssumption, IInv, NEW r \in Results, Consumes(r), armed,
         UNCHANGED <<armed, camera_arm_grace_elapsed, capture>>,
         \/ Innocent(r) /\ frames' = [frames EXCEPT ![r.source] = 0]
         \/ Suspicious(r) /\ frames' = [frames EXCEPT ![r.source] = @ + 1]
  PROVE  LeftInv'
<1>1. /\ queue # <<>> /\ r = Head(queue) /\ queue' = Tail(queue) /\ pc' = pc
      /\ r = queue[1] /\ TypeOK /\ r.source \in CAMERAS
  BY ConsumesProperties DEF Consumes, loop, IInv, Results
<1>2. CASE camera_arm_grace_elapsed = 0 /\ pc \in {"commands", "drain"}
  BY <1>1, <1>2 DEF LeftInv
<1>3. CASE \A d \in CAMERAS : OneLeft(d)
  <2> SUFFICES ASSUME NEW d \in CAMERAS PROVE OneLeft(d)'
    BY DEF LeftInv
  <2>1. frames \in [CAMERAS -> 0..REQUIRED_FRAMES] /\ fresh \in [CAMERAS -> BOOLEAN]
    BY <1>1 DEF TypeOK
  <2>2. CASE d # r.source
    BY <1>1, <1>3, <2>1, <2>2, TakenLeavesOne DEF Innocent, Suspicious
  <2>3. CASE d = r.source /\ Innocent(r) /\ frames' = [frames EXCEPT ![r.source] = 0]
    BY <1>1, <1>3, <2>1, <2>3, TakenLeavesOne
  <2>4. CASE d = r.source /\ Suspicious(r)
    <3>1. fresh'[d] = (fresh[d] \/ ~r.stale)
      BY <2>1, <2>4 DEF Suspicious
    <3>2. ~fresh'[d] => Left(d, 1)
      BY <1>1, <2>4, <3>1 DEF Left
    <3> QED
      BY <1>1, <1>3, <3>2, TakenLeavesOne
  <2> QED
    BY <2>2, <2>3, <2>4
<1> QED
  BY <1>2, <1>3 DEF IInv, LeftInv

LEMMA LeftStep ==
  ASSUME CameraAssumption, IInv, [Next]_vars
  PROVE  LeftInv'
<1> USE DEF IInv
<1>1. ASSUME NEW c \in CAMERAS, CaptureStarts(c) \/ CaptureFails(c) PROVE LeftInv'
  <2>1. /\ UNCHANGED <<armed, camera_arm_grace_elapsed, pc, queue, frames, fresh>>
        /\ \A d \in CAMERAS : capture'[d] = "stale" => capture[d] = "stale"
    BY <1>1 DEF CaptureStarts, CaptureFails, alarm, loop, past, TypeOK
  <2>2. \A d \in CAMERAS : OneLeft(d) => OneLeft(d)'
    BY <2>1 DEF OneLeft, Left
  <2> QED
    BY <2>1, <2>2 DEF LeftInv
<1>2. ASSUME NEW c \in CAMERAS, Publish(c) PROVE LeftInv'
  <2>1. UNCHANGED <<armed, camera_arm_grace_elapsed, pc>>
    BY <1>2 DEF Publish, alarm, loop
  <2>2. \A d \in CAMERAS : OneLeft(d) => OneLeft(d)'
    BY <1>2, PublishLeavesOne
  <2> QED
    BY <2>1, <2>2 DEF LeftInv
<1>3. CASE Tick \/ CommandsDone \/ PassEnds \/ TimePasses
  <2>1. UNCHANGED <<armed, queue, capture, frames, fresh>>
    BY <1>3 DEF Tick, CommandsDone, PassEnds, TimePasses, alarm, past
  <2>2. \A d \in CAMERAS : OneLeft(d) => OneLeft(d)'
    BY <2>1 DEF OneLeft, Left
  <2>3. CASE camera_arm_grace_elapsed = 0 /\ pc \in {"commands", "drain"}
    BY <1>3, <2>3 DEF Tick, CommandsDone, PassEnds, TimePasses, LeftInv
  <2>4. CASE \A d \in CAMERAS : OneLeft(d)
    BY <2>2, <2>4 DEF LeftInv
  <2> QED
    BY <2>1, <2>3, <2>4 DEF LeftInv
<1>4. CASE SetArmed
  BY <1>4 DEF SetArmed, AlarmLogicSetArmed, LeftInv, loop
<1>a. CASE SetArmedAgain
  BY <1>a, AgainKeeps DEF LeftInv, OneLeft, Left
<1>5. CASE Stop
  BY <1>5 DEF Stop, LeftInv
<1>6. ASSUME NEW r \in Results, ConsumeDisarmed(r) PROVE LeftInv'
  BY <1>6 DEF ConsumeDisarmed, LeftInv, alarm
<1>7. ASSUME NEW r \in Results,
             ConsumeCalibrating(r) \/ ConsumeStatic(r) \/ ConsumeQuiet(r) \/ ConsumePerson(r)
      PROVE  LeftInv'
  BY <1>7, ConsumeLeft
     DEF ConsumeCalibrating, ConsumeStatic, ConsumeQuiet, ConsumePerson, SeesPerson, alarm
<1>8. ASSUME NEW r \in Results, ConsumeAlarm(r) PROVE LeftInv'
  BY <1>8, TriggerDisarms DEF ConsumeAlarm, LeftInv
<1>9. CASE QueueDrained
  <2>1. /\ UNCHANGED <<armed, camera_arm_grace_elapsed, queue, capture, frames, fresh>>
        /\ Len(queue) = 0
    BY <1>9, EmptySeq DEF QueueDrained, alarm, past
  <2>2. \A d \in CAMERAS : OneLeft(d) => OneLeft(d)'
    BY <2>1 DEF OneLeft, Left
  <2>3. CASE armed /\ camera_arm_grace_elapsed = 0
    <3>1. \A d \in CAMERAS : frames[d] = 0
      BY <2>3 DEF FramesInv, CameraAssumption, None
    <3>2. \A d \in CAMERAS : OneLeft(d)
      BY <2>1, <3>1 DEF OneLeft
    <3> QED
      BY <2>2, <3>2 DEF LeftInv
  <2> QED
    BY <2>1, <2>2, <2>3 DEF LeftInv
<1>10. CASE SensorAlarm
  BY <1>10, TriggerDisarms DEF SensorAlarm, LeftInv
<1>11. CASE UNCHANGED vars
  BY <1>11 DEF vars, LeftInv, OneLeft, Left, alarm, loop, past
<1> QED
  BY <1>a, <1>1, <1>2, <1>3, <1>4, <1>5, <1>6, <1>7, <1>8, <1>9, <1>10, <1>11 DEF Next, Consume
-----------------------------------------------------------------------------
(* Camera alarms. *)

\* Only a result taken from the queue raises one.
LEMMA OthersRaiseNone ==
  ASSUME Next, CameraAlarm
  PROVE  \E r \in Results : ConsumeAlarm(r)
<1>1. pc = "drain" /\ queue # <<>> /\ armed /\ ~armed'
  BY DEF CameraAlarm
<1> QED
  BY <1>1 DEF Next, Consume, CaptureStarts, CaptureFails, Publish, Tick, SetArmed, SetArmedAgain,
              Stop, CommandsDone, QueueDrained, SensorAlarm, PassEnds, TimePasses, ConsumeDisarmed,
              ConsumeCalibrating, ConsumeStatic, ConsumeQuiet, ConsumePerson, alarm

\* What makes the queue shorter in main's drain takes the oldest result.
LEMMA ShorterIsTaken ==
  ASSUME CameraAssumption, TypeOK, Next, pc = "drain", Len(queue') < Len(queue)
  PROVE  Consume
<1>1. Len(queue) \in Nat /\ Len(queue) <= QUEUE_CAPACITY /\ QUEUE_CAPACITY \in Nat
  BY LenProperties DEF TypeOK, CameraAssumption
<1>2. ASSUME NEW c \in CAMERAS, Publish(c) PROVE FALSE
  <2>1. PICK v \in Views :
          queue' = Published(queue, [source |-> c, view |-> v, stale |-> capture[c] = "stale"])
    BY <1>2 DEF Publish
  <2> DEFINE r == [source |-> c, view |-> v, stale |-> capture[c] = "stale"]
  <2>2. r \in Results /\ queue \in Seq(Results)
    BY DEF Results, TypeOK
  <2>3. queue' = Append(queue, r) \/ (Len(queue) = QUEUE_CAPACITY /\ queue # <<>>
                                       /\ queue' = Append(Tail(queue), r))
    BY <1>1, <2>1 DEF Published, CameraAssumption
  <2>4. CASE queue' = Append(queue, r)
    BY <1>1, <2>2, <2>4, AppendProperties
  <2>5. CASE queue # <<>> /\ queue' = Append(Tail(queue), r)
    BY <1>1, <2>2, <2>5, ConsumesProperties, AppendProperties
  <2> QED
    BY <2>3, <2>4, <2>5
<1>3. UNCHANGED queue => FALSE
  BY <1>1
<1>4. ~Tick /\ ~SetArmed /\ ~Stop /\ ~SensorAlarm
  BY DEF Tick, SetArmed, Stop, SensorAlarm
<1> QED
  BY <1>2, <1>3, <1>4 DEF Next, CaptureStarts, CaptureFails, SetArmedAgain, CommandsDone,
                          QueueDrained, PassEnds, TimePasses

LEMMA ConfirmedStep ==
  ASSUME CameraAssumption, IInv, Next, NEW r \in Results,
         pc = "drain", queue # <<>>, r = Head(queue), Len(queue') < Len(queue)
  PROVE  /\ CameraAlarm <=> (Suspect(r) /\ confirmed[r.source] + 1 >= REQUIRED_FRAMES)
         /\ CameraAlarm => fresh[r.source] \/ ~r.stale
<1>1. /\ TypeOK /\ r.source \in CAMERAS /\ frames[r.source] = confirmed[r.source]
      /\ frames[r.source] \in Nat /\ REQUIRED_FRAMES \in Nat \ {0, 1}
      /\ camera_arm_grace_elapsed \in Nat /\ CAMERA_ARM_GRACE \in Nat \ {0}
  BY DEF IInv, FramesInv, TypeOK, Results, CameraAssumption
<1>2. Consume
  BY <1>1, ShorterIsTaken
<1>3. CASE ConsumeAlarm(r)
  <2>1. ~armed'
    BY <1>1, <1>3, TriggerDisarms DEF ConsumeAlarm
  <2>2. CameraAlarm /\ Suspect(r) /\ confirmed[r.source] + 1 >= REQUIRED_FRAMES
    BY <1>1, <1>3, <2>1 DEF ConsumeAlarm, CameraAlarm, Suspect
  <2>3. frames[r.source] # 0 /\ frames # None
    BY <1>1, <1>3 DEF ConsumeAlarm, None
  <2>4. armed /\ camera_arm_grace_elapsed # 0
    BY <1>1, <1>3 DEF ConsumeAlarm
  <2>5. OneLeft(r.source)
    BY <1>1, <2>4 DEF IInv, LeftInv
  <2>6. 1 \in 1..Len(queue) /\ r = queue[1]
    BY <1>1, ConsumesProperties
  <2>7. r.stale => fresh[r.source]
    BY <1>1, <2>3, <2>5, <2>6 DEF OneLeft, Left, TypeOK
  <2> QED
    BY <2>2, <2>7
<1>4. CASE ~ConsumeAlarm(r)
  <2>1. \/ ConsumeDisarmed(r) \/ ConsumeCalibrating(r) \/ ConsumeStatic(r)
        \/ ConsumeQuiet(r) \/ ConsumePerson(r)
    BY <1>2, <1>4 DEF Consume, Consumes, ConsumeDisarmed, ConsumeCalibrating, ConsumeStatic,
                      ConsumeQuiet, ConsumePerson, SeesPerson, ConsumeAlarm
  <2>2. ~CameraAlarm
    BY <2>1 DEF ConsumeDisarmed, ConsumeCalibrating, ConsumeStatic, ConsumeQuiet, ConsumePerson,
                CameraAlarm, alarm
  <2>3. ~(Suspect(r) /\ confirmed[r.source] + 1 >= REQUIRED_FRAMES)
    <3>1. CASE ConsumeDisarmed(r) \/ ConsumeCalibrating(r) \/ ConsumeStatic(r)
      BY <3>1 DEF ConsumeDisarmed, ConsumeCalibrating, ConsumeStatic, Suspect
    <3>2. CASE ConsumeQuiet(r)
      BY <1>1, <3>2 DEF ConsumeQuiet, Suspect
    <3>3. CASE ConsumePerson(r)
      <4>1. frames[r.source] + 1 < REQUIRED_FRAMES
        BY <3>3 DEF ConsumePerson
      <4> QED
        BY <1>1, <4>1
    <3> QED
      BY <2>1, <3>1, <3>2, <3>3
  <2> QED
    BY <2>2, <2>3
<1> QED
  BY <1>3, <1>4

LEMMA WaitedStep ==
  ASSUME CameraAssumption, IInv, Next, CameraAlarm
  PROVE  wait = 0
<1>1. PICK r \in Results : ConsumeAlarm(r)
  BY OthersRaiseNone
<1>2. armed /\ ~calibrating /\ camera_arm_grace_elapsed = CAMERA_ARM_GRACE
  BY <1>1 DEF ConsumeAlarm
<1>3. wait \in Nat /\ pass \in Nat /\ CAMERA_ARM_GRACE \in Nat
  BY DEF IInv, TypeOK, CameraAssumption, LongestWait
<1> QED
  BY <1>2, <1>3 DEF IInv, WaitInv
-----------------------------------------------------------------------------
(* The arming core.  Outside an arming its clocks stand at their limits, so that the code,
   which lets them run on there, and ArmingCore, which stops them, agree. *)

ClockInv ==
  /\ ~armed => camera_arm_grace_elapsed = CAMERA_ARM_GRACE
  /\ ~calibrating => calibration_elapsed = STATIC_CALIBRATION
  /\ ~observed_armed => ~calibrating

CoreStep == Core!Next \/ UNCHANGED Core!vars

\* What leaves the arming alone is no step of the core.
LEMMA QuietRefines ==
  ASSUME ClockInv, UNCHANGED <<alarm, camera_arm_grace_elapsed, observed_armed, calibrating,
                               calibration_elapsed>>
  PROVE  CoreStep /\ ClockInv'
  BY DEF CoreStep, Core!vars, Core!calib, alarm, ClockInv

\* The two notions of noticing the arm state are one.
LEMMA NoteRefines ==
  ASSUME TypeOK, ClockInv, NEW now \in BOOLEAN, RuntimeNoteArmedState(now)
  PROVE  /\ Core!Noted(now)
         /\ ~calibrating' => calibration_elapsed' = STATIC_CALIBRATION
         /\ ~observed_armed' => ~calibrating'
<1>1. CASE now = observed_armed
  BY <1>1 DEF RuntimeNoteArmedState, Core!Noted, Core!calib, calib, ClockInv
<1>2. CASE now # observed_armed
  BY <1>2 DEF RuntimeNoteArmedState, Core!Noted, TypeOK
<1> QED BY <1>1, <1>2

LEMMA CommandsRefine ==
  ASSUME IInv, ClockInv, SetArmed \/ SetArmedAgain \/ Stop
  PROVE  CoreStep /\ ClockInv'
<1>1. TypeOK /\ armed \in BOOLEAN /\ (armed => observed_armed = TRUE)
  BY DEF IInv, TypeOK, ZonesInv
<1>2. CASE SetArmed /\ ~armed
  <2>1. /\ armed' = TRUE /\ camera_arm_grace_elapsed' = 0 /\ UNCHANGED alarm_triggered
        /\ RuntimeNoteArmedState(TRUE)
    BY <1>1, <1>2 DEF SetArmed, AlarmLogicSetArmed
  <2>2. Core!Arm
    BY <1>1, <1>2, <2>1, NoteRefines DEF Core!Arm
  <2> QED
    BY <1>1, <2>1, <2>2, NoteRefines DEF CoreStep, Core!Next, ClockInv
<1>3. ASSUME armed' = FALSE, camera_arm_grace_elapsed' = CAMERA_ARM_GRACE,
             RuntimeNoteArmedState(FALSE), alarm_triggered' \in {alarm_triggered, FALSE}
      PROVE  CoreStep /\ ClockInv'
  <2>1. Core!Disarm
    BY <1>1, <1>3, NoteRefines DEF Core!Disarm, Core!Fallen
  <2> QED
    BY <1>1, <1>3, <2>1, NoteRefines DEF CoreStep, Core!Next, ClockInv
<1>4. CASE SetArmed /\ armed
  BY <1>1, <1>3, <1>4 DEF SetArmed, AlarmLogicSetArmed
<1>5. CASE SetArmedAgain /\ armed
  BY <1>5, AgainKeeps, QuietRefines DEF alarm
<1>6. CASE SetArmedAgain /\ ~armed
  BY <1>1, <1>3, <1>6 DEF SetArmedAgain, alarm, ClockInv
<1>7. CASE Stop
  BY <1>3, <1>7 DEF Stop
<1> QED BY <1>2, <1>4, <1>5, <1>6, <1>7

\* The code's sums that cannot wrap are the core's.
LEMMA TickRefines ==
  ASSUME CameraAssumption, IInv, ClockInv, Tick
  PROVE  CoreStep /\ ClockInv'
<1>1. /\ armed \in BOOLEAN /\ calibrating \in BOOLEAN /\ pass \in 0 .. MAX_PASS
      /\ camera_arm_grace_elapsed \in 0 .. CAMERA_ARM_GRACE /\ CAMERA_ARM_GRACE \in Nat
      /\ calibration_elapsed \in 0 .. STATIC_CALIBRATION /\ STATIC_CALIBRATION \in Nat
      /\ MAX_PASS \in Nat
  BY DEF IInv, TypeOK, CameraAssumption
<1>2. UNCHANGED <<armed, alarm_triggered, observed_armed>>
  BY DEF Tick, alarm
<1>3. camera_arm_grace_elapsed' =
        IF armed THEN Core!Advanced(camera_arm_grace_elapsed, pass, CAMERA_ARM_GRACE)
        ELSE camera_arm_grace_elapsed
  BY <1>1 DEF Tick, Core!Advanced, ClockInv
<1>4. calibration_elapsed' =
        IF calibrating THEN Core!Advanced(calibration_elapsed, pass, STATIC_CALIBRATION)
        ELSE calibration_elapsed
  BY <1>1 DEF Tick, Core!Advanced, ClockInv
<1>5. calibrating' = (calibrating /\ calibration_elapsed' < STATIC_CALIBRATION)
  BY DEF Tick
<1>6. Core!Tick(pass)
  BY <1>2, <1>3, <1>4, <1>5 DEF Core!Tick
<1>7. ~calibrating' => calibration_elapsed' = STATIC_CALIBRATION
  <2>1. calibration_elapsed' \in 0 .. STATIC_CALIBRATION
    BY <1>1 DEF Tick
  <2> QED
    BY <1>1, <1>4, <1>5, <2>1 DEF ClockInv
<1>8. ClockInv'
  BY <1>2, <1>3, <1>5, <1>7 DEF ClockInv
<1> QED BY <1>1, <1>6, <1>8 DEF CoreStep, Core!Next

\* An alarm noticed is the core's first, one in a running incident the repeated.
LEMMA TriggerRefines ==
  ASSUME IInv, ClockInv, Trigger
  PROVE  CoreStep /\ ClockInv'
<1>1. TypeOK /\ armed \in BOOLEAN /\ alarm_triggered \in BOOLEAN
  BY DEF IInv, TypeOK
<1>2. armed' = FALSE /\ camera_arm_grace_elapsed' = CAMERA_ARM_GRACE /\ alarm_triggered' = TRUE
  <2>1. CASE armed
    BY <2>1 DEF Trigger, AlarmLogicSetArmed
  <2>2. CASE ~armed
    BY <1>1, <2>2 DEF Trigger, ClockInv
  <2> QED BY <2>1, <2>2
<1>3. CASE alarm_triggered
  <2>1. UNCHANGED <<observed_armed, calibrating, calibration_elapsed>>
    BY <1>3 DEF Trigger, calib
  <2>2. Core!RepeatedAlarm
    BY <1>1, <1>2, <1>3, <2>1 DEF Core!RepeatedAlarm, Core!Fallen, Core!calib
  <2> QED BY <1>2, <2>1, <2>2 DEF CoreStep, Core!Next, ClockInv
<1>4. CASE ~alarm_triggered
  <2>1. RuntimeNoteArmedState(FALSE)
    BY <1>4 DEF Trigger
  <2>2. Core!FirstAlarm
    BY <1>1, <1>2, <1>4, <2>1, NoteRefines DEF Core!FirstAlarm, Core!Fallen
  <2> QED BY <1>1, <1>2, <2>1, <2>2, NoteRefines DEF CoreStep, Core!Next, ClockInv
<1> QED BY <1>3, <1>4

LEMMA ConsumeRefines ==
  ASSUME IInv, ClockInv, Consume
  PROVE  CoreStep /\ ClockInv'
<1>1. PICK r \in Results :
        \/ ConsumeDisarmed(r) \/ ConsumeCalibrating(r) \/ ConsumeStatic(r)
        \/ ConsumeQuiet(r) \/ ConsumePerson(r) \/ ConsumeAlarm(r)
  BY DEF Consume
<1>2. CASE ConsumeDisarmed(r)
  <2>1. /\ RuntimeNoteArmedState(FALSE) /\ TypeOK /\ ~armed /\ armed \in BOOLEAN
        /\ UNCHANGED <<armed, alarm_triggered, camera_arm_grace_elapsed>>
    BY <1>2 DEF ConsumeDisarmed, alarm, IInv, TypeOK
  <2>2. Core!Disarm
    BY <2>1, NoteRefines DEF Core!Disarm, Core!Fallen, ClockInv
  <2> QED BY <2>1, <2>2, NoteRefines DEF CoreStep, Core!Next, ClockInv
<1>3. CASE \/ ConsumeCalibrating(r) \/ ConsumeStatic(r)
           \/ ConsumeQuiet(r) \/ ConsumePerson(r)
  BY <1>3, QuietRefines DEF ConsumeCalibrating, ConsumeStatic, ConsumeQuiet, ConsumePerson, calib
<1>4. CASE ConsumeAlarm(r)
  BY <1>4, TriggerRefines DEF ConsumeAlarm
<1> QED BY <1>1, <1>2, <1>3, <1>4

LEMMA StepRefines ==
  ASSUME CameraAssumption, IInv, ClockInv, [Next]_vars
  PROVE  CoreStep /\ ClockInv'
<1>1. ASSUME NEW c \in CAMERAS, CaptureStarts(c) \/ CaptureFails(c) \/ Publish(c)
      PROVE  CoreStep /\ ClockInv'
  BY <1>1, QuietRefines DEF CaptureStarts, CaptureFails, Publish, calib
<1>2. CASE CommandsDone \/ QueueDrained \/ PassEnds \/ TimePasses
  BY <1>2, QuietRefines DEF CommandsDone, QueueDrained, PassEnds, TimePasses, calib
<1>3. CASE SensorAlarm
  BY <1>3, TriggerRefines DEF SensorAlarm
<1>4. CASE UNCHANGED vars
  BY <1>4, QuietRefines DEF vars, calib
<1> QED
  BY <1>1, <1>2, <1>3, <1>4, CommandsRefine, TickRefines, ConsumeRefines DEF Next
-----------------------------------------------------------------------------
(* The theorems. *)

\* The invariant holds always: no thread, command, alarm or lost result breaks it, for any
\* number of cameras and any queue.
THEOREM InvHolds == Spec => []IInv
<1>1. Init => IInv
  BY InitInv, CameraAssumption
<1>2. IInv /\ [Next]_vars => IInv'
  BY CameraAssumption, TypeStep, FramesStep, ZonesStep, WaitStep, LeftStep DEF IInv
<1> QED
  BY <1>1, <1>2, PTL DEF Spec

\* Every variable keeps its type: the queue its capacity, the unsigned clocks their limits.
THEOREM CameraTypeCorrect == Spec => []TypeOK
<1>1. IInv => TypeOK
  BY DEF IInv
<1> QED
  BY <1>1, InvHolds, PTL

\* What was learned in one arming is gone after the disarm, outside a running incident.
THEOREM ZonesAreForgotten == Spec => []ZonesOnlyWhileArmed
<1>1. IInv => ZonesOnlyWhileArmed
  BY DEF IInv, ZonesInv, ZonesOnlyWhileArmed
<1> QED
  BY <1>1, InvHolds, PTL

\* For any number of cameras and places, any queue and any number of frames a camera alarm
\* is raised exactly by the handled results that confirm it (alarm_logic_end_frame_source),
\* whatever the queue has dropped in between.
THEOREM AlarmsAreConfirmed == Spec => AlarmIffConfirmed
<1> DEFINE Confirmed ==
      \A r \in Results :
        pc = "drain" /\ queue # <<>> /\ r = Head(queue) /\ Len(queue') < Len(queue) =>
          /\ CameraAlarm <=> Suspect(r) /\ confirmed[r.source] + 1 >= REQUIRED_FRAMES
          /\ CameraAlarm => fresh[r.source] \/ ~r.stale
<1>1. IInv /\ [Next]_vars => [Confirmed]_vars
  BY CameraAssumption, ConfirmedStep
<1> HIDE DEF Confirmed
<1>2. Spec => [][Confirmed]_vars
  BY <1>1, InvHolds, PTL DEF Spec
<1> QED
  BY <1>2 DEF AlarmIffConfirmed, Confirmed

\* For all clocks and passes a camera alarm waits for calibration and grace period.
THEOREM AlarmsWait == Spec => AlarmWaits
<1> DEFINE Waited == CameraAlarm => wait = 0
<1>1. IInv /\ [Next]_vars => [Waited]_vars
  BY CameraAssumption, WaitedStep
<1> HIDE DEF Waited
<1>2. Spec => [][Waited]_vars
  BY <1>1, InvHolds, PTL DEF Spec
<1> QED
  BY <1>2 DEF AlarmWaits, Waited

\* For any cameras, queue, clocks and passes, no step of the pipeline does more to the
\* arming than ArmingCore allows: its threads leave it alone, the late observation by a
\* stale result is a disarm again, and an unnoticed alarm is a repeated one.
THEOREM RefinesArmingCore == Spec => ImplementsArmingCore
<1>1. Init => Core!Init /\ ClockInv
  BY DEF Init, Core!Init, ClockInv
<1>2. IInv /\ ClockInv /\ [Next]_vars => [Core!Next]_(Core!vars) /\ ClockInv'
  BY CameraAssumption, StepRefines DEF CoreStep
<1> QED
  BY <1>1, <1>2, InvHolds, PTL DEF Spec, ImplementsArmingCore, Core!Spec
=============================================================================
