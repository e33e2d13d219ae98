-------------------------- MODULE SensorInputProofs --------------------------
(***************************************************************************)
(* Proofs about module SensorInput, for every configuration of the wired   *)
(* sensors.  What is proved about main between two events needs to know    *)
(* what becomes of an edge while main is in the middle of one: the verdict *)
(* it is working on is still open to what the sensor reads now (InHand).   *)
(***************************************************************************)
EXTENDS SensorInput, TLAPS

Pins(sensor) == {p \in Watched : SensorOf[p] = sensor}

(* Which value files are open, and what main holds, at each place it stands; a loop
   over the watches ends with its last one. *)
Stage ==
  /\ pc = "down" => opened = {}
  /\ pc = "preflight" => opened \in {{}, Watched}
  /\ pc = "setup" => opened = Watched \ todo
  /\ pc \notin {"down", "preflight", "setup"} => opened = Watched
  /\ pc \in {"confirm", "verdict_nc", "verdict_no"} => pin \in Watched
  /\ pc \in {"verdict_nc", "verdict_no"} => SensorOf[pin] \in Shutters
  /\ pc = "confirm" /\ pin = "SMOKE" => raw = "low"
  /\ checked => armed
  /\ pc \in {"preflight", "setup", "handle"} => todo # {}

(* Main is at an event of this sensor, and its verdict is still open to what the
   sensor reads now. *)
InHand(sensor) ==
  \/ pc \in {"confirm", "verdict_nc"} /\ SensorOf[pin] = sensor
  \/ pc = "verdict_no" /\ SensorOf[pin] = sensor /\ nc_raw # "low"

Noticed(sensor) == Excused(sensor) \/ InHand(sensor)

Ready(sensor) == Pins(sensor) \subseteq opened

(* The preflight has found this shutter closed, now or before. *)
Passed(s) == checked \/ (pc = "preflight" /\ Nc[s] \notin todo)

(* A contact that was closed when the verdict read it and is not any more has an
   edge waiting. *)
VerdictInv ==
  pc = "verdict_no" /\ nc_raw = "low" /\ level[Nc[SensorOf[pin]]] = "high" =>
    Nc[SensorOf[pin]] \in pending

DangerInv ==
  \A sensor \in Sensors :
    Ready(sensor) /\ IsDanger(sensor, level) => sensor \in answered \/ Noticed(sensor)

OpenInv ==
  \A s \in Shutters : Ready(s) /\ Passed(s) /\ level[Nc[s]] = "high" => Noticed(s)

IInv == TypeOK /\ Stage /\ VerdictInv /\ DangerInv /\ OpenInv
-----------------------------------------------------------------------------
(* The wiring. *)

LEMMA WiringFacts ==
  /\ Shutters \subseteq Sensors /\ Sensors \subseteq Shutters \cup {"PANIC", "SMOKE"}
  /\ "PANIC" \notin Shutters /\ "SMOKE" \notin Shutters
  /\ \A s \in Shutters : /\ Nc[s] \in Watched /\ No[s] \in Watched /\ Nc[s] # No[s]
                         /\ SensorOf[Nc[s]] = s /\ SensorOf[No[s]] = s
                         /\ Nc[s] \notin {"PANIC", "SMOKE"} /\ No[s] \notin {"PANIC", "SMOKE"}
                         /\ IsNormal(Nc[s], "low") /\ ~IsNormal(Nc[s], "high")
  /\ \A p \in Watched : SensorOf[p] \in Sensors
  /\ \A p \in Watched : (SensorOf[p] \in Shutters) <=> (p \notin {"PANIC", "SMOKE"})
  /\ \A p \in Watched : (SensorOf[p] = "SMOKE" <=> p = "SMOKE")
                        /\ (SensorOf[p] = "PANIC" <=> p = "PANIC")
  /\ SensorOf["SMOKE"] = "SMOKE" /\ SensorOf["PANIC"] = "PANIC"
  /\ "SMOKE" \in Sensors => "SMOKE" \in Watched
  /\ "PANIC" \in Sensors => "PANIC" \in Watched
  /\ ~IsNormal("SMOKE", "low") /\ "none" \notin Watched /\ Watched # {}
  BY DEF Shutters, Sensors, Watched, SensorOf, Nc, No, IsNormal

(* What a danger is does not depend on anything but the sensor's own pins. *)
LEMMA DangerIsLocal ==
  ASSUME NEW sensor \in Sensors, TypeOK,
         NEW p \in Watched, SensorOf[p] # sensor,
         NEW l, IsDanger(sensor, [level EXCEPT ![p] = l])
  PROVE  IsDanger(sensor, level)
<1>1. CASE sensor = "SMOKE"
  BY <1>1, WiringFacts DEF IsDanger, TypeOK
<1>2. CASE sensor = "PANIC"
  BY <1>2, WiringFacts DEF IsDanger, TypeOK
<1>3. CASE sensor \in Shutters
  BY <1>3, WiringFacts DEF IsDanger, TypeOK
<1> QED BY <1>1, <1>2, <1>3, WiringFacts

(* The danger of a shutter is one of its two contacts, and its NC one is high. *)
LEMMA ShutterDanger ==
  ASSUME NEW s \in Shutters
  PROVE  IsDanger(s, level) <=> level[Nc[s]] = "high" /\ level[No[s]] = "high"
  BY WiringFacts DEF IsDanger

LEMMA SmokeDanger ==
  IsDanger("SMOKE", level) <=> level["SMOKE"] = "low"
  BY DEF IsDanger
LEMMA PanicDanger ==
  ASSUME NEW l
  PROVE  IsDanger("PANIC", l) <=> l["PANIC"] = "high"
  BY DEF IsDanger
-----------------------------------------------------------------------------
(* Type correctness. *)

LEMMA InitType == Init => TypeOK
  BY DEF Init, TypeOK, Levels, Readings

LEMMA ReadWatchType ==
  ASSUME TypeOK, NEW p \in Watched, NEW r, ReadWatch(p, r)
  PROVE  /\ pending' \subseteq pending
         /\ lost' \subseteq Sensors
         /\ r = "fail" \/ r \in Levels
  BY WiringFacts DEF TypeOK, ReadWatch, Overlooked

LEMMA TypeNext ==
  ASSUME TypeOK, Stage, Next
  PROVE  TypeOK'
<1> USE DEF hw, handler, arming, Readings, Levels
<1>1. ASSUME NEW p \in Watched, Change(p)
      PROVE  TypeOK'
  BY <1>1 DEF TypeOK, Change
<1>2. ASSUME NEW p \in Watched, WindowEnds(p)
      PROVE  TypeOK'
  BY <1>2 DEF TypeOK, WindowEnds
<1>3. ASSUME NEW p \in Watched, SetupWatch(p)
      PROVE  TypeOK'
  BY <1>3, WiringFacts DEF TypeOK, SetupWatch
<1>4. ASSUME NEW p \in Watched, PreflightReads(p)
      PROVE  TypeOK'
  BY <1>4 DEF TypeOK, PreflightReads, AfterPreflight
<1>5. ASSUME NEW p \in Watched, IgnoreBounce(p)
      PROVE  TypeOK'
  BY <1>5 DEF TypeOK, IgnoreBounce
<1>6. ASSUME NEW p \in Watched, HandleEvent(p)
      PROVE  TypeOK'
  <2>1. PICK reading \in Readings :
          /\ ReadWatch(p, reading)
          /\ IF EndsUnconfirmed(p, reading)
               THEN /\ pc' = IF todo' = {} THEN "pass" ELSE "handle"
                    /\ UNCHANGED handler
               ELSE /\ pc' = "confirm" /\ pin' = p /\ raw' = reading
                    /\ UNCHANGED nc_raw
    BY <1>6 DEF HandleEvent
  <2>2. pending' \subseteq pending /\ lost' \subseteq Sensors
    BY <2>1, ReadWatchType
  <2> QED BY <1>6, <2>1, <2>2 DEF TypeOK, HandleEvent, EndsUnconfirmed
<1>7. CASE ConfirmReading
  <2>1. pin \in Watched
    BY <1>7 DEF ConfirmReading, Stage
  <2>2. PICK reading \in Readings :
          /\ ReadWatch(pin, reading)
          /\ IF reading # "fail" /\ pin \notin {"PANIC", "SMOKE"}
               THEN pc' = "verdict_nc" /\ NoTrigger /\ UNCHANGED handler
               ELSE /\ IF reading # "fail" /\ Confirmed(pin, raw, reading)
                         THEN Trigger(pin)
                         ELSE NoTrigger
                    /\ ReturnFromEvent
    BY <1>7 DEF ConfirmReading
  <2>3. pending' \subseteq pending /\ lost' \subseteq Sensors
    BY <2>1, <2>2, ReadWatchType
  <2>4. answered' \subseteq Sensors /\ armed' \in BOOLEAN /\ checked' \in BOOLEAN
    <3>1. CASE NoTrigger
      BY <3>1 DEF TypeOK, NoTrigger
    <3>2. CASE Confirmed(pin, raw, reading) /\ Trigger(pin)
      <4>1. pin \in Sensors
        BY <2>1, <3>2, WiringFacts DEF Confirmed
      <4> QED BY <3>2, <4>1 DEF TypeOK, Trigger
    <3> QED BY <2>2, <3>1, <3>2
  <2> QED BY <1>7, <2>2, <2>3, <2>4 DEF TypeOK, ConfirmReading, ReturnFromEvent
<1>8. CASE VerdictReadsNc
  BY <1>8 DEF TypeOK, VerdictReadsNc
<1>9. CASE VerdictReadsNo
  <2>1. SensorOf[pin] \in Sensors
    BY <1>9, WiringFacts DEF VerdictReadsNo, Stage
  <2>2. answered' \subseteq Sensors /\ armed' \in BOOLEAN /\ checked' \in BOOLEAN
    BY <1>9, <2>1 DEF VerdictReadsNo, TypeOK, Trigger, NoTrigger
  <2>3. lost' \subseteq Sensors
    BY <1>9, <2>1 DEF VerdictReadsNo, TypeOK
  <2> QED BY <1>9, <2>2, <2>3 DEF TypeOK, VerdictReadsNo, ReturnFromEvent
<1>10. CASE Poll \/ StartPreflight \/ ForceArm \/ Disarm
  BY <1>10 DEF TypeOK, Poll, StartPreflight, ForceArm, Disarm
<1>11. CASE Boot \/ Crash
  BY <1>11 DEF TypeOK, Boot, Crash
<1> QED
  BY <1>1, <1>2, <1>3, <1>4, <1>5, <1>6, <1>7, <1>8, <1>9, <1>10, <1>11 DEF Next, Event

(* Where main stands, which files are open, what it holds. *)
LEMMA StageNext ==
  ASSUME TypeOK, Stage, Next
  PROVE  Stage'
<1> USE DEF hw, handler, arming
<1>1. ASSUME NEW p \in Watched, Change(p) \/ WindowEnds(p) \/ IgnoreBounce(p)
      PROVE  Stage'
  BY <1>1 DEF Stage, Change, WindowEnds, IgnoreBounce
<1>2. ASSUME NEW p \in Watched, SetupWatch(p)
      PROVE  Stage'
  BY <1>2 DEF Stage, TypeOK, SetupWatch
<1>3. ASSUME NEW p \in Watched, PreflightReads(p)
      PROVE  Stage'
  BY <1>3, WiringFacts DEF Stage, TypeOK, PreflightReads, AfterPreflight, ComesNext
<1>4. ASSUME NEW p \in Watched, HandleEvent(p)
      PROVE  Stage'
  BY <1>4 DEF Stage, TypeOK, HandleEvent, EndsUnconfirmed, Readings, Levels
<1>5. CASE ConfirmReading
  BY <1>5, WiringFacts DEF Stage, ConfirmReading, ReturnFromEvent, Trigger, NoTrigger
<1>6. CASE VerdictReadsNc
  BY <1>6 DEF Stage, VerdictReadsNc
<1>7. CASE VerdictReadsNo
  BY <1>7 DEF Stage, VerdictReadsNo, ReturnFromEvent, Trigger, NoTrigger
<1>8. CASE Poll \/ StartPreflight \/ ForceArm \/ Disarm
  BY <1>8, WiringFacts DEF Stage, Poll, StartPreflight, ForceArm, Disarm
<1>9. CASE Boot \/ Crash
  BY <1>9, WiringFacts DEF Stage, Boot, Crash
<1> QED
  BY <1>1, <1>2, <1>3, <1>4, <1>5, <1>6, <1>7, <1>8, <1>9 DEF Next, Event
-----------------------------------------------------------------------------
(* What becomes of an edge. *)

LEMMA VerdictNext ==
  ASSUME TypeOK, Stage, VerdictInv, Next
  PROVE  VerdictInv'
<1> USE DEF hw, handler, arming
<1>1. ASSUME NEW p \in Watched, Change(p)
      PROVE  VerdictInv'
  BY <1>1, WiringFacts DEF VerdictInv, TypeOK, Stage, Change, WakesMain
<1>2. CASE VerdictReadsNc
  BY <1>2, WiringFacts DEF VerdictInv, Stage, VerdictReadsNc, ReadInput
<1>3. CASE pc' # "verdict_no"
  BY <1>3 DEF VerdictInv
<1>4. CASE pc' = "verdict_no" /\ ~VerdictReadsNc /\ ~\E p \in Watched : Change(p)
  <2>1. \E p \in Watched : WindowEnds(p)
    BY <1>4 DEF Next, Event, IgnoreBounce, HandleEvent, ConfirmReading, VerdictReadsNo,
                Poll, SetupWatch, PreflightReads, AfterPreflight, Boot, Crash,
                StartPreflight, ForceArm, Disarm, ReturnFromEvent
  <2> QED BY <2>1 DEF VerdictInv, WindowEnds
<1> QED BY <1>1, <1>2, <1>3, <1>4

(* A sensor's edges are left alone by a step that reads no pin of it and moves
   none of its contacts. *)
LEMMA NoticedStays ==
  ASSUME TypeOK, NEW sensor \in Sensors, Noticed(sensor),
         InHand(sensor) => InHand(sensor)',
         sensor \in lost => sensor \in lost',
         \A p \in pending : SensorOf[p] = sensor => p \in pending'
  PROVE  Noticed(sensor)'
  BY DEF Noticed, Excused

(* A contact of an open watch leaves an edge, the panic button when pressed. *)
LEMMA ChangeIsNoticed ==
  ASSUME TypeOK, NEW p \in Watched, Change(p), p = "PANIC" => level'[p] = "high",
         NEW sensor \in Sensors, SensorOf[p] = sensor, Ready(sensor)
  PROVE  Noticed(sensor)'
<1>1. p \in pending'
  BY DEF Change, WakesMain, Ready, Pins, TypeOK
<1> QED BY <1>1 DEF Noticed, Excused

LEMMA ChangeElsewhere ==
  ASSUME TypeOK, NEW p \in Watched, Change(p), NEW sensor \in Sensors,
         SensorOf[p] # sensor, Noticed(sensor)
  PROVE  Noticed(sensor)'
  BY NoticedStays DEF Change, InHand, handler

(* Where an event of the sensor in hand ends. *)
LEMMA ReadIsNoticed ==
  ASSUME TypeOK, NEW p \in Watched, NEW r, ReadWatch(p, r), r = "fail",
         NEW sensor \in Sensors, SensorOf[p] = sensor
  PROVE  Noticed(sensor)'
<1>1. sensor \in lost'
  BY DEF TypeOK, Levels, ReadWatch
<1> QED BY <1>1 DEF Noticed, Excused

LEMMA ReadElsewhere ==
  ASSUME TypeOK, NEW p \in Watched, NEW r, ReadWatch(p, r),
         NEW sensor \in Sensors, SensorOf[p] # sensor,
         Noticed(sensor), InHand(sensor) => InHand(sensor)'
  PROVE  Noticed(sensor)'
  BY NoticedStays DEF ReadWatch

LEMMA DangerNext ==
  ASSUME TypeOK, Stage, VerdictInv, DangerInv, Next
  PROVE  DangerInv'
<1> SUFFICES ASSUME NEW sensor \in Sensors,
                    Ready(sensor)', IsDanger(sensor, level')
             PROVE  sensor \in answered' \/ Noticed(sensor)'
  BY DEF DangerInv
<1> USE DEF hw, handler, arming
<1>0. ASSUME Ready(sensor), level' = level
      PROVE  sensor \in answered \/ Noticed(sensor)
  BY <1>0 DEF DangerInv
<1>1. ASSUME NEW p \in Watched, Change(p)
      PROVE  sensor \in answered' \/ Noticed(sensor)'
  <2>1. Ready(sensor)
    BY <1>1 DEF Change, Ready
  <2>2. CASE SensorOf[p] = sensor
    <3>1. p = "PANIC" => level'[p] = "high"
      BY <2>2, PanicDanger, WiringFacts
    <3> QED BY <1>1, <2>1, <2>2, <3>1, ChangeIsNoticed
  <2>3. CASE SensorOf[p] # sensor
    <3>1. IsDanger(sensor, level)
      BY <1>1, <2>3, DangerIsLocal DEF Change
    <3>2. sensor \in answered => sensor \in answered'
      BY <1>1 DEF Change
    <3>3. Noticed(sensor) => Noticed(sensor)'
      BY <1>1, <2>3, ChangeElsewhere
    <3> QED BY <2>1, <3>1, <3>2, <3>3 DEF DangerInv
  <2> QED BY <2>2, <2>3
<1>2. ASSUME NEW p \in Watched, WindowEnds(p) \/ IgnoreBounce(p)
      PROVE  sensor \in answered' \/ Noticed(sensor)'
  <2>1. Noticed(sensor) => Noticed(sensor)'
    BY <1>2, NoticedStays DEF WindowEnds, IgnoreBounce, InHand
  <2> QED BY <1>0, <1>2, <2>1 DEF WindowEnds, IgnoreBounce, Ready
<1>3. ASSUME NEW p \in Watched, SetupWatch(p)
      PROVE  sensor \in answered' \/ Noticed(sensor)'
  <2>1. CASE SensorOf[p] = sensor
    BY <1>3, <2>1 DEF SetupWatch, Noticed, Excused
  <2>2. CASE SensorOf[p] # sensor
    <3>1. Ready(sensor)
      BY <1>3, <2>2 DEF SetupWatch, Ready, Pins
    <3>2. Noticed(sensor) => Noticed(sensor)'
      BY <1>3, <2>2, NoticedStays DEF SetupWatch, InHand
    <3> QED BY <1>0, <1>3, <3>1, <3>2 DEF SetupWatch
  <2> QED BY <2>1, <2>2
<1>4. ASSUME NEW p \in Watched, PreflightReads(p)
      PROVE  sensor \in answered' \/ Noticed(sensor)'
  <2>1. Noticed(sensor) => Noticed(sensor)'
    BY <1>4, NoticedStays DEF PreflightReads, InHand
  <2> QED BY <1>0, <1>4, <2>1 DEF PreflightReads, Ready
<1>5. ASSUME NEW p \in Watched, HandleEvent(p)
      PROVE  sensor \in answered' \/ Noticed(sensor)'
  <2>1. PICK reading \in Readings :
          /\ ReadWatch(p, reading)
          /\ IF EndsUnconfirmed(p, reading)
               THEN /\ pc' = IF todo' = {} THEN "pass" ELSE "handle"
                    /\ UNCHANGED handler
               ELSE /\ pc' = "confirm" /\ pin' = p /\ raw' = reading
                    /\ UNCHANGED nc_raw
    BY <1>5 DEF HandleEvent
  <2>2. ~InHand(sensor)
    BY <1>5 DEF HandleEvent, InHand
  <2>3. CASE SensorOf[p] # sensor
    BY <1>0, <1>5, <2>1, <2>2, <2>3, ReadElsewhere DEF HandleEvent, Ready
  <2>4. CASE SensorOf[p] = sensor
    <3>1. CASE reading = "fail"
      BY <2>1, <2>4, <3>1, ReadIsNoticed
    <3>2. CASE p = "SMOKE" /\ reading = "high"
      <4>1. level["SMOKE"] = "high"
        BY <2>1, <3>2 DEF ReadWatch
      <4>2. sensor = "SMOKE"
        BY <2>4, <3>2, WiringFacts
      <4> QED BY <1>5, <4>1, <4>2, SmokeDanger DEF HandleEvent
    <3>3. CASE ~EndsUnconfirmed(p, reading)
      BY <2>1, <2>4, <3>3 DEF Noticed, InHand
    <3> QED BY <3>1, <3>2, <3>3 DEF EndsUnconfirmed
  <2> QED BY <2>3, <2>4
<1>6. CASE ConfirmReading
  <2>1. pin \in Watched
    BY <1>6 DEF ConfirmReading, Stage
  <2>2. PICK reading \in Readings :
          /\ ReadWatch(pin, reading)
          /\ IF reading # "fail" /\ pin \notin {"PANIC", "SMOKE"}
               THEN pc' = "verdict_nc" /\ NoTrigger /\ UNCHANGED handler
               ELSE /\ IF reading # "fail" /\ Confirmed(pin, raw, reading)
                         THEN Trigger(pin)
                         ELSE NoTrigger
                    /\ ReturnFromEvent
    BY <1>6 DEF ConfirmReading
  <2>3. answered \subseteq answered'
    BY <2>2 DEF Trigger, NoTrigger
  <2>4. CASE SensorOf[pin] # sensor
    <3>1. ~InHand(sensor)
      BY <1>6, <2>4 DEF ConfirmReading, InHand
    <3> QED
      BY <1>0, <1>6, <2>1, <2>2, <2>3, <2>4, <3>1, ReadElsewhere DEF ConfirmReading, Ready
  <2>5. CASE SensorOf[pin] = sensor
    <3>1. CASE reading = "fail"
      BY <2>1, <2>2, <2>5, <3>1, ReadIsNoticed
    <3>2. CASE reading # "fail" /\ pin \notin {"PANIC", "SMOKE"}
      BY <2>2, <2>5, <3>2 DEF Noticed, InHand
    <3>3. CASE reading # "fail" /\ pin = "SMOKE"
      <4>1. sensor = "SMOKE" /\ raw = "low" /\ reading = level["SMOKE"] /\ level' = level
        BY <1>6, <2>2, <2>5, <3>3, WiringFacts DEF ConfirmReading, Stage, ReadWatch
      <4>2. reading = "low"
        BY <4>1, SmokeDanger
      <4>3. Confirmed(pin, raw, reading)
        BY <3>3, <4>1, <4>2, WiringFacts DEF Confirmed
      <4> QED BY <2>2, <3>3, <4>1, <4>3 DEF Trigger
    (* A press that was read twice is alarmed; one that was not seen at first is
       overlooked. *)
    <3>4. CASE reading # "fail" /\ pin = "PANIC"
      <4>1. sensor = "PANIC" /\ reading = level["PANIC"] /\ level' = level
            /\ lost' = lost \cup Overlooked
        BY <1>6, <2>2, <2>5, <3>4, WiringFacts DEF ConfirmReading, ReadWatch
      <4>2. reading = "high"
        BY <4>1, PanicDanger
      <4>3. CASE raw = "low"
        BY <1>6, <3>4, <4>1, <4>3 DEF ConfirmReading, Overlooked, Noticed, Excused
      <4>4. CASE raw = "high"
        <5>1. Confirmed(pin, raw, reading)
          BY <3>4, <4>2, <4>4 DEF Confirmed, IsNormal
        <5> QED BY <2>2, <3>4, <4>1, <5>1 DEF Trigger
      <4> QED BY <4>3, <4>4 DEF TypeOK, Levels
    <3> QED BY <2>1, <2>5, <3>1, <3>2, <3>3, <3>4, WiringFacts
  <2> QED BY <2>4, <2>5
<1>7. CASE VerdictReadsNc
  <2>1. PICK reading \in Readings :
          ReadInput(Nc[SensorOf[pin]], reading) /\ nc_raw' = reading
    BY <1>7 DEF VerdictReadsNc
  <2>2. SensorOf[pin] \in Shutters
    BY <1>7 DEF VerdictReadsNc, Stage
  <2>3. CASE SensorOf[pin] = sensor
    <3>1. level[Nc[sensor]] = "high"
      BY <1>7, <2>2, <2>3, ShutterDanger DEF VerdictReadsNc
    <3> QED BY <1>7, <2>1, <2>3, <3>1 DEF VerdictReadsNc, ReadInput, Noticed, InHand
  <2>4. CASE SensorOf[pin] # sensor
    <3>1. Noticed(sensor) => Noticed(sensor)'
      BY <1>7, <2>4, NoticedStays DEF VerdictReadsNc, InHand
    <3> QED BY <1>0, <1>7, <3>1 DEF VerdictReadsNc, Ready
  <2> QED BY <2>3, <2>4
<1>8. CASE VerdictReadsNo
  <2> DEFINE s == SensorOf[pin]
  <2>1. s \in Shutters /\ level' = level /\ pending' = pending /\ opened' = opened
    BY <1>8 DEF VerdictReadsNo, Stage
  <2>2. PICK reading \in Readings :
          /\ ReadInput(No[s], reading)
          /\ IF \/ ShutterState(nc_raw, reading) = "tamper"
                \/ ShutterState(nc_raw, reading) = "open" /\ armed
               THEN Trigger(s)
               ELSE NoTrigger
          /\ lost' = IF "fail" \in {nc_raw, reading} THEN lost \cup {s} ELSE lost \ {s}
    BY <1>8 DEF VerdictReadsNo
  <2>3. answered \subseteq answered'
    BY <2>2 DEF Trigger, NoTrigger
  <2>4. CASE s # sensor
    <3>1. Noticed(sensor) => Noticed(sensor)'
      BY <1>8, <2>1, <2>2, <2>4, NoticedStays DEF VerdictReadsNo, InHand
    <3> QED BY <1>0, <2>1, <2>3, <3>1 DEF Ready
  <2>5. CASE s = sensor
    <3>1. level[Nc[s]] = "high" /\ level[No[s]] = "high"
      BY <2>1, <2>5, ShutterDanger
    <3>2. CASE "fail" \in {nc_raw, reading}
      BY <2>2, <2>5, <3>2 DEF Noticed, Excused
    <3>3. CASE nc_raw = "low"
      <4>1. Nc[s] \in pending'
        BY <1>8, <2>1, <3>1, <3>3 DEF VerdictReadsNo, VerdictInv
      <4> QED BY <2>1, <2>5, <4>1, WiringFacts DEF Noticed, Excused
    <3>4. CASE nc_raw = "high" /\ reading # "fail"
      <4>1. reading = "high"
        BY <2>2, <3>1, <3>4 DEF ReadInput
      <4>2. ShutterState(nc_raw, reading) = "tamper"
        BY <3>4, <4>1 DEF ShutterState
      <4> QED BY <2>1, <2>2, <2>5, <4>2 DEF Trigger
    <3> QED BY <3>2, <3>3, <3>4 DEF TypeOK, Readings, Levels
  <2> QED BY <2>4, <2>5
<1>9. CASE Poll \/ StartPreflight \/ ForceArm \/ Disarm
  <2>1. Noticed(sensor) => Noticed(sensor)'
    BY <1>9, NoticedStays DEF Poll, StartPreflight, ForceArm, Disarm, InHand
  <2> QED BY <1>0, <1>9, <2>1 DEF Poll, StartPreflight, ForceArm, Disarm, Ready
<1>10. CASE Boot \/ Crash
  <2>1. opened' = {}
    BY <1>10 DEF Boot, Crash, Stage
  <2>2. Pins(sensor) # {}
    BY WiringFacts DEF Pins
  <2> QED BY <2>1, <2>2 DEF Ready, Pins
<1> QED
  BY <1>1, <1>2, <1>3, <1>4, <1>5, <1>6, <1>7, <1>8, <1>9, <1>10 DEF Next, Event

LEMMA OpenNext ==
  ASSUME TypeOK, Stage, VerdictInv, OpenInv, Next
  PROVE  OpenInv'
<1> SUFFICES ASSUME NEW s \in Shutters,
                    Ready(s)', Passed(s)', level[Nc[s]]' = "high"
             PROVE  Noticed(s)'
  BY DEF OpenInv
<1>a. s \in Sensors \ {"PANIC", "SMOKE"} /\ Nc[s] \in Watched /\ SensorOf[Nc[s]] = s
  BY WiringFacts
<1> USE DEF hw, handler, arming
<1>0. ASSUME Ready(s), Passed(s), level' = level
      PROVE  Noticed(s)
  BY <1>0 DEF OpenInv
<1>1. ASSUME NEW p \in Watched, Change(p)
      PROVE  Noticed(s)'
  <2>1. Ready(s) /\ Passed(s)
    BY <1>1 DEF Change, Ready, Passed
  <2>2. CASE SensorOf[p] = s
    <3>1. p # "PANIC"
      BY <1>a, <2>2, WiringFacts
    <3> QED BY <1>a, <1>1, <2>1, <2>2, <3>1, ChangeIsNoticed
  <2>3. CASE SensorOf[p] # s
    <3>1. level[Nc[s]] = "high"
      BY <1>a, <1>1, <2>3 DEF Change, TypeOK
    <3> QED BY <1>a, <1>1, <2>1, <2>3, <3>1, ChangeElsewhere DEF OpenInv
  <2> QED BY <2>2, <2>3
<1>2. ASSUME NEW p \in Watched, WindowEnds(p) \/ IgnoreBounce(p)
      PROVE  Noticed(s)'
  <2>1. Noticed(s) => Noticed(s)'
    BY <1>a, <1>2, NoticedStays DEF WindowEnds, IgnoreBounce, InHand
  <2> QED BY <1>0, <1>2, <2>1 DEF WindowEnds, IgnoreBounce, Ready, Passed
<1>3. ASSUME NEW p \in Watched, SetupWatch(p)
      PROVE  Noticed(s)'
  <2>1. CASE SensorOf[p] = s
    BY <1>3, <2>1 DEF SetupWatch, Noticed, Excused
  <2>2. CASE SensorOf[p] # s
    <3>1. Ready(s) /\ Passed(s)
      BY <1>3, <2>2 DEF SetupWatch, Ready, Pins, Passed
    <3>2. Noticed(s) => Noticed(s)'
      BY <1>a, <1>3, <2>2, NoticedStays DEF SetupWatch, InHand
    <3> QED BY <1>0, <1>3, <3>1, <3>2 DEF SetupWatch
  <2> QED BY <2>1, <2>2
(* What the preflight has just read is closed, and what it read before was. *)
<1>4. ASSUME NEW p \in Watched, PreflightReads(p)
      PROVE  Noticed(s)'
  <2>1. Noticed(s) => Noticed(s)'
    BY <1>a, <1>4, NoticedStays DEF PreflightReads, InHand
  <2>2. PICK reading \in Readings :
          /\ ReadInput(p, reading)
          /\ IF IsNormal(p, reading) /\ todo # {p}
               THEN todo' = todo \ {p} /\ UNCHANGED <<pc, armed, checked>>
               ELSE /\ pc' # "preflight"
                    /\ checked' = (checked \/ IsNormal(p, reading))
    BY <1>4 DEF PreflightReads, AfterPreflight
  <2>3. CASE Passed(s)
    BY <1>0, <1>4, <2>1, <2>3 DEF PreflightReads, Ready
  <2>4. CASE ~Passed(s)
    <3>1. Nc[s] \in todo /\ ~checked
      BY <1>4, <2>4 DEF Passed, PreflightReads
    <3>2. Nc[s] = p /\ IsNormal(p, reading)
      BY <1>4, <2>2, <3>1 DEF PreflightReads, Passed
    <3>3. reading = "low"
      BY <1>a, <3>2, WiringFacts DEF IsNormal, Nc, Shutters
    <3> QED BY <1>4, <2>2, <3>2, <3>3 DEF ReadInput, PreflightReads
  <2> QED BY <2>3, <2>4
<1>5. ASSUME NEW p \in Watched, HandleEvent(p)
      PROVE  Noticed(s)'
  <2>1. PICK reading \in Readings :
          /\ ReadWatch(p, reading)
          /\ IF EndsUnconfirmed(p, reading)
               THEN /\ pc' = IF todo' = {} THEN "pass" ELSE "handle"
                    /\ UNCHANGED handler
               ELSE /\ pc' = "confirm" /\ pin' = p /\ raw' = reading
                    /\ UNCHANGED nc_raw
    BY <1>5 DEF HandleEvent
  <2>2. Passed(s) /\ ~InHand(s)
    BY <1>5, <2>1 DEF HandleEvent, Passed, InHand
  <2>3. CASE SensorOf[p] # s
    BY <1>a, <1>0, <1>5, <2>1, <2>2, <2>3, ReadElsewhere DEF HandleEvent, Ready
  <2>4. CASE SensorOf[p] = s /\ reading = "fail"
    BY <1>a, <2>1, <2>4, ReadIsNoticed
  <2>5. CASE SensorOf[p] = s /\ reading # "fail"
    <3>1. p # "SMOKE"
      BY <1>a, <2>5, WiringFacts
    <3> QED BY <2>1, <2>5, <3>1 DEF EndsUnconfirmed, Noticed, InHand
  <2> QED BY <2>3, <2>4, <2>5
<1>6. CASE ConfirmReading
  <2>1. pin \in Watched
    BY <1>6 DEF ConfirmReading, Stage
  <2>2. PICK reading \in Readings :
          /\ ReadWatch(pin, reading)
          /\ IF reading # "fail" /\ pin \notin {"PANIC", "SMOKE"}
               THEN pc' = "verdict_nc" /\ NoTrigger /\ UNCHANGED handler
               ELSE /\ IF reading # "fail" /\ Confirmed(pin, raw, reading)
                         THEN Trigger(pin)
                         ELSE NoTrigger
                    /\ ReturnFromEvent
    BY <1>6 DEF ConfirmReading
  <2>3. checked
    BY <2>2 DEF Trigger, NoTrigger, ReturnFromEvent, Passed
  <2>4. CASE SensorOf[pin] # s
    <3>1. ~InHand(s)
      BY <1>6, <2>4 DEF ConfirmReading, InHand
    <3> QED
      BY <1>a, <1>0, <1>6, <2>1, <2>2, <2>3, <2>4, <3>1, ReadElsewhere
      DEF ConfirmReading, Ready, Passed
  <2>5. CASE SensorOf[pin] = s /\ reading = "fail"
    BY <1>a, <2>1, <2>2, <2>5, ReadIsNoticed
  <2>6. CASE SensorOf[pin] = s /\ reading # "fail"
    <3>1. pin \notin {"PANIC", "SMOKE"}
      BY <2>1, <2>6, WiringFacts
    <3> QED BY <2>2, <2>6, <3>1 DEF Noticed, InHand
  <2> QED BY <2>4, <2>5, <2>6
<1>7. CASE VerdictReadsNc
  <2>1. PICK reading \in Readings :
          ReadInput(Nc[SensorOf[pin]], reading) /\ nc_raw' = reading
    BY <1>7 DEF VerdictReadsNc
  <2>2. CASE SensorOf[pin] = s
    BY <1>7, <2>1, <2>2 DEF VerdictReadsNc, ReadInput, Noticed, InHand
  <2>3. CASE SensorOf[pin] # s
    <3>1. Noticed(s) => Noticed(s)'
      BY <1>a, <1>7, <2>3, NoticedStays DEF VerdictReadsNc, InHand
    <3> QED BY <1>0, <1>7, <3>1 DEF VerdictReadsNc, Ready, Passed
  <2> QED BY <2>2, <2>3
(* A shutter that passed and reads open or cut now raises the alarm, and the shop
   is disarmed: then nothing is claimed. *)
<1>8. CASE VerdictReadsNo
  <2>1. SensorOf[pin] \in Shutters /\ level' = level /\ pending' = pending /\ opened' = opened
    BY <1>8 DEF VerdictReadsNo, Stage
  <2>2. PICK reading \in Readings :
          /\ IF \/ ShutterState(nc_raw, reading) = "tamper"
                \/ ShutterState(nc_raw, reading) = "open" /\ armed
               THEN Trigger(SensorOf[pin])
               ELSE NoTrigger
          /\ lost' = IF "fail" \in {nc_raw, reading}
                       THEN lost \cup {SensorOf[pin]} ELSE lost \ {SensorOf[pin]}
    BY <1>8 DEF VerdictReadsNo
  <2>3. checked' /\ checked /\ armed
    BY <1>8, <2>2 DEF VerdictReadsNo, ReturnFromEvent, Passed, Trigger, NoTrigger, Stage
  <2>4. CASE SensorOf[pin] # s
    <3>1. Noticed(s) => Noticed(s)'
      BY <1>a, <1>8, <2>1, <2>2, <2>4, NoticedStays DEF VerdictReadsNo, InHand
    <3> QED BY <1>0, <2>1, <2>3, <3>1 DEF Ready, Passed
  <2>5. CASE SensorOf[pin] = s
    <3>1. CASE "fail" \in {nc_raw, reading}
      BY <2>2, <2>5, <3>1 DEF Noticed, Excused
    <3>2. CASE nc_raw = "low"
      <4>1. Nc[s] \in pending'
        BY <1>8, <2>1, <2>5, <3>2 DEF VerdictReadsNo, VerdictInv
      <4> QED BY <1>a, <4>1 DEF Noticed, Excused
    <3>3. CASE nc_raw = "high" /\ reading # "fail"
      <4>1. ShutterState(nc_raw, reading) \in {"tamper", "open"}
        BY <3>3 DEF ShutterState
      <4> QED BY <2>2, <2>3, <4>1 DEF Trigger
    <3> QED BY <3>1, <3>2, <3>3 DEF TypeOK, Readings, Levels
  <2> QED BY <2>4, <2>5
<1>9. CASE StartPreflight
  <2>1. Noticed(s) => Noticed(s)'
    BY <1>a, <1>9, NoticedStays DEF StartPreflight, InHand
  <2>2. Passed(s)
    BY <1>a, <1>9 DEF StartPreflight, Passed
  <2> QED BY <1>0, <1>9, <2>1, <2>2 DEF StartPreflight, Ready
<1>10. CASE Poll \/ ForceArm \/ Disarm
  <2>1. Noticed(s) => Noticed(s)'
    BY <1>a, <1>10, NoticedStays DEF Poll, ForceArm, Disarm, InHand
  <2> QED BY <1>0, <1>10, <2>1 DEF Poll, ForceArm, Disarm, Ready, Passed
<1>11. CASE Boot \/ Crash
  <2>1. opened' = {}
    BY <1>11 DEF Boot, Crash, Stage
  <2> QED BY <1>a, <2>1 DEF Ready, Pins
<1> QED
  BY <1>1, <1>2, <1>3, <1>4, <1>5, <1>6, <1>7, <1>8, <1>9, <1>10, <1>11 DEF Next, Event
-----------------------------------------------------------------------------
LEMMA InitInv == Init => IInv
<1> SUFFICES ASSUME Init PROVE IInv
  OBVIOUS
<1>1. ASSUME NEW sensor \in Sensors PROVE ~Ready(sensor)
  <2>1. Pins(sensor) # {}
    BY WiringFacts DEF Pins
  <2> QED BY <2>1 DEF Init, Ready
<1>2. DangerInv /\ OpenInv
  BY <1>1, WiringFacts DEF DangerInv, OpenInv
<1> QED BY <1>2, InitType DEF Init, IInv, Stage, VerdictInv

LEMMA NextInv == IInv /\ [Next]_vars => IInv'
<1>1. ASSUME IInv, Next PROVE IInv'
  BY <1>1, TypeNext, StageNext, VerdictNext, DangerNext, OpenNext DEF IInv
<1>2. ASSUME IInv, UNCHANGED vars PROVE IInv'
  BY <1>2
  DEF vars, hw, handler, arming, IInv, TypeOK, Stage, VerdictInv, DangerInv, OpenInv,
      Noticed, InHand, Excused, Ready, Passed
<1> QED BY <1>1, <1>2

LEMMA InvHolds == Spec => []IInv
  BY InitInv, NextInv, PTL DEF Spec

(* For every configuration of the wired sensors: main's place, its loop over the
   watches and what it holds of a reading stay within their types; an edge is
   waiting only at a file that is open. *)
THEOREM TypeCorrect == Spec => []TypeOK
<1>1. IInv => TypeOK
  BY DEF IInv
<1> QED BY <1>1, InvHolds, PTL

(* For every configuration: once the shop has passed the preflight, no opening of
   a shutter is overlooked, whichever edges, failed reads, bounces, events of
   other sensors and further preflights come in between. *)
THEOREM OpenIsNoticed == Spec => []OpenShutterIsNoticed
<1>1. IInv => OpenShutterIsNoticed
  <2> SUFFICES ASSUME IInv, pc = "pass", armed, checked,
                      NEW s \in Shutters, level[Nc[s]] = "high"
               PROVE  Excused(s)
    BY DEF OpenShutterIsNoticed
  <2>1. Ready(s) /\ Passed(s)
    BY DEF IInv, Stage, Ready, Pins, Passed
  <2>2. Noticed(s) /\ ~InHand(s)
    BY <2>1 DEF IInv, OpenInv, InHand
  <2> QED BY <2>2 DEF Noticed
<1> QED BY <1>1, InvHolds, PTL

(* For every configuration: a cut wire, smoke and a button that last have raised
   their alarm, or an edge is waiting that will, or the press was overlooked. *)
THEOREM DangerIsNoticed == Spec => []LastingDangerIsNoticed
<1>1. IInv => LastingDangerIsNoticed
  <2> SUFFICES ASSUME IInv, pc = "pass", opened = Watched,
                      NEW sensor \in Sensors, IsDanger(sensor, level)
               PROVE  sensor \in answered \/ Excused(sensor)
    BY DEF LastingDangerIsNoticed
  <2>1. sensor \in answered \/ Noticed(sensor)
    BY DEF IInv, DangerInv, Ready, Pins
  <2> QED BY <2>1 DEF Noticed, InHand
<1> QED BY <1>1, InvHolds, PTL
-----------------------------------------------------------------------------
(* What lasts is alarmed.  Suppose it is not: a sensor stays out for ever, and no
   trigger, no disarm and no failed read ends that.  Then main never has an event
   of it in hand (whose verdict would trigger), so no pin of it is handled, so an
   edge of it waits for ever and its window ends; but main comes to its poll again
   and again, puts the pin on its list and can do no other than handle it. *)

Lasts(s) ==
  \/ Unanswered(s)
  \/ s \in Shutters /\ StandsOpen(s)

Confirms(s)   == pc = "confirm" /\ SensorOf[pin] = s
JudgesNc(s)   == pc = "verdict_nc" /\ SensorOf[pin] = s
JudgesNo(s)   == pc = "verdict_no" /\ SensorOf[pin] = s /\ nc_raw # "low"

AtPoll    == pc = "pass"
AtPick    == pc \in {"preflight", "handle"}
AtConfirm == pc = "confirm"
AtNc      == pc = "verdict_nc"
AtNo      == pc = "verdict_no"

\* The loop has no pin left up to this place in the array.
Past(r) == \A q \in todo : Rank[q] > r

Waits(p)  == p \in pending
Settled(p) == p \notin recent
HeldUp(p) == p \in todo /\ pc \in {"handle", "confirm", "verdict_nc", "verdict_no"}

LEMMA LastsAtStage ==
  ASSUME IInv, NEW s \in Sensors, Lasts(s)
  PROVE  /\ opened = Watched /\ s \notin lost
         /\ pc \notin {"down", "setup"}
         /\ Noticed(s)
<1>1. opened = Watched /\ s \notin lost
  BY DEF Lasts, Unanswered, StandsOpen
<1>2. pc \notin {"down", "setup"}
  BY <1>1, WiringFacts DEF IInv, Stage, TypeOK
<1>3. Ready(s)
  BY <1>1 DEF Ready, Pins
<1>4. Unanswered(s) => Noticed(s)
  BY <1>3 DEF IInv, DangerInv, Unanswered
<1>5. s \in Shutters /\ StandsOpen(s) => Noticed(s)
  BY <1>3 DEF IInv, OpenInv, StandsOpen, Passed
<1> QED BY <1>1, <1>2, <1>4, <1>5 DEF Lasts

\* Neither a start nor an end of the process leaves it lasting.
LEMMA NoRestart ==
  ASSUME IInv, NEW s \in Sensors, Lasts(s), Lasts(s)', Next
  PROVE  /\ Event \/ Poll \/ StartPreflight \/ ForceArm \/ Disarm
            \/ \E p \in Watched : Change(p) \/ WindowEnds(p) \/ PreflightReads(p)
         /\ s \notin lost' /\ opened' = Watched
<1>1. s \notin lost' /\ opened' = Watched
  BY DEF Lasts, Unanswered, StandsOpen
<1> QED BY <1>1, LastsAtStage, WiringFacts DEF Next, Boot, Crash, SetupWatch

\* A verdict about what lasts triggers, and the trigger ends it.
LEMMA ConfirmDecides ==
  ASSUME IInv, NEW s \in Sensors, Lasts(s), Lasts(s)', Confirms(s), ConfirmReading
  PROVE  JudgesNc(s)'
<1>1. pin \in Watched /\ SensorOf[pin] = s /\ s \notin lost' /\ level' = level
  BY DEF IInv, Stage, Confirms, ConfirmReading, Lasts, Unanswered, StandsOpen
<1>2. PICK reading \in Readings :
        /\ ReadWatch(pin, reading)
        /\ IF reading # "fail" /\ pin \notin {"PANIC", "SMOKE"}
             THEN pc' = "verdict_nc" /\ NoTrigger /\ UNCHANGED handler
             ELSE /\ IF reading # "fail" /\ Confirmed(pin, raw, reading)
                       THEN Trigger(pin)
                       ELSE NoTrigger
                  /\ ReturnFromEvent
  BY DEF ConfirmReading
<1>3. reading = level[pin] /\ reading # "fail" /\ lost' = lost \cup Overlooked
  BY <1>1, <1>2 DEF ReadWatch, IInv, TypeOK, Levels
<1>4. CASE pin \notin {"PANIC", "SMOKE"}
  BY <1>1, <1>2, <1>3, <1>4 DEF JudgesNc, handler
<1>5. CASE pin \in {"PANIC", "SMOKE"}
  <2>1. s = pin /\ s \notin Shutters
    BY <1>1, <1>5, WiringFacts
  <2>2. Unanswered(s) /\ IsDanger(s, level) /\ s \notin answered'
    BY <2>1 DEF Lasts, Unanswered
  <2>3. Confirmed(pin, raw, reading)
    <3>1. CASE pin = "SMOKE"
      BY <1>3, <2>1, <2>2, <3>1, SmokeDanger, WiringFacts
      DEF Confirmed, IInv, Stage, Confirms
    <3>2. CASE pin = "PANIC"
      <4>1. reading = "high"
        BY <1>3, <2>1, <2>2, <3>2, PanicDanger
      <4>2. raw = "high"
        BY <1>1, <1>3, <2>1, <3>2 DEF Overlooked, Confirms, IInv, TypeOK, Levels
      <4> QED BY <3>2, <4>1, <4>2 DEF Confirmed, IsNormal
    <3> QED BY <1>5, <3>1, <3>2
  <2> QED BY <1>2, <1>3, <1>5, <2>1, <2>2, <2>3 DEF Trigger
<1> QED BY <1>4, <1>5

LEMMA NcIsRead ==
  ASSUME IInv, NEW s \in Sensors, Lasts(s), JudgesNc(s), VerdictReadsNc
  PROVE  JudgesNo(s)'
<1>1. s \in Shutters
  BY DEF IInv, Stage, JudgesNc
<1>2. level[Nc[s]] = "high"
  BY <1>1, ShutterDanger DEF Lasts, Unanswered, StandsOpen
<1> QED BY <1>2 DEF JudgesNc, JudgesNo, VerdictReadsNc, ReadInput

LEMMA NoDecides ==
  ASSUME IInv, NEW s \in Sensors, Lasts(s), Lasts(s)', JudgesNo(s), VerdictReadsNo
  PROVE  FALSE
<1>1. s \in Shutters /\ s \notin lost' /\ level' = level
  BY DEF IInv, Stage, JudgesNo, VerdictReadsNo, hw, Lasts, Unanswered, StandsOpen
<1>2. PICK reading \in Readings :
        /\ ReadInput(No[s], reading)
        /\ IF \/ ShutterState(nc_raw, reading) = "tamper"
              \/ ShutterState(nc_raw, reading) = "open" /\ armed
             THEN Trigger(s)
             ELSE NoTrigger
        /\ lost' = IF "fail" \in {nc_raw, reading} THEN lost \cup {s} ELSE lost \ {s}
  BY DEF VerdictReadsNo, JudgesNo
<1>3. nc_raw = "high" /\ reading = level[No[s]] /\ reading # "fail"
  BY <1>1, <1>2 DEF JudgesNo, ReadInput, IInv, TypeOK, Readings, Levels
<1>4. CASE reading = "high"
  <2>1. Trigger(s)
    BY <1>2, <1>3, <1>4 DEF ShutterState
  <2>2. Unanswered(s)'
    BY <2>1 DEF Trigger, Lasts, StandsOpen
  <2>3. IsDanger(s, level)
    BY <1>1, <2>2 DEF Unanswered
  <2> QED BY <2>1, <2>2, <2>3 DEF Trigger, Unanswered
<1>5. CASE reading = "low"
  <2>1. ~IsDanger(s, level)
    BY <1>1, <1>3, <1>5, ShutterDanger
  <2>2. StandsOpen(s) /\ StandsOpen(s)'
    BY <1>1, <2>1 DEF Lasts, Unanswered
  <2>3. Trigger(s)
    BY <1>2, <1>3, <1>5, <2>2 DEF ShutterState, StandsOpen
  <2> QED BY <2>2, <2>3 DEF Trigger, StandsOpen
<1> QED BY <1>2, <1>3, <1>4, <1>5 DEF Readings, Levels

\* While it lasts: what is in hand goes on to its verdict ...
LEMMA HandMoves ==
  ASSUME IInv, NEW s \in Sensors, Lasts(s), Lasts(s)', [Next]_vars
  PROVE  /\ Confirms(s) => Confirms(s)' \/ JudgesNc(s)'
         /\ JudgesNc(s) => JudgesNc(s)' \/ JudgesNo(s)'
         /\ JudgesNo(s) => JudgesNo(s)'
<1>1. CASE UNCHANGED vars
  BY <1>1 DEF vars, handler, Confirms, JudgesNc, JudgesNo
<1>2. CASE ConfirmReading
  BY <1>2, ConfirmDecides DEF ConfirmReading, JudgesNc, JudgesNo
<1>3. CASE VerdictReadsNc
  BY <1>3, NcIsRead DEF VerdictReadsNc, Confirms, JudgesNo
<1>4. CASE VerdictReadsNo
  BY <1>4, NoDecides DEF VerdictReadsNo, Confirms, JudgesNc
<1>5. CASE /\ Next
           /\ ~ConfirmReading /\ ~VerdictReadsNc /\ ~VerdictReadsNo
  BY <1>5, NoRestart
  DEF Event, Poll, StartPreflight, ForceArm, Disarm, Change, WindowEnds, PreflightReads,
      IgnoreBounce, HandleEvent, handler, Confirms, JudgesNc, JudgesNo
<1> QED BY <1>1, <1>2, <1>3, <1>4, <1>5

\* ... and main brings it there.
LEMMA MainJudges ==
  ASSUME IInv, NEW s \in Sensors, Lasts(s), Lasts(s)', Main
  PROVE  /\ Confirms(s) => JudgesNc(s)'
         /\ JudgesNc(s) => JudgesNo(s)'
         /\ ~JudgesNo(s)
<1>1. Confirms(s) => JudgesNc(s)'
  BY ConfirmDecides
  DEF Main, Event, SetupWatch, PreflightReads, IgnoreBounce, HandleEvent, VerdictReadsNc,
      VerdictReadsNo, Confirms
<1>2. JudgesNc(s) => JudgesNo(s)'
  BY NcIsRead
  DEF Main, Event, SetupWatch, PreflightReads, IgnoreBounce, HandleEvent, ConfirmReading,
      VerdictReadsNo, JudgesNc
<1>3. ~JudgesNo(s)
  BY NoDecides
  DEF Main, Event, SetupWatch, PreflightReads, IgnoreBounce, HandleEvent, ConfirmReading,
      VerdictReadsNc, JudgesNo
<1> QED BY <1>1, <1>2, <1>3

\* A sensor that is never in hand has no pin handled.
LEMMA NotHandled ==
  ASSUME IInv, NEW s \in Sensors, Lasts(s), Lasts(s)', ~InHand(s)',
         NEW p \in Pins(s), HandleEvent(p)
  PROVE  FALSE
<1>1. SensorOf[p] = s /\ p \in Watched /\ s \notin lost' /\ level' = level
  BY DEF Pins, HandleEvent, Lasts, Unanswered, StandsOpen
<1>2. PICK reading \in Readings :
        /\ ReadWatch(p, reading)
        /\ ~EndsUnconfirmed(p, reading) => pc' = "confirm" /\ pin' = p
  BY DEF HandleEvent
<1>3. reading # "fail" /\ reading = level[p]
  BY <1>1, <1>2 DEF ReadWatch, IInv, TypeOK, Levels
<1>4. p = "SMOKE" => reading = "low"
  BY <1>1, <1>3, SmokeDanger, WiringFacts DEF Lasts, Unanswered
<1> QED BY <1>1, <1>2, <1>3, <1>4 DEF EndsUnconfirmed, InHand

\* So its edge stays where it is, its window does not start again, and once on
\* main's list, with no window, the pin stays there.
LEMMA EdgeMoves ==
  ASSUME IInv, NEW s \in Sensors, Lasts(s), Lasts(s)', ~InHand(s), ~InHand(s)',
         NEW p \in Pins(s), [Next]_vars
  PROVE  /\ Waits(p) => Waits(p)'
         /\ Settled(p) => Settled(p)'
         /\ Settled(p) /\ HeldUp(p) => HeldUp(p)'
<1>1. CASE UNCHANGED vars
  BY <1>1 DEF vars, hw, Waits, Settled, HeldUp
<1>2. ASSUME NEW q \in Watched, HandleEvent(q)
      PROVE  /\ Waits(p) => Waits(p)'
             /\ Settled(p) => Settled(p)'
             /\ Settled(p) /\ HeldUp(p) => HeldUp(p)'
  <2>1. q # p
    BY <1>2, NotHandled
  <2>2. Waits(p) => Waits(p)'
    BY <1>2, <2>1 DEF HandleEvent, ReadWatch, Waits
  <2> QED BY <1>2, <2>1, <2>2 DEF HandleEvent, Settled, HeldUp
<1>3. CASE ConfirmReading
  <2>1. pin # p
    BY <1>3 DEF ConfirmReading, InHand, Pins
  <2>2. Waits(p) => Waits(p)'
    BY <1>3, <2>1 DEF ConfirmReading, ReadWatch, Waits
  <2> QED BY <1>3, <2>2 DEF ConfirmReading, ReturnFromEvent, Settled, HeldUp
<1>4. CASE VerdictReadsNc \/ VerdictReadsNo
  BY <1>4
  DEF VerdictReadsNc, VerdictReadsNo, ReturnFromEvent, hw, Waits, Settled, HeldUp
<1>5. CASE /\ Next
           /\ ~ConfirmReading /\ ~VerdictReadsNc /\ ~VerdictReadsNo
           /\ ~\E q \in Watched : HandleEvent(q)
  BY <1>5, NoRestart
  DEF Event, Poll, StartPreflight, ForceArm, Disarm, Change, WindowEnds, PreflightReads,
      IgnoreBounce, hw, Waits, Settled, HeldUp
<1> QED BY <1>1, <1>2, <1>3, <1>4, <1>5

LEMMA EdgeWaits ==
  ASSUME IInv, NEW s \in Sensors, Lasts(s), ~InHand(s)
  PROVE  \E p \in Pins(s) : Waits(p)
  BY LastsAtStage DEF Noticed, Excused, Pins, Waits, IInv, TypeOK

\* How a pass goes on ...
LEMMA PassMoves ==
  ASSUME IInv, NEW s \in Sensors, Lasts(s), Lasts(s)', [Next]_vars
  PROVE  /\ AtPoll \/ AtPick \/ AtConfirm \/ AtNc \/ AtNo
         /\ AtConfirm => AtConfirm' \/ AtNc' \/ AtPick' \/ AtPoll'
         /\ AtNc => AtNc' \/ AtNo'
         /\ AtNo => AtNo' \/ AtPick' \/ AtPoll'
         /\ AtPick => AtPick' \/ Main
         /\ \A r \in Nat : ~AtPoll /\ Past(r) => AtPoll' \/ Past(r)'
<1> USE DEF AtPoll, AtPick, AtConfirm, AtNc, AtNo, Past
<1>1. AtPoll \/ AtPick \/ AtConfirm \/ AtNc \/ AtNo
  BY LastsAtStage DEF IInv, TypeOK
<1>2. CASE UNCHANGED vars
  BY <1>1, <1>2 DEF vars
<1>3. ASSUME NEW p \in Watched, PreflightReads(p)
      PROVE  pc = "preflight" /\ (pc' = "pass" \/ todo' = todo \ {p})
  BY <1>3, LastsAtStage, WiringFacts DEF PreflightReads, AfterPreflight
<1>4. CASE Event
  BY <1>1, <1>4
  DEF Event, IgnoreBounce, HandleEvent, ConfirmReading, VerdictReadsNc, VerdictReadsNo,
      ReturnFromEvent, Main
<1>5. CASE Next /\ ~Event
  BY <1>1, <1>3, <1>5, NoRestart
  DEF Poll, StartPreflight, ForceArm, Disarm, Change, WindowEnds, Main
<1> QED BY <1>1, <1>2, <1>4, <1>5

\* ... and main brings it to its end, pin after pin.
LEMMA MainPasses ==
  ASSUME IInv, NEW s \in Sensors, Lasts(s), Lasts(s)', Main
  PROVE  /\ AtConfirm => ~AtConfirm'
         /\ AtNc => ~AtNc'
         /\ AtNo => ~AtNo'
         /\ \A r, t \in Nat : AtPick /\ Past(r) /\ t = r + 1 => AtPoll' \/ Past(t)'
<1> USE DEF AtPoll, AtPick, AtConfirm, AtNc, AtNo
<1>1. (AtConfirm => ~AtConfirm') /\ (AtNc => ~AtNc') /\ (AtNo => ~AtNo')
  BY DEF Main, Event, SetupWatch, PreflightReads, IgnoreBounce, HandleEvent, ConfirmReading,
         VerdictReadsNc, VerdictReadsNo, ReturnFromEvent
<1>2. ASSUME NEW r \in Nat, NEW t \in Nat, AtPick, Past(r), t = r + 1
      PROVE  AtPoll' \/ Past(t)'
  <2>1. ASSUME NEW p \in Watched, PreflightReads(p)
        PROVE  ComesNext(p, todo) /\ (pc' = "pass" \/ todo' = todo \ {p})
    BY <2>1, LastsAtStage, WiringFacts DEF PreflightReads, AfterPreflight
  <2>2. PICK p \in Watched : ComesNext(p, todo) /\ (pc' = "pass" \/ todo' = todo \ {p})
    BY <1>2, <2>1, LastsAtStage
    DEF Main, Event, SetupWatch, IgnoreBounce, HandleEvent, ConfirmReading, VerdictReadsNc,
        VerdictReadsNo
  <2>3. ASSUME NEW q \in todo, q # p
        PROVE  Rank[q] > t
    <3>1. Rank[q] >= Rank[p] /\ Rank[p] > r /\ q \in Watched
      BY <2>2, <2>3, <1>2 DEF ComesNext, Past, IInv, TypeOK, Rank, Watched, SensorOf
    <3>2. Rank[q] # Rank[p] /\ Rank[q] \in Nat /\ Rank[p] \in Nat
      BY <2>3, <3>1 DEF Rank, Watched, SensorOf
    <3> QED BY <3>1, <3>2, <1>2
  <2> QED BY <2>2, <2>3 DEF Past
<1> QED BY <1>1, <1>2

-----------------------------------------------------------------------------
LastsForEver(s) ==
  []IInv /\ []SensorsCanMove /\ []Lasts(s) /\ [][Next]_vars /\ Fairness

\* What is in hand would come to a verdict.
LEMMA NeverInHand ==
  ASSUME NEW s \in Sensors
  PROVE  LastsForEver(s) => []~InHand(s)
<1>1. IInv /\ Lasts(s) /\ Lasts(s)' /\ [Next]_vars =>
        /\ Confirms(s) => Confirms(s)' \/ JudgesNc(s)'
        /\ JudgesNc(s) => JudgesNc(s)' \/ JudgesNo(s)'
        /\ JudgesNo(s) => JudgesNo(s)'
  BY HandMoves
<1>2. IInv /\ Lasts(s) /\ Lasts(s)' /\ <<Main>>_vars =>
        /\ Confirms(s) => JudgesNc(s)'
        /\ JudgesNc(s) => JudgesNo(s)'
        /\ ~JudgesNo(s)
  BY MainJudges
<1>3. SensorsCanMove => (Confirms(s) \/ JudgesNc(s) \/ JudgesNo(s) => ENABLED <<Main>>_vars)
  BY DEF SensorsCanMove, Confirms, JudgesNc, JudgesNo
<1>4. InHand(s) <=> Confirms(s) \/ JudgesNc(s) \/ JudgesNo(s)
  BY DEF InHand, Confirms, JudgesNc, JudgesNo
<1>5. ~(Confirms(s) /\ JudgesNc(s)) /\ ~(JudgesNc(s) /\ JudgesNo(s))
  BY DEF Confirms, JudgesNc, JudgesNo
<1>6. LastsForEver(s) => [](JudgesNo(s) => FALSE)
  BY <1>1, <1>2, <1>3, PTL DEF LastsForEver, Fairness
<1>7. LastsForEver(s) => [](JudgesNc(s) => FALSE)
  BY <1>1, <1>2, <1>3, <1>6, PTL DEF LastsForEver, Fairness
<1>8. LastsForEver(s) => [](Confirms(s) => FALSE)
  BY <1>1, <1>2, <1>3, <1>7, PTL DEF LastsForEver, Fairness
<1> QED BY <1>4, <1>6, <1>7, <1>8, PTL

\* From every place in a pass main comes back to its list of pins, or to the end.
LEMMA PassGoesOn ==
  ASSUME NEW s \in Sensors
  PROVE  LastsForEver(s) => []<>(AtPoll \/ AtPick)
<1>1. IInv /\ Lasts(s) /\ Lasts(s)' /\ [Next]_vars =>
        /\ AtPoll \/ AtPick \/ AtConfirm \/ AtNc \/ AtNo
        /\ AtConfirm => AtConfirm' \/ AtNc' \/ AtPick' \/ AtPoll'
        /\ AtNc => AtNc' \/ AtNo'
        /\ AtNo => AtNo' \/ AtPick' \/ AtPoll'
  BY PassMoves
<1>2. IInv /\ Lasts(s) /\ Lasts(s)' /\ <<Main>>_vars =>
        /\ AtConfirm => ~AtConfirm'
        /\ AtNc => ~AtNc'
        /\ AtNo => ~AtNo'
  BY MainPasses
<1>3. SensorsCanMove => (AtConfirm \/ AtNc \/ AtNo => ENABLED <<Main>>_vars)
  BY DEF SensorsCanMove, AtConfirm, AtNc, AtNo
<1>4. LastsForEver(s) => [](AtNo => <>(AtPoll \/ AtPick))
  BY <1>1, <1>2, <1>3, PTL DEF LastsForEver, Fairness
<1>5. LastsForEver(s) => [](AtNc => <>AtNo)
  BY <1>1, <1>2, <1>3, PTL DEF LastsForEver, Fairness
<1> QED BY <1>1, <1>2, <1>3, <1>4, <1>5, PTL DEF LastsForEver, Fairness

\* From this place in the array main comes to that one, or to the end.
Reaches(r, t) == [](Past(r) => <>(AtPoll \/ Past(t)))

\* The pins are done in the order of the array: main comes to the next place.
LEMMA NextPin ==
  ASSUME NEW s \in Sensors, NEW r \in Nat, NEW t \in Nat, t = r + 1
  PROVE  LastsForEver(s) => Reaches(r, t)
<1>1. IInv /\ Lasts(s) /\ Lasts(s)' /\ [Next]_vars =>
        /\ AtPick /\ Past(r) => AtPick' \/ AtPoll' \/ Past(t)'
        /\ ~AtPoll /\ Past(r) => AtPoll' \/ Past(r)'
  BY PassMoves, MainPasses
<1>2. IInv /\ Lasts(s) /\ Lasts(s)' /\ <<Main>>_vars =>
        (AtPick /\ Past(r) => AtPoll' \/ Past(t)')
  BY MainPasses
<1>3. SensorsCanMove => (AtPick => ENABLED <<Main>>_vars)
  BY DEF SensorsCanMove, AtPick
<1> QED BY <1>1, <1>2, <1>3, PassGoesOn, PTL DEF Reaches, LastsForEver, Fairness

\* The array has six places: main comes to its poll again and again.
LEMMA MainPolls ==
  ASSUME NEW s \in Sensors
  PROVE  LastsForEver(s) => []<>AtPoll
<1>0. IInv => Past(0)
  BY DEF IInv, TypeOK, Past, Rank, Watched, SensorOf
<1>1. LastsForEver(s) => Reaches(0, 1)
  BY NextPin
<1>2. LastsForEver(s) => Reaches(1, 2)
  BY NextPin
<1>3. LastsForEver(s) => Reaches(2, 3)
  BY NextPin
<1>4. LastsForEver(s) => Reaches(3, 4)
  BY NextPin
<1>5. LastsForEver(s) => Reaches(4, 5)
  BY NextPin
<1>6. LastsForEver(s) => Reaches(5, 6)
  BY NextPin
<1>7. IInv => ~(AtPick /\ Past(6))
  BY DEF IInv, TypeOK, Stage, AtPick, Past, Rank, Watched, SensorOf
<1>8. IInv /\ Lasts(s) /\ Lasts(s)' /\ [Next]_vars => (~AtPoll /\ Past(6) => AtPoll' \/ Past(6)')
  BY PassMoves
<1>9. LastsForEver(s) => [](Past(6) => <>AtPoll)
  BY <1>7, <1>8, PassGoesOn, PTL DEF LastsForEver
<1> QED
  BY <1>0, <1>1, <1>2, <1>3, <1>4, <1>5, <1>6, <1>9, PTL DEF Reaches, LastsForEver

\* The pin whose edge waits comes on main's list with its window over, and nothing
\* takes it off again: main never comes back to its poll.
LEMMA NothingLasts ==
  ASSUME NEW s \in Sensors
  PROVE  ~LastsForEver(s)
<1>1. ASSUME NEW p \in Pins(s) PROVE ~(LastsForEver(s) /\ Waits(p))
  <2>1. IInv /\ Lasts(s) /\ Lasts(s)' /\ ~InHand(s) /\ ~InHand(s)' /\ [Next]_vars =>
          /\ Waits(p) => Waits(p)'
          /\ Settled(p) => Settled(p)'
          /\ Settled(p) /\ HeldUp(p) => HeldUp(p)'
    BY EdgeMoves
  <2>2. TimeFairness => WindowFairness(p)
    BY DEF TimeFairness, Pins
  <2>3. <<WindowEnds(p)>>_vars => Settled(p)'
    BY DEF WindowEnds, Settled
  <2>4. SensorsCanMove => /\ ~Settled(p) => ENABLED <<WindowEnds(p)>>_vars
                          /\ AtPoll /\ Waits(p) => ENABLED <<Poll>>_vars
    BY DEF SensorsCanMove, Settled, AtPoll, Waits
  <2>5. Waits(p) /\ <<Poll>>_vars => HeldUp(p)'
    BY DEF Poll, Waits, HeldUp
  <2>6. HeldUp(p) => ~AtPoll
    BY DEF HeldUp, AtPoll
  <2>7. LastsForEver(s) /\ Waits(p) => []Waits(p)
    BY <2>1, NeverInHand, PTL DEF LastsForEver
  <2>8. LastsForEver(s) => <>[]Settled(p)
    BY <2>1, <2>2, <2>3, <2>4, NeverInHand, PTL DEF LastsForEver, Fairness, WindowFairness
  <2>9. LastsForEver(s) /\ Waits(p) => []<>HeldUp(p)
    BY <2>4, <2>5, <2>7, MainPolls, PTL DEF LastsForEver, Fairness
  <2>10. LastsForEver(s) /\ Waits(p) => <>[]HeldUp(p)
    BY <2>1, <2>8, <2>9, NeverInHand, PTL DEF LastsForEver
  <2> QED BY <2>6, <2>10, MainPolls, PTL
<1>2. IInv /\ Lasts(s) /\ ~InHand(s) => \E p \in Pins(s) : Waits(p)
  BY EdgeWaits
<1>3. LastsForEver(s) => \E p \in Pins(s) : Waits(p)
  BY <1>2, NeverInHand, PTL DEF LastsForEver
<1> HIDE DEF LastsForEver
<1> QED BY <1>1, <1>3

\* Fairness towards every window does not wear off.
LEMMA ForAllWindows ==
  ASSUME ASSUME NEW p \in Watched PROVE []WindowFairness(p)
  PROVE  []TimeFairness
<1>1. ASSUME NEW p \in Watched PROVE WindowFairness(p)
  <2>1. []WindowFairness(p)
    OBVIOUS
  <2> QED BY <2>1, PTL
<1>2. TimeFairness
  BY <1>1 DEF TimeFairness
<1> QED BY <1>2, PTL

LEMMA TimeGoesOn == TimeFairness => []TimeFairness
<1> SUFFICES ASSUME TimeFairness PROVE []TimeFairness
  OBVIOUS
<1>1. ASSUME NEW p \in Watched PROVE []WindowFairness(p)
  <2>1. WindowFairness(p)
    BY DEF TimeFairness
  <2> QED BY <2>1, PTL DEF WindowFairness
<1> QED BY <1>1, ForAllWindows

(* For every configuration: if nobody waits for anybody (SensorsCanMove, checked by
   TLC), a danger that lasts raises its alarm and an open shutter of a shop that
   passed the preflight ends its being armed (runtime_loop.c 2763-2835, 3004-3036),
   through any number of edges of the other sensors, preflights and short windows. *)
THEOREM LastingDangerIsAlarmed == Spec /\ []SensorsCanMove => DangerIsAlarmed
<1> DEFINE Running == []IInv /\ []SensorsCanMove /\ [][Next]_vars /\ Fairness
<1>1. Spec /\ []SensorsCanMove => Running
  BY InvHolds, PTL DEF Spec
<1>2. Running => []Running
  BY TimeGoesOn, PTL DEF Fairness
<1>3. ASSUME NEW s \in Sensors PROVE ~(Running /\ []Lasts(s))
  BY NothingLasts DEF LastsForEver
<1> HIDE DEF Running
<1>4. ASSUME NEW s \in Sensors PROVE Running => DangerEnds(s)
  <2>1. Unanswered(s) => Lasts(s)
    BY DEF Lasts
  <2>2. ~(Running /\ []Lasts(s))
    BY <1>3
  <2> QED BY <1>2, <2>1, <2>2, PTL DEF DangerEnds
<1>5. ASSUME NEW s \in Shutters PROVE Running => OpenEnds(s)
  <2>1. StandsOpen(s) => Lasts(s)
    BY DEF Lasts
  <2>2. ~(Running /\ []Lasts(s))
    BY <1>3, WiringFacts
  <2> QED BY <1>2, <2>1, <2>2, PTL DEF OpenEnds
<1>6. Running => DangerIsAlarmed
  BY <1>4, <1>5 DEF DangerIsAlarmed
<1> QED BY <1>1, <1>6, PTL
=============================================================================
