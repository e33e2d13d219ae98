------------------------------ MODULE SensorInput ------------------------------
(***************************************************************************)
(* The wired sensors: sensor_input.c and the GPIO part of the main loop in *)
(* runtime_loop.c.  A shutter has two contacts, NC and NO, the panic       *)
(* button and the smoke detector one pin each.                             *)
(*                                                                         *)
(* The kernel keeps one flag per open value file: an edge sets it, a read  *)
(* of that file clears it, poll returns the files whose flag is set.  A    *)
(* read through another file of the same pin (preflight, verdict) leaves   *)
(* the flag alone.  MAIN sleeps 200 ms between the first and the second    *)
(* reading of a pin, and contacts move at any moment, in the sleep and     *)
(* between two reads as well.                                              *)
(*                                                                         *)
(* Of time one thing matters: whether the last event of a watch is less    *)
(* than AMTECH_DEBOUNCE_CONFIRM_MS ago (recent).  What the alarm does with *)
(* a trigger is in AlarmRuntime; here it is the disarm at its end.         *)
(***************************************************************************)
EXTENDS Naturals

CONSTANTS
  SHUTTER_COUNT,     \* config->shutter_count
  PANIC_ENABLED,     \* config->panic_enabled
  SMOKE_ENABLED      \* config->smoke_enabled

ASSUME ConfigAssumption ==
  /\ SHUTTER_COUNT \in 1 .. 2
  /\ PANIC_ENABLED \in BOOLEAN
  /\ SMOKE_ENABLED \in BOOLEAN

Shutters == IF SHUTTER_COUNT = 1 THEN {"SHUTTER1"} ELSE {"SHUTTER1", "SHUTTER2"}

Sensors == Shutters \cup (IF PANIC_ENABLED THEN {"PANIC"} ELSE {})
                    \cup (IF SMOKE_ENABLED THEN {"SMOKE"} ELSE {})

Nc == [SHUTTER1 |-> "SHUTTER1_NC", SHUTTER2 |-> "SHUTTER2_NC"]
No == [SHUTTER1 |-> "SHUTTER1_NO", SHUTTER2 |-> "SHUTTER2_NO"]

SensorOf == [SHUTTER1_NC |-> "SHUTTER1", SHUTTER1_NO |-> "SHUTTER1",
             SHUTTER2_NC |-> "SHUTTER2", SHUTTER2_NO |-> "SHUTTER2",
             PANIC |-> "PANIC", SMOKE |-> "SMOKE"]

\* build_gpio_watches: the pins of the configured sensors
Watched == {p \in DOMAIN SensorOf : SensorOf[p] \in Sensors}

\* the place of a watch in the array that build_gpio_watches fills
Rank == [SHUTTER1_NC |-> 1, SHUTTER1_NO |-> 2, SHUTTER2_NC |-> 3,
         SHUTTER2_NO |-> 4, PANIC |-> 5, SMOKE |-> 6]

\* p is the one of these pins that a loop over the array reaches next
ComesNext(p, pins) == p \in pins /\ \A q \in pins : Rank[p] <= Rank[q]

VARIABLES
  level,      \* what each pin would read now
  pending,    \* pins whose value file has an edge that was not read
  opened,     \* pins with an open value file
  pc,         \* where main stands
  todo,       \* pins the loop that main is in has still to visit
  pin,        \* the watch in handle_sensor_event
  raw,        \* raw_value there
  nc_raw,     \* the NC reading of the verdict
  recent,     \* watches whose last_event_ms is less than 200 ms ago
  armed,      \* alarm_logic_is_armed()
  \* History, read by the properties only:
  checked,    \* the shop passed the preflight since it was last disarmed
  lost,       \* sensors whose last edge was read away and not judged
  answered    \* sensors that have raised an alarm since they became a danger

hw      == <<level, pending>>
handler == <<pin, raw, nc_raw>>
arming  == <<armed, checked>>
vars    == <<hw, opened, pc, todo, handler, recent, arming, lost, answered>>

Levels   == {"low", "high"}
Readings == Levels \cup {"fail"}

TypeOK ==
  /\ level \in [Watched -> Levels]
  /\ pending \subseteq opened
  /\ opened \subseteq Watched
  /\ pc \in {"down", "preflight", "setup", "pass", "handle", "confirm",
             "verdict_nc", "verdict_no"}
  /\ todo \subseteq Watched
  /\ pin \in Watched \cup {"none"}
  /\ raw \in Levels
  /\ nc_raw \in Readings
  /\ recent \subseteq Watched
  /\ armed \in BOOLEAN
  /\ checked \in BOOLEAN
  /\ lost \subseteq Sensors
  /\ answered \subseteq Sensors
-----------------------------------------------------------------------------
(* Contacts. *)

\* A slip: the shutters wake main on a falling edge only.
FallingOnly(p, next) == IF p = "PANIC" THEN next = "high" ELSE next = "low"

\* gpio_set_edge: "rising" for the panic button, "both" for all others
WakesMain(p, next) == p = "PANIC" => next = "high"

\* What raises an alarm in either arm state: a wire cut, the button, smoke.
IsDanger(sensor, levels) ==
  CASE sensor = "PANIC" -> levels["PANIC"] = "high"
    [] sensor = "SMOKE" -> levels["SMOKE"] = "low"
    [] OTHER            -> levels[Nc[sensor]] = "high" /\ levels[No[sensor]] = "high"

\* A button, a detector or a contact moves.
Change(p) ==
  LET next == IF level[p] = "low" THEN "high" ELSE "low" IN
  /\ level' = [level EXCEPT ![p] = next]
  /\ pending' = IF p \in opened /\ WakesMain(p, next) THEN pending \cup {p} ELSE pending
  /\ lost' = lost \ {SensorOf[p]}
  /\ answered' = {sensor \in answered : IsDanger(sensor, level')}
  /\ UNCHANGED <<opened, pc, todo, handler, recent, arming>>

\* 200 ms have passed since the last event of a watch.
WindowEnds(p) ==
  /\ recent' = recent \ {p}
  /\ UNCHANGED <<hw, opened, pc, todo, handler, arming, lost, answered>>
-----------------------------------------------------------------------------
(* Reading. *)

\* The button read as released at the first reading: a press since then, whose
\* edge the second reading takes, is not confirmed by it.
Overlooked ==
  IF pc = "confirm" /\ pin = "PANIC" /\ raw = "low" THEN {"PANIC"} ELSE {}

\* The value file of a watch is read: the reading and the flags it leaves.  A
\* seek that fails leaves the flag, a read that fails clears it, and with
\* either the event ends without a verdict.
ReadWatch(p, reading) ==
  \/ /\ reading = level[p]
     /\ pending' = pending \ {p}
     /\ lost' = lost \cup Overlooked
  \/ /\ reading = "fail"
     /\ pending' \in {pending, pending \ {p}}
     /\ lost' = lost \cup {SensorOf[p]}

\* sensor_input_read_raw: opens the value file anew
ReadInput(p, reading) == reading \in {level[p], "fail"}

\* A slip: a short circuit and a cut wire are mixed up.
SwappedFault(nc, no) ==
  IF nc = "fail" \/ no = "fail" THEN "fault"
  ELSE IF nc = "low" THEN (IF no = "high" THEN "closed" ELSE "tamper")
  ELSE IF no = "low" THEN "open" ELSE "fault"

\* shutter_read_dual_state, runtime_confirmed_shutter_state_from_raw_sequence
ShutterState(nc, no) ==
  IF nc = "fail" \/ no = "fail" THEN "fault"
  ELSE IF nc = "low" THEN (IF no = "high" THEN "closed" ELSE "fault")
  ELSE IF no = "low" THEN "open" ELSE "tamper"

\* alarm_logic_handle_*: a trigger ends with the disarm of the shop
Trigger(sensor) ==
  /\ armed' = FALSE
  /\ checked' = FALSE
  /\ answered' = IF IsDanger(sensor, level) THEN answered \cup {sensor} ELSE answered

NoTrigger == UNCHANGED <<arming, answered>>

\* A slip: the loop over the watches has no end of its own.
ReturnForMore ==
  /\ pc' = "handle"
  /\ pin' = "none"
  /\ raw' = "low"
  /\ nc_raw' = "low"

\* handle_sensor_event returns to the loop over the watches.
ReturnFromEvent ==
  /\ pc' = IF todo = {} THEN "pass" ELSE "handle"
  /\ pin' = "none"
  /\ raw' = "low"
  /\ nc_raw' = "low"
-----------------------------------------------------------------------------
(* Start. *)

\* main: the restored state may be armed, and then has to pass the preflight;
\* run_interrupt_loop sets up the watches after that.
Boot ==
  /\ pc = "down"
  /\ pc' \in {"preflight", "setup"}
  /\ todo' = Watched
  /\ UNCHANGED <<hw, opened, handler, recent, arming, lost, answered>>

\* setup_gpio_watch: the first read of the value file clears its flag, whatever
\* the pin reads.
SetupWatch(p) ==
  /\ pc = "setup"
  /\ ComesNext(p, todo)
  /\ opened' = opened \cup {p}
  /\ todo' = todo \ {p}
  /\ pc' = IF todo' = {} THEN "pass" ELSE "setup"
  /\ pending' = pending \ {p}
  /\ lost' = lost \cup {SensorOf[p]}
  /\ UNCHANGED <<level, handler, recent, arming, answered>>

\* The process ends: power cut, watchdog, or a watch that cannot be set up.
Crash ==
  /\ pc # "down"
  /\ pc' = "down"
  /\ pending' = {}
  /\ opened' = {}
  /\ todo' = {}
  /\ pin' = "none"
  /\ raw' = "low"
  /\ nc_raw' = "low"
  /\ recent' = {}
  /\ armed' = FALSE
  /\ checked' = FALSE
  /\ lost' = {}
  /\ answered' = {}
  /\ UNCHANGED level
-----------------------------------------------------------------------------
(* Arming, between two polls. *)

\* runtime_arm_preflight_check: SMS ARM, schedule and automatic re-arm
StartPreflight ==
  /\ pc = "pass"
  /\ pc' = "preflight"
  /\ todo' = Watched
  /\ UNCHANGED <<hw, opened, handler, recent, arming, lost, answered>>

\* A slip: any reading of a contact that is not a failure will do.
AnyReading(p, reading) == reading # "fail"

\* the reading of a closed shutter, an idle button, a quiet detector
IsNormal(p, reading) ==
  reading = IF p \in {"SHUTTER1_NC", "SHUTTER2_NC", "PANIC"} THEN "low" ELSE "high"

AfterPreflight == IF opened = {} THEN "setup" ELSE "pass"

\* One pin of the preflight.  It reads on after a failure, to no other effect
\* than the text of its answer.
PreflightReads(p) ==
  /\ pc = "preflight"
  /\ ComesNext(p, todo)
  /\ \E reading \in Readings :
       /\ ReadInput(p, reading)
       /\ IF IsNormal(p, reading) /\ todo # {p}
            THEN /\ todo' = todo \ {p}
                 /\ UNCHANGED <<pc, arming>>
            ELSE /\ pc' = AfterPreflight
                 /\ todo' = IF opened = {} THEN Watched ELSE {}
                 /\ armed' = (armed \/ IsNormal(p, reading))
                 /\ checked' = (checked \/ IsNormal(p, reading))
  /\ UNCHANGED <<hw, opened, handler, recent, lost, answered>>

\* ARM by the app and ARM FORCE arm without a preflight.
ForceArm ==
  /\ pc = "pass"
  /\ armed' = TRUE
  /\ UNCHANGED <<hw, opened, pc, todo, handler, recent, checked, lost, answered>>

\* The owner, the schedule or an alarm of a camera disarms.
Disarm ==
  /\ pc = "pass"
  /\ armed' = FALSE
  /\ checked' = FALSE
  /\ UNCHANGED <<hw, opened, pc, todo, handler, recent, lost, answered>>
-----------------------------------------------------------------------------
(* Sensor events. *)

\* poll: the watches with a flag, handled one after the other in array order
Poll ==
  /\ pc = "pass"
  /\ pending # {}
  /\ todo' = pending
  /\ pc' = "handle"
  /\ UNCHANGED <<hw, opened, handler, recent, arming, lost, answered>>

\* A slip: an ignored bounce is read away.
BounceIsRead(p) ==
  /\ pc = "handle"
  /\ ComesNext(p, todo)
  /\ p \in recent
  /\ todo' = todo \ {p}
  /\ pc' = IF todo' = {} THEN "pass" ELSE "handle"
  /\ pending' = pending \ {p}
  /\ UNCHANGED <<level, opened, handler, recent, arming, lost, answered>>

\* handle_sensor_event within 200 ms of the last one: ignored and not read, so
\* that the next poll returns it again.
IgnoreBounce(p) ==
  /\ pc = "handle"
  /\ ComesNext(p, todo)
  /\ p \in recent
  /\ todo' = todo \ {p}
  /\ pc' = IF todo' = {} THEN "pass" ELSE "handle"
  /\ UNCHANGED <<hw, opened, handler, recent, arming, lost, answered>>

\* a read that failed, smoke that has gone
EndsUnconfirmed(p, reading) == reading = "fail" \/ (p = "SMOKE" /\ reading = "high")

\* handle_sensor_event up to the sleep of confirm_watch_raw_value
HandleEvent(p) ==
  /\ pc = "handle"
  /\ ComesNext(p, todo)
  /\ p \notin recent
  /\ todo' = todo \ {p}
  /\ recent' = recent \cup {p}
  /\ \E reading \in Readings :
       /\ ReadWatch(p, reading)
       /\ IF EndsUnconfirmed(p, reading)
            THEN /\ pc' = IF todo' = {} THEN "pass" ELSE "handle"
                 /\ UNCHANGED handler
            ELSE /\ pc' = "confirm"
                 /\ pin' = p
                 /\ raw' = reading
                 /\ UNCHANGED nc_raw
  /\ UNCHANGED <<level, opened, arming, answered>>

\* runtime_active_high_confirmed_from_raw_sequence, runtime_active_low_...
Confirmed(p, first, second) ==
  p \in {"PANIC", "SMOKE"} /\ ~IsNormal(p, first) /\ ~IsNormal(p, second)

\* The second reading, 200 ms later; all windows have ended in the sleep.
ConfirmReading ==
  /\ pc = "confirm"
  /\ recent' = {}
  /\ \E reading \in Readings :
       /\ ReadWatch(pin, reading)
       /\ IF reading # "fail" /\ pin \notin {"PANIC", "SMOKE"}
            THEN /\ pc' = "verdict_nc"
                 /\ NoTrigger
                 /\ UNCHANGED handler
            ELSE /\ IF reading # "fail" /\ Confirmed(pin, raw, reading)
                      THEN Trigger(pin)
                      ELSE NoTrigger
                 /\ ReturnFromEvent
  /\ UNCHANGED <<level, opened, todo>>

\* shutter_read_dual_state reads NC ...
VerdictReadsNc ==
  /\ pc = "verdict_nc"
  /\ pc' = "verdict_no"
  /\ \E reading \in Readings :
       /\ ReadInput(Nc[SensorOf[pin]], reading)
       /\ nc_raw' = reading
  /\ UNCHANGED <<hw, opened, todo, pin, raw, recent, arming, lost, answered>>

\* ... then NO, and alarm_logic_handle_shutter_dual_named acts: open only
\* counts when armed, a fault never.
VerdictReadsNo ==
  LET shutter == SensorOf[pin] IN
  /\ pc = "verdict_no"
  /\ \E reading \in Readings :
       LET state == ShutterState(nc_raw, reading) IN
       /\ ReadInput(No[shutter], reading)
       /\ IF state = "tamper" \/ (state = "open" /\ armed)
            THEN Trigger(shutter)
            ELSE NoTrigger
       /\ lost' = IF "fail" \in {nc_raw, reading} THEN lost \cup {shutter} ELSE lost \ {shutter}
  /\ ReturnFromEvent
  /\ UNCHANGED <<hw, opened, todo, recent>>
-----------------------------------------------------------------------------
Init ==
  /\ level \in [Watched -> Levels]
  /\ pending = {}
  /\ opened = {}
  /\ pc = "down"
  /\ todo = {}
  /\ pin = "none"
  /\ raw = "low"
  /\ nc_raw = "low"
  /\ recent = {}
  /\ armed = FALSE
  /\ checked = FALSE
  /\ lost = {}
  /\ answered = {}

Event ==
  \/ \E p \in Watched : IgnoreBounce(p) \/ HandleEvent(p)
  \/ ConfirmReading \/ VerdictReadsNc \/ VerdictReadsNo

Next ==
  \/ Event \/ Poll
  \/ \E p \in Watched :
       Change(p) \/ WindowEnds(p) \/ SetupWatch(p) \/ PreflightReads(p)
  \/ Boot \/ Crash \/ StartPreflight \/ ForceArm \/ Disarm

\* What main does once it has begun a preflight, the set-up or a pass over the flags.
Main == Event \/ \E p \in Watched : SetupWatch(p) \/ PreflightReads(p)

\* Main runs, and comes to its poll whatever it does before it (each of the
\* parts of a pass arms or disarms once at most).  Time passes.
WindowFairness(p) == WF_vars(WindowEnds(p))
TimeFairness == \A p \in Watched : WindowFairness(p)

Fairness == WF_vars(Main) /\ SF_vars(Poll) /\ TimeFairness

Spec == Init /\ [][Next]_vars /\ Fairness
-----------------------------------------------------------------------------
(* What the wired sensors promise. *)

\* an edge of this sensor is waiting, or was read away by a failed read or by
\* the first read of its file
Excused(sensor) ==
  sensor \in lost \/ \E p \in pending : SensorOf[p] = sensor

\* No way into an armed shop is overlooked (runtime_loop.c 501-577, 2763-2835):
\* when the shop has passed the preflight and main is between two events, a
\* shutter that does not read closed at its NC contact has an edge waiting,
\* however the opening met the preflight, a confirmation in progress, the
\* verdict's two reads or an event of another contact.
OpenShutterIsNoticed ==
  pc = "pass" /\ armed /\ checked =>
    \A s \in Shutters : level[Nc[s]] = "high" => Excused(s)

\* A cut wire, smoke and a button held down have raised their alarm, or have an
\* edge waiting that will (runtime_loop.c 2763-2835): neither the 200 ms window,
\* in which events are ignored, nor the confirmation, which reads edges away,
\* swallows the edge that began it.  One case is excused by name: the button
\* pressed for good while main confirms a press too short to read (Overlooked).
LastingDangerIsNoticed ==
  pc = "pass" /\ opened = Watched =>
    \A sensor \in Sensors :
      IsDanger(sensor, level) => sensor \in answered \/ Excused(sensor)

\* Main has a step to take wherever it stands, an edge that waits makes it poll, and
\* every window of 200 ms can end.
SensorsCanMove ==
  /\ pc \notin {"down", "pass"} => ENABLED <<Main>>_vars
  /\ pc = "pass" /\ pending # {} => ENABLED <<Poll>>_vars
  /\ \A p \in recent : ENABLED <<WindowEnds(p)>>_vars

Unanswered(sensor) ==
  opened = Watched /\ IsDanger(sensor, level) /\ sensor \notin lost \cup answered

StandsOpen(s) ==
  opened = Watched /\ armed /\ checked /\ level[Nc[s]] = "high" /\ s \notin lost

DangerEnds(sensor) == Unanswered(sensor) ~> ~Unanswered(sensor)
OpenEnds(s)        == StandsOpen(s) ~> ~StandsOpen(s)

\* What lasts is alarmed (runtime_loop.c 3004-3036), whatever other sensors do
\* meanwhile: a danger raises its alarm, and an open shutter of a shop that passed
\* the preflight ends its being armed.
DangerIsAlarmed ==
  /\ \A sensor \in Sensors : DangerEnds(sensor)
  /\ \A s \in Shutters : OpenEnds(s)
=============================================================================
