# Verification of the AMTECH NETTRA hub

TLA+ models of the shop alarm hub in `src/` (C runtime on the device, Flask
backend), the TLC runs that check them on small instances, and proofs that hold
for every value of the constants.

## 1. The system

One process, `runtime_loop`, is kept alive by an init script and, if
configured, by the hardware watchdog. Its threads:

| Thread | Code | Does |
|---|---|---|
| main | `run_interrupt_loop`, runtime_loop.c | heartbeat, clocks, re-arm, schedule, SMS commands, app commands, config sync, camera results, wired sensors - one after the other, for ever |
| siren timer | `siren_timer_thread_main`, alarm_logic.c | switches the siren off 5 s after the last trigger, then calls back |
| dispatch worker | `alert_dispatch_worker_main`, alert_dispatch.c | turns one alarm request at a time into calls and SMS |
| SMS fan-out | `sms_fanout_worker_main`, alert_dispatch.c | one thread per dispatch: an SMS to every contact |
| watchdog | `watchdog_thread_main`, watchdog_manager.c | feeds the hardware while the heartbeat is fresh |
| command poll | `device_command_thread_main`, runtime_loop.c | asks the backend for the pending app command |
| cameras | `camera_thread_main`, runtime_loop.c | one per camera: snapshot, detector, result queue |

### Components: state, operations, what makes them correct

**Arming core** (alarm_logic.c; arm control in runtime_loop.c; schedule.c).
State: armed, incident, siren, camera grace; arm control SCHEDULE or MANUAL, last
scheduled state, pending re-arm and siren event, the arm state the runtime saw
last, static calibration, pending completion SMS, the arm-state file and its
cache. Operations: trigger, reset, the ticks, owner commands by SMS and app,
schedule pass, automatic re-arm, restore. Hard: the timer thread against main;
trigger_alarm starts the siren before the runtime notes the pending re-arm; three
parties (owner, schedule, re-arm) arm and disarm; process deaths, and power cuts that may
take an unflushed file with them. Correct when: a
disarm by the owner holds; a temporary disarm ends; the file tells a reboot the
truth; what the owner is told is so.

**Alert dispatch** (alert_dispatch.c, cooldown in alarm_logic.c). State: worker
mailbox, reset generation, escalation (contact, attempt, clocks, voicemail
suspicion), fan-out threads. Operations: request, worker, tick, reset. Hard: check
and use of the generation under different locks, a second dispatch in a running
escalation, an answer against the timeout, a modem that does not settle.
Correct when: contacts are called in order, each twice, until a human answers;
nobody's call is left alone; STOP ends it.

**Watchdog** (watchdog_manager.c, `scripts/S95runtime_loop`). State: heartbeat age,
feed interval, device. Correct when: a stuck loop is reset in bounded time, and a
loop that beats is not.

**Modem HAL** (modem_hal.c, modem_state.c, sim_modem.c). State under one mutex:
the call and its clocks, failure counter, deferred reset and its cooldown, SMS
fault flag, inbox. Hard: retries under the mutex, a reset deferred by a call,
failures counted by several threads, messages marked as read by listing them.
Correct when: a reset never hits a call and is not forgotten; a message is not lost.

**Camera pipeline** (camera threads and queue in runtime_loop.c, frame logic in
alarm_logic.c, camera_detection.c). State: result queue of 8, frames per source,
calibration clock and learned static zones per camera. Hard: results older than an
arm or disarm, the queue's limit, learning while an intruder is in view, ticks that
take a whole pass for time since the arming. Correct when: two handled frames in a row of one
source are needed and enough; what was learned in one arming does not leak into the
next; a new arming gives people time to leave.

**Remote commands** (device_command_sync.c, poll thread and mailbox in
runtime_loop.c, pending_command in backend/app.py) and **configuration sync**
(config_sync.c). Hard: lost or late acknowledgements, commands applied again, an
overwritten mailbox, several messages in one listing, a file rewritten while the
dispatch worker reads it, and never flushed. Correct when: the newest command is applied and
acknowledged, no message is processed twice, and an alarm calls the people the owner
named.

**Sensor input** (sensor_input.c; watches, preflight and sensor events in
runtime_loop.c). State: per pin the value file and its last event, the pin and the
first reading in hand; in the kernel one edge flag per open file. Operations: set-up,
preflight, poll, sensor event with its second reading after 200 ms, verdict on the two
contacts of a shutter. Hard: contacts move between two reads that belong together, a
confirming read takes an edge away, events within 200 ms are ignored, the preflight looks
through files of its own. Correct when: no opening of an armed shop and no lasting
danger is overlooked, and each is alarmed in the end.

**Backend accounts and media, factory test**: I/O and data.

Interaction: every alarm goes through `trigger_alarm`, which lights siren and
strobe, asks for a dispatch and disarms; `alarm_logic_tick` drives dispatch and
modem from main; `alarm_logic_reset` (STOP) cancels dispatch and hangs up; the
siren's end reaches main through two flags under `runtime_auto_rearm_mutex`.

## 2. Modules

| Module | Models | State and actions in the code |
|---|---|---|
| `ArmingCore` | abstract: what arming means, to whoever arms | arm state, what the runtime saw of it last, incident, and the two clocks of an arming |
| `AlarmRuntime` | arming core | variables are the C variables of the same name; `pc` is the place in the loop body, `trigger` is main between the first and the second half of an alarm; one action per phase and outcome |
| `CallSequence` | abstract: who is called, in which order, how often | |
| `AlertDispatch` | worker, escalation, fan-out, voice call | one action per critical section of `escalation_mutex` and `dispatch_worker_mutex`; `main` is "request", "tick", "reset" between two critical sections of one function |
| `CommandRegister` | abstract: the owner's commands, known to the hub in their order, the newest known applied, shown as pending until the newest was | |
| `Watchdog` | heartbeat, manager, hardware, the modem mutex | discrete time of 5 s units; `ManagerTick` is `watchdog_tick_locked` |
| `ModemHal` | voice call, SMS outcome, failure counter, cooldown, deferred reset, reset line | every HAL function runs under `modem_hal_mutex`, so one call of it is one action, whoever makes it; the hard reset is two, between which the process may die with the line high. `line` is the call as the network has it, kept apart from what the HAL believes |
| `RemoteCommands` | backend row, poll thread, mailbox, acknowledgement; SIM store | `pending_command_id` is the row, `fetched` an answer on its way, `mailbox` `context.command`, `acks` acknowledgements that may still arrive; `store` and `unread` are the SIM's messages and their "REC UNREAD" |
| `ConfigSync` | settings from the backend to configuration, file and dispatch worker | `sync` is the place in `amtech_config_sync_poll`; `Parsed` the answer of the backend; `Load` is `amtech_config_load`; `durable` is what the disk is sure to have of the file, `token` whether `DEVICE_CONFIG_TOKEN` is still in it |
| `CameraPipeline` | camera threads, queue, calibration, static zones, grace, frame counts | `pc` is main's place in its pass; one action per outcome of `runtime_process_camera_detection_result_with_config` |
| `SensorInput` | the pins, their edge flags, preflight, poll, sensor events | `pc` is main's place, `pin`, `raw`, `nc_raw` the locals of `handle_sensor_event` and the verdict; `pending` the kernel's flags; one action per read of a value file, since pins move between any two |
| `MCConfigSync`, `MCCameraPipeline` | instances for TLC | |
| `AlarmRuntimeProofs`, `AlertDispatchProofs`, `WatchdogProofs`, `ModemHalProofs`, `RemoteCommandsProofs`, `ConfigSyncProofs`, `CameraPipelineProofs`, `SensorInputProofs` | theorems | |

How they fit: `AlarmRuntime` is the subject, the others are what happens on either side of
it. A command that `RemoteCommands` applies is an owner command of `AlarmRuntime`; an
alarm of `CameraPipeline` is its camera alarm, a trigger of `SensorInput` its panic, smoke,
tamper or shutter alarm; a request its alarms make is `RequestWorker` in
`AlertDispatch`, whose calls are calls into `ModemHal`; a new schedule of `ConfigSync` is
its `ClockBoundary`. They are separate modules because next to nothing is fed
back: dispatch, modem and cameras read the arm state or end in one trigger. The one
resource all share, the modem mutex, is in `Watchdog`, where its holding time matters.
`AlarmRuntime` and `CameraPipeline` both hold an arm state, each at its own detail: both implement
`ArmingCore`, so the camera pipeline is not checked against an arming the runtime does not have.

History variables (`stale`, `hold`, `temp_disarmed`; `dials`, `requests`,
`escalation_generation`, `late`, `seen`; `silent_for`, `longest_silence`, `feed_failed`;
`unnoticed`, `excuse`, `since_reset`, `restarted`, `gpio_failed`; `last_app`, `newest`, `handled`,
`repeated`, `ack_fault`, `batched`; `given`; `confirmed`, `fresh`, `wait`; `checked`, `lost`,
`answered`) are read by no guard of a code action, only by properties.

The operators commented "A slip" are plausible bugs, never used by a
specification: with one of them in place of the operator after it, the run
finds the property violated that the slip breaks. They show what each property
can see.

### What the models abstract

*AlarmRuntime.* Time: a loop pass takes any number of units up to `MAX_ELAPSED`;
the siren's deadline is an action enabled while it rings. The one assumption about
speed is that the five seconds do not pass between the start of the siren and
the end of the same `trigger_alarm`. The request it makes there is asynchronous, but
takes `escalation_mutex`, which the dispatch worker holds while it dials; for the first
alarm of an incident that worker can only be one that has outrun a STOP (section 6,
no. 2). In that one case the wake-up could be lost. Preflight verdicts, camera confirmations and write failures are
nondeterministic. The state file is written to a temporary file and renamed, but never flushed: a
death of the process (`Crash`) leaves the file as it is, a power cut or a reset by the watchdog
(`PowerCut`) may leave it as it is, as the disk last had it (`durable`, which the kernel brings up to
date in its own time, `Writeback`), or with nothing in it. Whatever the file holds, it may be unreadable at a
boot. The message text is left out, its recipients are "none",
"sender" or "contacts". STOP by SMS is the only reset. The dispatch is a module of
its own because it feeds nothing back into the arm state.

*AlertDispatch.* FAILED is taken with ENDED and RINGING with DIALING, between which
the escalation does not distinguish. The modem may do anything to a call at every
tick. The 45 s cap of modem_hal.c is one of the ways a call ends. Contacts are slots,
any subset of them configured. `modem_make_voice_call` is called with no call up
(both callers hang up first under `escalation_mutex`), so its "already active"
return is not reachable here. `seen` is what the ticks have seen of the call of an attempt:
whether it was first seen connected before or after the voicemail limit, the time between ticks
that all found it connected since, and the pass in which it came back after it had rung again.

*Watchdog.* The watchdog thread is never late and one `modem_send_sms` ends within
`HOLD`; main may stop for ever in any state.

*ModemHal.* AT dialogues are their outcomes: any command may be left unanswered or be
answered with an error, and the call on the line moves on its own. The port is flushed
when a dialogue opens it; a late OK that still slips into the next one is, for a call,
a dial that dials nothing or a list without a call, and both are among the outcomes.
Durations inside one HAL function are left out; the clocks are those the code counts from
`modem_hal_tick`. `unnoticed` is the time of all passes, that of the poll included, for which the HAL
has held on to a call since the line lost it.

*RemoteCommands.* A command is its place in the order of issue. The backend is one
synchronous worker (`backend/Procfile`), so a handler is atomic; with
several workers or threads the read, check and write of the acknowledgement could
clear a newer command, which is not modelled. The modem's settings (CMGF, CPMS) are taken to
survive its resets, and the hub's configuration with its token to survive a restart: what a power cut may do to
that is in ConfigSync. What a command does is in AlarmRuntime.

*ConfigSync.* A value is a model value; all that is kept of its text is whether one is a
part of another (`CONTAINS`), since `strstr` decides whether the file is rewritten.
A setting without a row is answered with the backend's default. The file is renamed into
place and never flushed: a death of the process (`Restart`) leaves it alone, a power cut may leave it as it
is, as the disk last had it, or empty, and then the token is lost with the settings. A file
emptied by other means, or half of one, is not modelled.

*CameraPipeline.* A view is a place, nobody, or a person without a box, at the confidence
that counts; boxes that overlap enough to be matched are one place (the overlap of boxes is
not transitive, places are). Snapshot and detector may give any view, or fail, after any time.
Restart, camera health and the simulated camera are left out.

*SensorInput.* Of time only "less than 200 ms since the last event of this watch" is kept.
The sleep before the second reading is as long, so every window has ended after it. The
kernel's flag is one bit per open file: an edge sets it, a read through this file clears it.
Any read may fail. A trigger is the disarm at its end, the rest is in AlarmRuntime. `lost`
names what the code cannot see: an edge taken by a failed read or by the first read of the
file at set-up, and a button pressed for good while main confirms a press too short to
read (`Overlooked`). A sensor leaves `lost` as soon as one of its pins moves again. Of the process's
restore only what decides whether the shop comes up armed is kept.

## 3. Runs

| Run | Bounds | Shows |
|---|---|---|
| `AlarmRuntime.cfg` (pass) | grace 1, calibration 2, pass up to 2 units: every order of the two clocks and the jump over both; no bound on anything else | `DisarmHolds`, `FirstAlarmWillRearm`, `FileMatchesArmState`, `ScheduleControlFollowsSchedule`, `ImplementsArmingCore`, `MonitoringSmsOnlyWhenArmed`, `OnlyAnAlarmRingsOverARearm`, `RearmIsResolved` |
| `Runtime_TemporaryDisarmHasRearm.cfg` (violation) | same | a second alarm disarms for good |
| `AlertDispatch.cfg` (pass) | 2 slots, 2 attempts, timeout 5, suspicion 2, confirmation 2, gap 1, pass up to 2; 2 accepted requests, 1 reset | `CallMatchesEscalation`, `AnswerPassedVoicemailGuard`, `FewLateSms`, `StopIsOutrunOnce`, `ImplementsCallSequence`, `EscalationEnds` |
| `Dispatch_ResetCancelsCalls.cfg` (violation) | same, timeout 3, confirmation 1 | a dispatch survives the STOP it raced |
| `Watchdog.cfg` (pass) | the code's constants in units of 5 s | `SilenceIsCutOff`, `ResetOnlyAfterSilence` |
| `ModemHal.cfg` (pass) | 3 failures to a reset, cooldown 6, call limit 5, poll every 2, passes of 1 to 3 | `OutgoingCallIsTracked`, `DeadCallIsNoticed`, `DeferredResetIsDue`, `ModemIsNotHeldInReset`, `ResetsAreSpaced`, `CallEnds`, `DeferredResetResolves` |
| `RemoteCommands.cfg` (pass) | 2 app commands, 2 messages, 2 slots, 1 restart | `SmsAtMostOnce`, `ImplementsCommandRegister`, `RowIsCleared` |
| `Remote_CommandAppliedOnce.cfg` (violation) | same | a command is applied again although nothing was lost |
| `Remote_ReadSmsIsDeleted.cfg` (violation) | same | the second of two messages listed together stays for ever |
| `ConfigSync.cfg` (pass) | 2 contacts; values: a number, a part of it, the default; 2 edits, 2 restarts or power cuts | `FileFollowsConfig`, `AlertsGoToNamedContacts`, `SettingsArrive` |
| `CameraPipeline.cfg` (pass) | 2 cameras, 2 places, queue 2, 1 zone, 2 occurrences, 2 frames, grace 1, calibration 2, pass up to 2; symmetric in cameras and in places | `ZonesOnlyWhileArmed`, `AlarmIffConfirmed`, `AlarmWaits`, `ImplementsArmingCore` |
| `SensorInput.cfg` (pass) | one shutter and the panic button; no bound on anything else | `OpenShutterIsNoticed`, `LastingDangerIsNoticed`, `SensorsCanMove`, `DangerIsAlarmed` |

Why the bounds are enough: in AlarmRuntime everything but the clocks is finite
as it stands, and the invariants are proved for all clocks. In AlertDispatch two
requests and one reset let a dispatch meet its predecessor, the cooldown and a
reset between any two of its critical sections; two slots give "before",
"current" and "after"; the timeout of 5 with passes of 1 or 2 units makes an attempt
last three to five ticks, so that answers before, at and after the suspicion limit and at
the timeout all occur, and a call first seen connected after the limit may ring, come back, and still
be confirmed. After the requests and the reset are spent the system
keeps ticking, which is what liveness is about.

In ModemHal the cooldown is longer than the longest call, so that a reset deferred by a call may
come due with the call, with the cooldown or after both; a pass may be longer than a poll
interval, and two calls fit into a cooldown. In RemoteCommands two commands are "this" and
"the one that replaced it", two messages what one listing may hold; one restart falls between any two
steps. In ConfigSync one setting may be written while the other is not; after two power cuts the
file has been lost, or brought back, in what an earlier cut has left. In
CameraPipeline the queue of two overflows with every third result, two places share one zone, and a pass can be
longer than grace and as long as the calibration. In SensorInput the shutter's two contacts are
one event each in the same poll, and the button is the sensor whose rising edges alone wake main;
smoke and the second shutter add states (more than 640,000) and no new kind of
step, and the proofs cover them. The invariants of all modules are proved for all their constants.

The type invariants, `ObservationLagsOnlyAfterRepeat` of `AlarmRuntime`, and `NoCommandLost` and
`LastCommandWins` of `RemoteCommands` are proved for all
constants and take no part in the runs; the last two are also what `CommandRegister` says (`Forget` and
`Apply`), which the run of `RemoteCommands` checks. No run turns deadlock checking off.

## 4. Fairness

*AlarmRuntime*: main and timer threads run (weak fairness); main leaves the camera
queue and the sensor pass in the end although alarms interrupt them again and
again (strong fairness): each sensor is handled once per pass and a camera needs
seconds for a frame. `RearmIsResolved` speaks of the time after the last alarm, since
each alarm restarts the siren and may postpone its end.

*AlertDispatch*: threads run (weak). `GapEnds` is strongly fair: a modem that is
asked to settle infinitely often does so. The code has no other way out of the retry
gap, so without the assumption `EscalationEnds` is false, and so is the code's promise.

*Watchdog*, *CameraPipeline*: none, their promises are safety properties. Nothing
obliges main to move.

*ModemHal*: main ticks (weak) and a pulse on the reset line that can end again and again ends (strong); a tick that may
raise the line again and again does raise it (strong): the GPIO works now and then. Nothing is assumed of AT commands or the
network.

*RemoteCommands*: main runs and the poll thread asks (weak); a fetch or an acknowledgement
tried for ever succeeds at last (strong), since `RowIsCleared` cannot hold over a dead
network.

*ConfigSync*: main polls (weak), and a file operation tried again and again succeeds (strong).

*SensorInput*: main goes on inside an event, a preflight and the set-up, and a window of
200 ms ends (weak). The poll is strongly fair: a pass may hold an arm or disarm between two polls, but
comes to its poll whatever it did before. Nothing is assumed of the contacts: a read that fails,
or a pin that moves again, takes the obligation of `DangerIsAlarmed` away.

Fairness obliges a thread only where its action is enabled. For `SensorInput` the run checks
`SensorsCanMove`: main is never stuck with an empty list in an event, a preflight or the set-up. For the
other three liveness theorems `ThreadsCanMove`, `CommandsCanMove` and `SyncCanMove` say the same of
their threads; they repeat the guards of the actions, say nothing of the code that the
actions do not, and are no properties of a run: a thread that waits for ever would show as a violation of
`RearmIsResolved`, `RowIsCleared` or `SettingsArrive`.

## 5. Proofs

All from the named constant assumptions of the modules (positive clocks,
`TIMEOUT > FEED`, bounds that are naturals, a default among the values, one or two shutters), for every value of the constants.

`AlarmRuntimeProofs` proves the type invariant, five safety invariants (the run's four and
`ObservationLagsOnlyAfterRepeat`) and both
action properties (`MonitoringSmsOnlyWhenArmed`, `OnlyAnAlarmRingsOverARearm`) of `AlarmRuntime` from
`ClockAssumption` alone (grace and calibration positive). The inductive invariant
`Inv` adds to the types what each of the seven parts needs of the others:

* `DownInv`: a dead process holds nothing but the file; `TriggerInv`: inside a trigger
  the incident runs and the siren rings - this carries the wake-up argument over
  the window between the two halves of `trigger_alarm`;
* `HoldInv`, `RearmInv`: a held shop is disarmed with nothing pending; a pending
  re-arm has a siren, a callback or an event still to come;
* `DownInv`, `FileInv`: the cache equals the file while the process is up, unless the file could not be read
  and not be written since, and the file equals the arm state unless the last write failed or an
  alarm has disarmed since;
* `ObservedInv`: observed and real arm state, and the calibration;
* `ScheduleInv`: SCHEDULE control and the last scheduled state.

`DisarmHolds`, `FileMatchesArmState` and the others are not inductive alone: a
file that matches the arm state is only preserved by a skipped write if the cache is
the file. One lemma per action; the many actions that end in `runtime_set_armed` go
through one lemma about its effect.

It also proves that every behaviour is one of `ArmingCore` (`RefinesArmingCore`). The abstract
alarm is one step, the code's is two with the timer thread between them; the refinement mapping
takes the rest of a trigger for done, so its first half is the alarm and the second a stutter. It needs
`Inv`, which bars an arming the runtime has not observed, and `ClockInv`: a clock that does not run
has come to its end, so that every disarm leaves the clocks as `ArmingCore` has them.

`RearmIsNotForgotten` is a liveness theorem with a hypothesis:
`Spec /\ []ThreadsCanMove => RearmIsResolved`. ENABLED is beyond the provers, and weak fairness says
nothing without it; `ThreadsCanMove` says for each place of each thread that its action is enabled
there, which repeats the guards, and is the only thing assumed. The rest is deduced for all clocks:
after the last alarm main leaves the trigger; the siren comes to its deadline and the timer thread to
its callback, which leaves the event; the event stays until main takes it, and main, wherever it stands
in its pass, comes round to the re-arm phase, which ends the pending re-arm or finds it
cancelled. Each of these is one leads-to with its own step lemma.

`WatchdogProofs` proves both bounds for all values of `STALE`, `FEED`, `TIMEOUT` and
`HOLD` with `STALE > 1` and `TIMEOUT > FEED > 0`. Its invariant says that the
heartbeat age is the silence capped at `STALE`, and that since the last feed the
silence has grown no faster than the hardware counter.

`ModemHalProofs` proves the type invariant, five safety invariants and the spacing
of resets. Its invariant has three parts: the HAL's call against the call on the line, with its
clocks below their limits; counter, deferred reset and reset line against the
state of the process; the cooldown against the time since the last pulse. `DeadCallsAreNoticed` has an
invariant of its own, `NoticeInv`: while the HAL holds on to a call that is over, the time since is at most
what its poll clock has counted, and the pass in which the poll comes adds its own length and no
more. A lemma per
helper of the HAL (tick of a call, failure noted, call given up) is used by each action.

`RemoteCommandsProofs` proves the type invariant, `SmsAtMostOnce`, `NoCommandLost`,
`LastCommandWins` and the refinement of `CommandRegister`, in which what the poll thread has brought is
`known`. Its invariant orders every copy of a command: fetched, mailbox and
acknowledgements are at most the newest issued, what is acknowledged was applied, and
an empty row means the newest was; and it places every message, in the network, in one
slot or in main's hands, with the count that goes with the place.
`PendingCommandIsAcknowledged` is a liveness theorem: given `CommandsCanMove` and an end
of app commands and restarts, `RowIsCleared` holds, for any number of commands and messages. Suppose command k stayed
pending for ever. Then every fetch brings k, so what is fetched is k from some time on, and it reaches the mailbox again
and again; main passes by its mailbox again and again, whatever messages it handles between, takes k
and acknowledges it; so an acknowledgement of k is under way again and again, one arrives, and k is no longer pending.

`ConfigSyncProofs` proves the type invariant and both safety invariants. Its invariant
says that every value held anywhere, the disk included, was given by somebody (`Named`), unless a power cut
has emptied the file and the value is a default, and relates file and
configuration in each place of a sync; a boot (`BootAgrees`) makes them agree again, whatever it finds.
`SettingsReachMain` is its liveness theorem: given
`SyncCanMove` (the sync has a way on wherever it stands, which repeats the guards) and an end of edits,
restarts and power cuts, what the backend has last reaches main and stays, unless the token is lost. That they end is a
hypothesis because the model counts them down to a bound, and that a counter
stops is an induction over data; in the code the owner stops editing.

`CameraPipelineProofs` proves the type invariant, `ZonesOnlyWhileArmed` and both action
properties. Its invariant says that the frames counted are those confirmed, that zones and
the runtime's view of the arm state go together, that what is left to wait is still to run on one of
the two clocks, and that after the pass of an arming each camera has at most one result
from before it: in the queue, under way, or counted. The last is why the second of
two frames is always one seen since the arming. In the refinement of `ArmingCore` every action of
camera threads, queue and detector stutters but two: a camera alarm, first or repeated, and the result in
whose handling the runtime notices a fall it had missed, which is a `Disarm` again.

`AlertDispatchProofs` proves the type invariant, the four safety invariants of the run, the
order of the attempts (`AttemptsInOrder`), and that every behaviour is one of
`CallSequence`. Its invariant has five parts: the queue of generations; each fan-out
thread, which holds no generation newer than the current one; the escalation; the attempts
each contact has had, as a function of contact and attempt (`Spent`), which makes an order
out of counters; and the clocks of the call: what is counted towards an answer has been seen
from tick to tick, but for the one pass of a comeback, and begins anew when the call rings. The refinement has one step per action: those outside the
escalation stutter, an attempt that starts is `Dial`, one that ends unanswered is `Unanswered`, a reset is `Cancel`.
`StopIsFinal` bounds what the violation run `Dispatch_ResetCancelsCalls` shows: of all dispatches one at most
outruns a STOP, the one past its check when the generation moved; none after it starts from
an outdated generation, and the next reset ends its calls too.

`SensorInputProofs` proves the type invariant and both safety invariants for every configuration
of sensors. Its invariant extends them to the middle of an event: between the first reading and the
verdict the sensor in hand may have been noticed by the reading itself instead of a flag.
`LastingDangerIsAlarmed` is the liveness theorem, `Spec /\ []SensorsCanMove => DangerIsAlarmed`. Suppose a
sensor stayed out for ever, neither alarmed nor excused. No verdict about it is ever in hand, since it would go on
to a trigger; so none of its pins is handled, and by the invariant one of them has an edge that waits for ever, with its
window over. Main comes to its poll again and again: a pass does its pins in the order of the array, which has six places, and
between two of them there is at most one event with its three steps. The poll puts the waiting pin on main's list,
and nothing but handling it takes it off again, so main never comes back to its poll.

Only model-checked:

* `SensorsCanMove`, since no prover here relates a guard to ENABLED; the four liveness theorems have it, or
  `ThreadsCanMove`, `CommandsCanMove` and `SyncCanMove`, which only repeat guards, as their hypotheses;
* `EscalationEnds`, `CallEnds` and `DeferredResetResolves`, which rest on clocks that count down or up to
  their limits (an induction over data);
* what the violation runs show.

## 6. What the models say about documents and code

Shown by a violation run, with the lines in `PROJECT.json`:

1. *A second alarm disarms for good* (runtime_loop.c:1080). The incident ends
   only with STOP or a restart; while it lasts no alarm schedules a re-arm.
2. *STOP does not cancel a dispatch that has just been checked* (alert_dispatch.c:364); `StopIsOutrunOnce`
   says how far this goes: one dispatch, until the next STOP.
3. *A command is applied again* if a poll is answered between its application and its
   acknowledgement (runtime_loop.c:1987).
4. *Of two messages listed together one is lost*: read, unprocessed and never deleted
   (modem_hal.c:781).

Seen while reading, modelled as the code has it:

* Arming: a re-arm may find the siren ringing again (runtime_loop.c:1059); the monitoring SMS
  may be about a shop disarmed by then (runtime_loop.c:922); a power cut while the siren
  rings leaves the shop disarmed (runtime_loop.c:1088). The state file is never flushed (runtime_loop.c:764), and a hub
  that finds none, an empty one or one it cannot read comes up disarmed under SCHEDULE (runtime_loop.c:719,
  3216), so that the next schedule pass may arm a shop the owner had disarmed, and a shop armed by hand comes
  up open; the comment on power loss (runtime_loop.c:791-795) speaks of a file that could be read. `DisarmHolds` and
  `FileMatchesArmState` name these cases and hold in all others. A panic
  alarm arms a shop the owner had disarmed (`hold = "alarmed"`); under SCHEDULE control the next schedule pass
  re-arms the shop after a repeated alarm while the siren still rings (runtime_loop.c:1012); a scheduled arm blocked by the
  preflight leaves MANUAL control behind and is not tried again before the next edge.
* Dispatch: a refused request is marked as dispatched, so nobody is alerted until the
  cooldown ends. A call that rings again and comes back keeps `active_seen`, and the whole pass in which it came
  back counts towards the answer (alert_dispatch.c:650-663): `AnswerPassedVoicemailGuard` allows that one
  pass. PROGRESS.md:410 names a 1-second retry gap, alert_dispatch.c:18 has 5000 ms.
* Watchdog: a failed thread start leaves the hardware watchdog counting. `modem_send_sms` keeps the modem
  mutex through both attempts (modem_hal.c:944); main, which needs it in every pass, does not beat
  meanwhile, and an enabled watchdog may reset the board (PROGRESS.md:401, SETUP.md:219 expect
  one slow SMS to be harmless). `WATCHDOG_ENABLED` is 0 by default.
* Locks, read from the code and not modelled: `escalation_mutex` is held while the modem is called, so the one nesting
  is `escalation_mutex` before `modem_hal_mutex`, in main and in the dispatch worker alike (alert_dispatch.c:382-411,
  562-699, 740-743); `dispatch_worker_mutex` is always released before another lock is taken
  (alert_dispatch.c:494-496, 522-552, 734-740), and a fan-out holds none when it calls the modem.
* Sensors: a panic button pressed for good within the 200 ms in which main confirms a press too short to
  read is not noticed before it is released and pressed again (runtime_loop.c:2786 against
  PROGRESS.md:165). A shutter opened between the preflight of a restored arm state and the first
  read of its value file is seen by nobody (runtime_loop.c:2680).
* Modem: a restart forgets the cooldown (PROGRESS.md:368 promises the spacing without an
  exception), so `ResetsAreSpaced` speaks of one life of the process; if lowering the reset line
  fails, the modem stays in reset until the next threshold of failures or a restart; polls of an
  idle inbox that fail do not count as failures. A call that has ended is held on to for up to a poll interval
  and one pass (modem_hal.c:1211), and a pass may be long.
* Configuration: the file is renamed without a flush (config_sync.c:413-426), so that a power cut may leave it
  empty: the hub then calls the default contacts, and as the token is lost with them it never asks for the
  settings again (config_sync.c:607-612) until it is set up anew. `AlertsGoToNamedContacts` and `SettingsArrive` name
  this case and hold in all others. A new value that is a part of the old line leaves the file as it
  is (config_sync.c:350 against SETUP.md:207), and the dispatch keeps
  calling the old number. The first poll puts the backend's defaults over what
  the installer wrote, as long as the owner has no row; a PUT without a schedule sets
  23:00 to 06:00.
* Cameras: two results of a person alarm even if a "nobody" between them was dropped by the full queue or never came
  from a failed capture (runtime_loop.c:2417); `AlarmIffConfirmed` is about the results main handles.
  Re-arming after a repeated alarm starts no calibration and sends no
  completion SMS (runtime_loop.c:1080 against SETUP.md:216, PROGRESS.md:219). A tick counts the part of the pass before
  the arming, so that the 10 s of grace and the 60 s of calibration may be shorter (runtime_loop.c:2959
  against PROGRESS.md:202, SETUP.md:214). Only the most confident box of a frame is
  kept (camera_detection.c:717), so a static object can hide an intruder; an intruder in view during the
  calibration is learned as static.

## 7. Not modelled

Force-armed bench mode, `alarm_logic_toggle_armed`, the exit delay of schedule.c (set and
ticked, read by nothing), the simulated-GPIO loop (a second copy of the handlers for
tests), `alert_dispatch_send`, `modem_hard_reset` and `modem_register_network` with modem_state.c
(tests only), exporting and configuring pins, detector inference and image
processing, sysfs access, the backend's accounts, media and pages, the factory test,
vendored code.

## 8. Plan

Done, in the order of what matters to the owner: `AlarmRuntime`, `AlertDispatch` over
`CallSequence`, `Watchdog`, `ModemHal`, `RemoteCommands` over `CommandRegister`, `ConfigSync`, `CameraPipeline`,
`SensorInput`, and the proofs of section 5. Left:

1. A composition of `AlertDispatch` with `ModemHal` in place of the free modem.
2. The backend's one-time passwords and sessions, if they come to matter to the device.
