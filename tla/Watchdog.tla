------------------------------- MODULE Watchdog -------------------------------
(***************************************************************************)
(* Who keeps the hub alive: watchdog_manager.c, the heartbeat of the main  *)
(* loop, the hardware watchdog behind it, and what the heartbeat has to    *)
(* wait for: modem_hal_mutex, which modem_send_sms holds through both of   *)
(* its attempts.                                                           *)
(*                                                                         *)
(* Time is discrete.  The watchdog thread runs once per unit and never     *)
(* late; everything else takes any time, except that one modem_send_sms is *)
(* over within HOLD.  The hardware watchdog is not stopped by closing its  *)
(* device (the magic character is never written), so it outlives the       *)
(* process.                                                                *)
(***************************************************************************)
EXTENDS Naturals

CONSTANTS
  STALE,     \* AMTECH_WATCHDOG_HEARTBEAT_STALE_MS
  FEED,      \* AMTECH_WATCHDOG_FEED_INTERVAL_MS
  TIMEOUT,   \* AMTECH_WATCHDOG_REQUESTED_TIMEOUT_SECONDS
  HOLD       \* two SMS attempts with all their timeouts (modem_hal.c 832-981)

ASSUME WatchdogAssumption ==
  /\ STALE \in Nat /\ STALE > 1
  /\ FEED \in Nat \ {0}
  /\ TIMEOUT \in Nat
  /\ TIMEOUT > FEED
  /\ HOLD \in Nat

VARIABLES
  process,          \* "down", "starting" (before the loop) or "loop"
  main,             \* "free", or it "waits" for the modem, or it "uses" it
  sms,              \* an SMS fan-out thread: "none", "waits" or "sends"
  sms_elapsed,      \* time since it took the modem, 0 when it has not
  running,          \* watchdog_state.running
  heartbeat_age,    \* heartbeat_age_ms
  feed_elapsed,     \* feed_elapsed_ms
  hardware,         \* the hardware watchdog counts
  hardware_elapsed, \* time since it was opened or fed
  \* History, read by the properties only:
  silent_for,       \* time since the last heartbeat, or since main's loop began
  longest_silence,  \* the longest of them since the last feed
  feed_failed       \* a keepalive has failed since the device was opened

threads == <<process, main, sms, sms_elapsed>>
manager == <<running, heartbeat_age, feed_elapsed>>
device  == <<hardware, hardware_elapsed>>
history == <<silent_for, longest_silence, feed_failed>>

vars == <<threads, manager, device, history>>

\* The silence that ends in a reset at the latest: the last feed just before the
\* heartbeat goes stale, and a full timeout after it.
MaxSilence == STALE - 1 + TIMEOUT

\* The silence that a reset needs at the least: stale when the next feed is due,
\* and ever since.
MinSilence == STALE + TIMEOUT - 1 - FEED

TypeOK ==
  /\ process \in {"down", "starting", "loop"}
  /\ main \in {"free", "waits", "uses"}
  /\ sms \in {"none", "waits", "sends"}
  /\ sms_elapsed \in 0 .. HOLD
  /\ running \in BOOLEAN
  /\ heartbeat_age \in 0 .. STALE
  /\ feed_elapsed \in 0 .. FEED
  /\ hardware \in BOOLEAN
  /\ hardware_elapsed \in 0 .. TIMEOUT - 1
  /\ silent_for \in 0 .. MaxSilence + 1
  /\ longest_silence \in 0 .. MaxSilence + 1
  /\ feed_failed \in BOOLEAN
-----------------------------------------------------------------------------
(* The process, its start and its end. *)

\* The init script, at boot and 5 s after every exit.
ProcessStarts ==
  /\ process = "down"
  /\ process' = "starting"
  /\ UNCHANGED <<main, sms, sms_elapsed, manager, device, history>>

\* watchdog_manager_start, after the arm state has been restored: disabled by
\* config or no device; no thread, when the device is closed but counts on; or
\* running.
ManagerStarts ==
  /\ process = "starting"
  /\ main = "free"
  /\ process' = "loop"
  /\ \/ UNCHANGED <<manager, device, feed_failed>>
     \/ /\ running' \in BOOLEAN
        /\ heartbeat_age' = 0
        /\ feed_elapsed' = 0
        /\ hardware' = TRUE
        /\ hardware_elapsed' = 0
        /\ feed_failed' = FALSE
  /\ silent_for' = 0
  /\ longest_silence' = 0
  /\ UNCHANGED <<main, sms, sms_elapsed>>

NoProcess ==
  /\ process' = "down"
  /\ main' = "free"
  /\ sms' = "none"
  /\ sms_elapsed' = 0
  /\ running' = FALSE
  /\ heartbeat_age' = STALE
  /\ feed_elapsed' = 0

\* A crash, or main returning through watchdog_manager_stop.
ProcessEnds ==
  /\ process # "down"
  /\ NoProcess
  /\ UNCHANGED <<device, history>>

\* The hardware resets the board, and is itself off until opened again.
HardwareReset ==
  /\ hardware
  /\ hardware_elapsed + 1 >= TIMEOUT
  /\ NoProcess
  /\ hardware' = FALSE
  /\ hardware_elapsed' = 0
  /\ feed_failed' = FALSE
  /\ UNCHANGED <<silent_for, longest_silence>>
-----------------------------------------------------------------------------
(* The main thread.  It may stop in any state for ever. *)

\* watchdog_manager_note_runtime_heartbeat, at the head of every loop pass
Heartbeat ==
  /\ process = "loop"
  /\ main = "free"
  /\ heartbeat_age' = IF running THEN 0 ELSE heartbeat_age
  /\ silent_for' = 0
  /\ UNCHANGED <<threads, running, feed_elapsed, device, longest_silence, feed_failed>>

\* modem_hal_tick, modem_check_incoming_sms, modem_send_sms to the owner, the
\* calls of the escalation: main needs the modem ...
MainWantsModem ==
  /\ process # "down"
  /\ main = "free"
  /\ main' = "waits"
  /\ UNCHANGED <<process, sms, sms_elapsed, manager, device, history>>

\* ... gets it when the fan-out does not have it ...
MainTakesModem ==
  /\ main = "waits"
  /\ sms # "sends"
  /\ main' = "uses"
  /\ UNCHANGED <<process, sms, sms_elapsed, manager, device, history>>

\* ... and gives it back.
MainLeavesModem ==
  /\ main = "uses"
  /\ main' = "free"
  /\ UNCHANGED <<process, sms, sms_elapsed, manager, device, history>>
-----------------------------------------------------------------------------
(* An SMS fan-out thread. *)

FanoutStarts ==
  /\ process = "loop"
  /\ sms = "none"
  /\ sms' = "waits"
  /\ UNCHANGED <<process, main, sms_elapsed, manager, device, history>>

FanoutTakesModem ==
  /\ sms = "waits"
  /\ main # "uses"
  /\ sms' = "sends"
  /\ UNCHANGED <<process, main, sms_elapsed, manager, device, history>>

\* modem_send_sms returns; the next contact, if any.
FanoutLeavesModem ==
  /\ sms = "sends"
  /\ sms' \in {"waits", "none"}
  /\ sms_elapsed' = 0
  /\ UNCHANGED <<process, main, manager, device, history>>
-----------------------------------------------------------------------------
(* Time passes. *)

\* The counters of the manager saturate.
UpTo(limit, value) == IF value >= limit THEN limit ELSE value

Age == UpTo(STALE, heartbeat_age + 1)
Fed == UpTo(FEED, feed_elapsed + 1)

\* A slip: the keepalive does not depend on the heartbeat.
FeedsAnyway == Fed >= FEED

\* A keepalive is due and the heartbeat is fresh.
Feeds == Fed >= FEED /\ Age < STALE

\* A slip: a withheld keepalive starts its interval anew.
TickRestartsInterval ==
  IF ~running
    THEN /\ hardware_elapsed' = IF hardware THEN hardware_elapsed + 1 ELSE 0
         /\ UNCHANGED <<manager, feed_failed>>
    ELSE /\ heartbeat_age' = Age
         /\ feed_elapsed' = IF Fed >= FEED THEN 0 ELSE Fed
         /\ hardware_elapsed' = IF Feeds THEN 0 ELSE hardware_elapsed + 1
         /\ UNCHANGED <<running, feed_failed>>

\* watchdog_thread_main and watchdog_tick_locked
ManagerTick ==
  IF ~running
    THEN /\ hardware_elapsed' = IF hardware THEN hardware_elapsed + 1 ELSE 0
         /\ UNCHANGED <<manager, feed_failed>>
    ELSE /\ heartbeat_age' = Age
         /\ \/ /\ Feeds
               /\ feed_elapsed' = 0
               /\ hardware_elapsed' = 0
               /\ UNCHANGED feed_failed
            \/ /\ feed_elapsed' = Fed
               /\ hardware_elapsed' = hardware_elapsed + 1
               /\ feed_failed' = (feed_failed \/ Feeds)
         /\ UNCHANGED running

\* One unit of time, unless the hardware or the SMS timeout comes first.  The
\* silence is counted while it can matter.
TimePasses ==
  /\ ManagerTick
  /\ hardware_elapsed' < TIMEOUT
  /\ sms = "sends" => sms_elapsed < HOLD
  /\ sms_elapsed' = IF sms = "sends" THEN sms_elapsed + 1 ELSE sms_elapsed
  /\ silent_for' = UpTo(MaxSilence + 1, silent_for + 1)
  /\ longest_silence' = IF hardware /\ hardware_elapsed' = 0 THEN 0
                        ELSE IF silent_for' > longest_silence THEN silent_for'
                        ELSE longest_silence
  /\ UNCHANGED <<process, main, sms, hardware>>
-----------------------------------------------------------------------------
Init ==
  /\ process = "down"
  /\ main = "free"
  /\ sms = "none"
  /\ sms_elapsed = 0
  /\ running = FALSE
  /\ heartbeat_age = STALE
  /\ feed_elapsed = 0
  /\ hardware = FALSE
  /\ hardware_elapsed = 0
  /\ silent_for = 0
  /\ longest_silence = 0
  /\ feed_failed = FALSE

Next ==
  \/ ProcessStarts \/ ManagerStarts \/ ProcessEnds \/ HardwareReset
  \/ Heartbeat \/ MainWantsModem \/ MainTakesModem \/ MainLeavesModem
  \/ FanoutStarts \/ FanoutTakesModem \/ FanoutLeavesModem
  \/ TimePasses

Spec == Init /\ [][Next]_vars
-----------------------------------------------------------------------------
(* What the watchdog promises. *)

\* A loop pass that never ends, whatever it is stuck in, is cut off: while the
\* watchdog runs, no silence of the main loop outlasts MaxSilence
\* (watchdog_manager.c 156-199: a stale heartbeat withholds the keepalive).
SilenceIsCutOff ==
  running => silent_for <= MaxSilence

\* A main loop that beats is left alone: a reset needs a silence of MinSilence,
\* or a keepalive that failed.  One late heartbeat is enough, because the feed
\* interval has run out by then and the next tick feeds.
ResetOnlyAfterSilence ==
  [][HardwareReset /\ running => longest_silence >= MinSilence \/ feed_failed]_vars
=============================================================================
