--------------------------- MODULE RemoteCommands ---------------------------
(***************************************************************************)
(* How the owner's commands reach the main loop: from the app through the  *)
(* backend's one pending command, the poll thread and its mailbox          *)
(* (backend/app.py, device_command_sync.c, runtime_loop.c), and by SMS     *)
(* through the SIM's store (modem_hal.c, runtime_loop.c).                  *)
(*                                                                         *)
(* A command is its number in the order of issue, a message its number in  *)
(* the order of sending; 0 stands for none.  What a command does to the    *)
(* arm state is the subject of AlarmRuntime.                               *)
(***************************************************************************)
EXTENDS Naturals

CONSTANTS
  MAX_APP,       \* commands the app issues
  MAX_SMS,       \* messages sent to the hub
  SIM_SLOTS,     \* size of the SIM's store
  MAX_RESTARTS   \* times the process dies

ASSUME BoundsAssumption ==
  MAX_APP \in Nat /\ MAX_SMS \in Nat /\ SIM_SLOTS \in Nat /\ MAX_RESTARTS \in Nat

VARIABLES
  \* the backend
  issued,              \* commands the app has issued
  pending_command_id,  \* the shop's row: the command not yet acknowledged
  acks,                \* acknowledgements that may still arrive
  \* the poll thread
  fetched,             \* the command it has read and not yet put into the mailbox
  mailbox,             \* context.command while context.has_command
  \* main
  main,                \* where in its pass it is
  command,             \* the app command it is applying or acknowledging
  index,               \* the slot of the message it is processing
  \* the SIM
  sent,                \* messages sent to the hub
  network,             \* those the network holds
  store,               \* the message in each slot
  unread,              \* messages in the store that are "REC UNREAD"
  \* the process
  restarts,
  \* history
  last_app,            \* the last app command applied
  newest,              \* the last app command the poll thread offered to the mailbox
  handled,             \* how often each message was processed
  repeated,            \* an app command was applied again
  ack_fault,           \* an acknowledgement was lost or late, or the process died
  sms_fault,           \* an AT command of the inbox failed, or the process died in it
  batched              \* a listing held more than one message

backend  == <<issued, pending_command_id, acks>>
poller   == <<fetched, mailbox>>
loop     == <<main, command, index>>
sim      == <<network, store, unread>>
app_past == <<last_app, newest, repeated, ack_fault>>
sms_past == <<handled, sms_fault, batched>>
vars == <<backend, poller, loop, sent, sim, restarts, app_past, sms_past>>

Commands == 1..MAX_APP
Messages == 1..MAX_SMS
Slots    == 1..SIM_SLOTS

TypeOK ==
  /\ issued \in 0..MAX_APP
  /\ pending_command_id \in 0..MAX_APP
  /\ acks \subseteq Commands
  /\ fetched \in 0..MAX_APP
  /\ mailbox \in 0..MAX_APP
  /\ main \in {"sms", "process", "delete", "app", "ack", "wait"}
  /\ command \in 0..MAX_APP
  /\ index \in 0..SIM_SLOTS
  /\ sent \in 0..MAX_SMS
  /\ network \subseteq Messages
  /\ store \in [Slots -> 0..MAX_SMS]
  /\ unread \subseteq Messages
  /\ restarts \in 0..MAX_RESTARTS
  /\ last_app \in 0..MAX_APP
  /\ newest \in 0..MAX_APP
  /\ handled \in [Messages -> Nat]
  /\ repeated \in BOOLEAN /\ ack_fault \in BOOLEAN
  /\ sms_fault \in BOOLEAN /\ batched \in BOOLEAN

Init ==
  /\ issued = 0 /\ pending_command_id = 0 /\ acks = {}
  /\ fetched = 0 /\ mailbox = 0
  /\ main = "sms" /\ command = 0 /\ index = 0
  /\ sent = 0 /\ network = {} /\ store = [s \in Slots |-> 0] /\ unread = {}
  /\ restarts = 0
  /\ last_app = 0 /\ newest = 0 /\ repeated = FALSE /\ ack_fault = FALSE
  /\ handled = [m \in Messages |-> 0] /\ sms_fault = FALSE /\ batched = FALSE
-----------------------------------------------------------------------------
(* The app and the backend, which serves one request at a time. *)

\* POST /arm or /disarm: the new command takes the place of the pending one.
AppCommand ==
  /\ issued < MAX_APP
  /\ issued' = issued + 1
  /\ pending_command_id' = issued + 1
  /\ UNCHANGED <<acks, poller, loop, sent, sim, restarts, app_past, sms_past>>

\* An acknowledgement arrives, perhaps long after main gave it up; 409 unless it
\* names the pending command.
AckArrives(k) ==
  /\ k \in acks
  /\ acks' = acks \ {k}
  /\ pending_command_id' = IF pending_command_id = k THEN 0 ELSE pending_command_id
  /\ UNCHANGED <<issued, poller, loop, sent, sim, restarts, app_past, sms_past>>

AckLost(k) ==
  /\ k \in acks
  /\ acks' = acks \ {k}
  /\ ack_fault' = TRUE
  /\ UNCHANGED <<issued, pending_command_id, poller, loop, sent, sim, restarts, last_app,
                 newest, repeated, sms_past>>
-----------------------------------------------------------------------------
(* The poll thread: amtech_device_command_fetch, then the mailbox under its mutex. *)

\* The backend answers a poll with a command.
FetchReads ==
  /\ fetched = 0
  /\ pending_command_id # 0
  /\ fetched' = pending_command_id
  /\ UNCHANGED <<backend, mailbox, loop, sent, sim, restarts, app_past, sms_past>>

\* The answer does not reach the hub.
FetchLost ==
  /\ fetched # 0
  /\ fetched' = 0
  /\ UNCHANGED <<backend, mailbox, loop, sent, sim, restarts, app_past, sms_past>>

\* The thread offers its command to the mailbox, which takes it if "take" holds.
Offer(take) ==
  /\ fetched # 0
  /\ mailbox' = IF take THEN fetched ELSE mailbox
  /\ newest' = fetched
  /\ fetched' = 0
  /\ UNCHANGED <<backend, loop, sent, sim, restarts, last_app, repeated, ack_fault, sms_past>>

\* A slip: a command that was applied is not taken again.
OfferUnlessSeen == Offer(fetched # last_app)

\* A slip: a mailbox in use is left alone.
OfferIfEmpty == Offer(mailbox = 0)

\* consume_device_command clears the id: an applied command is taken again.
FetchStores == Offer(mailbox = 0 \/ mailbox # fetched)
-----------------------------------------------------------------------------
(* Main's pass, app side: apply_device_command. *)

NoCommand ==
  /\ main = "app" /\ mailbox = 0
  /\ main' = "sms"
  /\ UNCHANGED <<backend, poller, command, index, sent, sim, restarts, app_past, sms_past>>

ApplyCommand ==
  /\ main = "app" /\ mailbox # 0
  /\ command' = mailbox /\ mailbox' = 0
  /\ last_app' = mailbox
  /\ repeated' = (repeated \/ mailbox = last_app)
  /\ main' = "ack"
  /\ UNCHANGED <<backend, fetched, index, sent, sim, restarts, newest, ack_fault, sms_past>>

\* amtech_device_command_ack posts the id of the copy main took.
AckSent ==
  /\ main = "ack"
  /\ acks' = acks \union {command}
  /\ main' = "wait"
  /\ UNCHANGED <<issued, pending_command_id, poller, command, index, sent, sim, restarts,
                 app_past, sms_past>>

\* Answered, refused or timed out: main only prints a warning.
AckEnds ==
  /\ main = "wait"
  /\ main' = "sms" /\ command' = 0
  /\ ack_fault' = (ack_fault \/ command \in acks)
  /\ UNCHANGED <<backend, poller, index, sent, sim, restarts, last_app, newest, repeated,
                 sms_past>>
-----------------------------------------------------------------------------
(* Messages on their way to the SIM. *)

SendSms ==
  /\ sent < MAX_SMS
  /\ sent' = sent + 1
  /\ network' = network \union {sent + 1}
  /\ UNCHANGED <<backend, poller, loop, store, unread, restarts, app_past, sms_past>>

\* A full store leaves the message with the network.
DeliverSms ==
  \E m \in network, s \in Slots :
    /\ store[s] = 0
    /\ network' = network \ {m}
    /\ store' = [store EXCEPT ![s] = m]
    /\ unread' = unread \union {m}
    /\ UNCHANGED <<backend, poller, loop, sent, restarts, app_past, sms_past>>
-----------------------------------------------------------------------------
(* Main's pass, SMS side: runtime_poll_sms_remote_control. *)

UnreadSlots == {s \in Slots : store[s] \in unread}
TakenSlots == {s \in Slots : store[s] # 0}

\* s is what parse_cmgl_response finds in a listing of the slots S: the first.
FirstOf(s, S) == s \in S /\ \A t \in S : s <= t

\* All in S are marked as read, and main has the first of them, if any.
List(S) ==
  /\ main = "sms"
  /\ \/ S = {} /\ main' = "app" /\ UNCHANGED index
     \/ \E s \in S : FirstOf(s, S) /\ main' = "process" /\ index' = s
  /\ unread' = {}
  /\ batched' = (batched \/ \E s, t \in UnreadSlots : s # t)
  /\ UNCHANGED <<backend, poller, command, sent, network, store, restarts, app_past, handled,
                 sms_fault>>

\* Not yet time to poll.
SmsNotDue ==
  /\ main = "sms"
  /\ main' = "app"
  /\ UNCHANGED <<backend, poller, command, index, sent, sim, restarts, app_past, sms_past>>

\* A slip: AT+CMGL="ALL".
ListAll == List(TakenSlots)

\* modem_check_incoming_sms: AT+CMGL="REC UNREAD".
ListUnread == List(UnreadSlots)

\* No answer, or one that cannot be parsed.
ListFails ==
  /\ main = "sms"
  /\ main' = "app"
  /\ \/ UNCHANGED <<unread, sms_fault>>
     \/ unread' = {} /\ sms_fault' = TRUE
  /\ UNCHANGED <<backend, poller, command, index, sent, network, store, restarts, app_past,
                 handled, batched>>

\* process_sms_remote_command: applied, refused or ignored.
ProcessSms ==
  /\ main = "process"
  /\ handled' = [handled EXCEPT ![store[index]] = @ + 1]
  /\ main' = "delete"
  /\ UNCHANGED <<backend, poller, command, index, sent, sim, restarts, app_past, sms_fault,
                 batched>>

DeleteSms ==
  /\ main = "delete"
  /\ store' = [store EXCEPT ![index] = 0]
  /\ main' = "app" /\ index' = 0
  /\ UNCHANGED <<backend, poller, command, sent, network, unread, restarts, app_past, sms_past>>

DeleteFails ==
  /\ main = "delete"
  /\ sms_fault' = TRUE
  /\ main' = "app" /\ index' = 0
  /\ UNCHANGED <<backend, poller, command, sent, sim, restarts, app_past, handled, batched>>
-----------------------------------------------------------------------------
\* A crash, an update or the watchdog, and a new process: mailbox and main's place are
\* gone, the backend and the SIM keep theirs.  The configuration with the token of the
\* device is taken to survive; ConfigSync says when it does not.
Restart ==
  /\ restarts < MAX_RESTARTS
  /\ restarts' = restarts + 1
  /\ fetched' = 0 /\ mailbox' = 0
  /\ main' = "sms" /\ command' = 0 /\ index' = 0
  /\ ack_fault' = TRUE
  /\ sms_fault' = (sms_fault \/ main \in {"process", "delete"})
  /\ UNCHANGED <<backend, sent, sim, last_app, newest, repeated, handled, batched>>

Main ==
  \/ NoCommand \/ ApplyCommand \/ AckSent \/ AckEnds
  \/ SmsNotDue \/ ListUnread \/ ListFails \/ ProcessSms \/ DeleteSms \/ DeleteFails

Next ==
  \/ AppCommand
  \/ \E k \in Commands : AckArrives(k) \/ AckLost(k)
  \/ FetchReads \/ FetchLost \/ FetchStores
  \/ Main
  \/ SendSms \/ DeliverSms
  \/ Restart

\* The threads run, and what is tried over the network again and again succeeds at last.
AckFairness(k) == SF_vars(AckArrives(k))
NetworkFairness == \A k \in Commands : AckFairness(k)

Fairness ==
  /\ WF_vars(Main) /\ WF_vars(FetchReads)
  /\ SF_vars(FetchStores)
  /\ NetworkFairness

Spec == Init /\ [][Next]_vars /\ Fairness
-----------------------------------------------------------------------------
(* Properties. *)

\* What main applies is the newest command the poll thread knows of, and none older than
\* one applied before: late fetches, lost acknowledgements and restarts do not bring a
\* replaced command back.
LastCommandWins ==
  [][command' \notin {0, command} => command' = newest /\ command' >= last_app]_vars

\* The backend forgets its pending command only when the newest command the owner gave
\* was applied, whichever acknowledgement arrives when.
NoCommandLost == pending_command_id = 0 => last_app = issued

\* Main can go on from every place of its pass, whatever network, backend and modem do,
\* and so can the poll thread and an acknowledgement on its way.  This repeats the guards
\* of the actions; the proof of RowIsCleared needs it as an assumption, because ENABLED is
\* beyond the provers.
CommandsCanMove ==
  /\ ENABLED <<Main>>_vars
  /\ pending_command_id # 0 /\ fetched = 0 => ENABLED <<FetchReads>>_vars
  /\ fetched # 0 => ENABLED <<FetchStores>>_vars
  /\ \A k \in acks : ENABLED <<AckArrives(k)>>_vars

\* Every pending command is acknowledged in the end, over a network that loses fetches and
\* acknowledgements (and is applied by then, NoCommandLost).
RowIsCleared == (pending_command_id # 0) ~> (pending_command_id = 0)

\* No message is processed twice, not even one whose deletion failed or that was being
\* processed when the process died.
SmsAtMostOnce == \A m \in Messages : handled[m] <= 1

\* A message that was read is in main's hands, or its listing, its deletion or the process
\* failed, or a listing held several: a slot is not lost otherwise.
ReadSmsIsHandled ==
  \A s \in TakenSlots : store[s] \in unread \/ s = index \/ sms_fault \/ batched

Register == INSTANCE CommandRegister
              WITH given <- issued, known <- newest, applied <- last_app, pending <- pending_command_id # 0

\* The whole way from the app to main (app.py 1376-1400, runtime_loop.c 1987-2110), with
\* its lost fetches, late acknowledgements and restarts, is the plain register of
\* module CommandRegister: commands in order, what is applied the newest one known, and
\* none pending but an unapplied newest one.
ImplementsCommandRegister == Register!Spec

\* As SETUP.md:123 has it: with every acknowledgement accepted before main goes on and no
\* restart, a command is not applied again.
CommandAppliedOnce == repeated => ack_fault

\* As PROGRESS.md:459 has it: while the modem does what it is told, the slot of a message
\* that was read is freed by main.
ReadSmsIsDeleted ==
  sms_fault \/ \A s \in TakenSlots : store[s] \in unread \/ s = index
=============================================================================
