------------------------ MODULE RemoteCommandsProofs ------------------------
(***************************************************************************)
(* Proofs about module RemoteCommands, for any number of commands,         *)
(* messages, slots and restarts.  The app side and the SMS side share only *)
(* main's place in its pass, and so the invariant has one part for each.   *)
(***************************************************************************)
EXTENDS RemoteCommands, TLAPS

AppTypes ==
  /\ issued \in 0..MAX_APP /\ pending_command_id \in 0..MAX_APP
  /\ acks \subseteq Commands
  /\ fetched \in 0..MAX_APP /\ mailbox \in 0..MAX_APP /\ command \in 0..MAX_APP
  /\ last_app \in 0..MAX_APP /\ newest \in 0..MAX_APP
  /\ repeated \in BOOLEAN /\ ack_fault \in BOOLEAN
  /\ main \in {"sms", "process", "delete", "app", "ack", "wait"}
  /\ restarts \in 0..MAX_RESTARTS

(* A command moves along one chain, from the app to main, and nothing overtakes:
   applied, offered to the mailbox, fetched, issued. *)
Chain ==
  /\ last_app <= newest /\ newest <= issued
  /\ mailbox # 0 => mailbox = newest
  /\ fetched # 0 => newest <= fetched /\ fetched <= issued
  /\ pending_command_id # 0 => pending_command_id = issued

(* Only applied commands are acknowledged. *)
Applied ==
  /\ \A k \in acks : k <= last_app
  /\ main \in {"ack", "wait"} => command # 0 /\ command <= last_app
  /\ main \notin {"ack", "wait"} => command = 0
  /\ NoCommandLost

AppInv == AppTypes /\ Chain /\ Applied

SmsTypes ==
  /\ index \in 0..SIM_SLOTS
  /\ sent \in 0..MAX_SMS
  /\ network \subseteq Messages
  /\ store \in [Slots -> 0..MAX_SMS]
  /\ unread \subseteq Messages
  /\ handled \in [Messages -> Nat]
  /\ sms_fault \in BOOLEAN /\ batched \in BOOLEAN

(* A message that has not reached the store is in no slot and was not processed. *)
Outside(m) == handled[m] = 0 /\ \A s \in Slots : store[s] # m

(* A message is processed on its way from "unread" to "read" and never later. *)
OnceInv ==
  /\ \A m \in Messages : m > sent => Outside(m)
  /\ \A m \in network : m <= sent /\ Outside(m)
  /\ \A m \in unread : handled[m] = 0
  /\ main \in {"process", "delete"} => index \in Slots /\ store[index] # 0
  /\ main = "process" => handled[store[index]] = 0 /\ store[index] \notin unread
  /\ main \notin {"process", "delete"} => index = 0
  /\ SmsAtMostOnce

SmsInv == SmsTypes /\ OnceInv /\ ReadSmsIsHandled

IInv == AppInv /\ SmsInv
-----------------------------------------------------------------------------
LEMMA InvImpliesType == IInv => TypeOK
  BY DEF IInv, AppInv, AppTypes, SmsInv, SmsTypes, TypeOK

(* A hub nobody has sent a command to. *)
LEMMA InitInv == Init => IInv
<1> SUFFICES ASSUME Init PROVE IInv
  OBVIOUS
<1>0. 0 \in 0..MAX_APP /\ 0 \in 0..MAX_SMS /\ 0 \in 0..SIM_SLOTS /\ 0 \in 0..MAX_RESTARTS
  BY BoundsAssumption DEF BoundsAssumption
<1>1. AppInv
  <2>1. AppTypes
    BY <1>0 DEF Init, AppTypes
  <2>2. Chain
    BY DEF Init, Chain
  <2>3. Applied
    BY DEF Init, Applied, NoCommandLost
  <2> QED BY <2>1, <2>2, <2>3 DEF AppInv
<1>2. SmsTypes
  <2>1. store \in [Slots -> 0..MAX_SMS]
    BY <1>0 DEF Init
  <2>2. handled \in [Messages -> Nat]
    BY DEF Init
  <2> QED BY <1>0, <2>1, <2>2 DEF Init, SmsTypes
<1>3. OnceInv
  BY DEF Init, OnceInv, Outside, SmsAtMostOnce, Messages, Slots
<1>4. ReadSmsIsHandled
  BY DEF Init, ReadSmsIsHandled, TakenSlots
<1> QED BY <1>1, <1>2, <1>3, <1>4 DEF IInv, SmsInv
-----------------------------------------------------------------------------
(* The app side. *)

(* What main does on the SMS side, and the modem at any time, leaves the app side
   alone. *)
LEMMA AppFrame ==
  ASSUME AppInv,
         UNCHANGED <<backend, poller, command, restarts, app_past>>,
         \/ main' = main
         \/ /\ main \notin {"ack", "wait"}
            /\ main' \in {"sms", "process", "delete", "app"}
  PROVE  AppInv'
<1> USE DEF backend, poller, app_past
<1>1. AppTypes'
  BY DEF AppInv, AppTypes
<1>2. Chain'
  BY DEF AppInv, Chain
<1>3. Applied'
  BY DEF AppInv, Applied, NoCommandLost
<1> QED BY <1>1, <1>2, <1>3 DEF AppInv

LEMMA AppNext ==
  ASSUME AppInv, Next
  PROVE  AppInv'
<1> USE BoundsAssumption DEF BoundsAssumption, AppInv, Commands
<1>1. CASE AppCommand
  BY <1>1 DEF AppCommand, AppTypes, Chain, Applied, NoCommandLost, poller, loop, app_past
<1>2. ASSUME NEW k \in Commands, AckArrives(k)
      PROVE  AppInv'
  <2>1. k <= last_app
    BY <1>2 DEF AckArrives, Applied
  <2>2. pending_command_id' = 0 => last_app = issued
    BY <1>2, <2>1 DEF AckArrives, AppTypes, Chain, Applied, NoCommandLost
  <2>3. AppTypes' /\ Chain'
    BY <1>2 DEF AckArrives, AppTypes, Chain, poller, loop, app_past
  <2>4. Applied'
    BY <1>2, <2>2 DEF AckArrives, Applied, NoCommandLost, poller, loop, app_past
  <2> QED BY <2>3, <2>4
<1>3. ASSUME NEW k \in Commands, AckLost(k)
      PROVE  AppInv'
  BY <1>3 DEF AckLost, AppTypes, Chain, Applied, NoCommandLost, poller, loop
<1>4. CASE FetchReads
  BY <1>4 DEF FetchReads, AppTypes, Chain, Applied, NoCommandLost, backend, loop, app_past
<1>5. CASE FetchLost
  BY <1>5 DEF FetchLost, AppTypes, Chain, Applied, NoCommandLost, backend, loop, app_past
<1>6. CASE FetchStores
  BY <1>6 DEF FetchStores, Offer, AppTypes, Chain, Applied, NoCommandLost, backend, loop
<1>7. CASE NoCommand
  BY <1>7, AppFrame DEF NoCommand, app_past
<1>8. CASE ApplyCommand
  BY <1>8 DEF ApplyCommand, AppTypes, Chain, Applied, NoCommandLost, backend
<1>9. CASE AckSent
  BY <1>9 DEF AckSent, AppTypes, Chain, Applied, NoCommandLost, poller, app_past
<1>10. CASE AckEnds
  BY <1>10 DEF AckEnds, AppTypes, Chain, Applied, NoCommandLost, backend, poller
<1>11. CASE SmsNotDue \/ ListUnread \/ ListFails \/ ProcessSms \/ DeleteSms \/ DeleteFails
  BY <1>11, AppFrame
     DEF SmsNotDue, ListUnread, List, ListFails, ProcessSms, DeleteSms, DeleteFails
<1>12. CASE SendSms \/ DeliverSms
  BY <1>12, AppFrame DEF SendSms, DeliverSms, loop
<1>13. CASE Restart
  BY <1>13 DEF Restart, AppTypes, Chain, Applied, NoCommandLost, backend
<1> QED
  BY <1>1, <1>2, <1>3, <1>4, <1>5, <1>6, <1>7, <1>8, <1>9, <1>10, <1>11, <1>12, <1>13
     DEF Next, Main
-----------------------------------------------------------------------------
(* The SMS side. *)

LEMMA SmsFrame ==
  ASSUME SmsInv,
         UNCHANGED <<index, sent, sim, sms_past>>,
         main' = main \/ {main, main'} \cap {"process", "delete"} = {}
  PROVE  SmsInv'
<1> USE DEF sim, sms_past
<1>1. SmsTypes'
  BY DEF SmsInv, SmsTypes
<1>2. OnceInv'
  BY DEF SmsInv, OnceInv, Outside, SmsAtMostOnce
<1>3. ReadSmsIsHandled'
  BY DEF SmsInv, ReadSmsIsHandled, TakenSlots
<1> QED BY <1>1, <1>2, <1>3 DEF SmsInv

LEMMA ListInv ==
  ASSUME SmsInv, ListUnread
  PROVE  SmsInv'
<1> USE DEF SmsInv, ListUnread, List, FirstOf, UnreadSlots
<1>1. index = 0
  BY DEF OnceInv
<1>2. SmsTypes'
  BY <1>1 DEF SmsTypes, Slots, Messages
<1>3. CASE UnreadSlots = {}
  <2>1. OnceInv'
    BY <1>3 DEF OnceInv, Outside, SmsAtMostOnce
  <2>2. ReadSmsIsHandled'
    BY <1>3 DEF ReadSmsIsHandled, TakenSlots
  <2> QED BY <1>2, <2>1, <2>2
<1>4. ASSUME NEW s \in UnreadSlots, main' = "process", index' = s
      PROVE  SmsInv'
  <2>1. s \in Slots /\ store[s] \in unread /\ store[s] # 0
    BY <1>4 DEF SmsTypes, Messages
  <2>2. OnceInv'
    BY <1>4, <2>1 DEF OnceInv, Outside, SmsAtMostOnce, SmsTypes
  <2>3. ASSUME NEW t \in Slots, store[t] # 0, t # s
        PROVE  sms_fault \/ batched'
    <3>1. CASE store[t] \in unread
      <4>1. t \in UnreadSlots /\ s \in UnreadSlots /\ t # s
        BY <1>4, <2>3, <3>1
      <4>2. batched' = (batched \/ \E u, v \in UnreadSlots : u # v)
        BY DEF ListUnread
      <4> HIDE DEF UnreadSlots, List, ListUnread, SmsInv
      <4> QED BY <4>1, <4>2
    <3>2. CASE store[t] \notin unread
      <4>1. sms_fault \/ batched
        BY <1>1, <2>3, <3>2 DEF ReadSmsIsHandled, TakenSlots, Slots
      <4>2. batched' = (batched \/ \E u, v \in UnreadSlots : u # v)
        BY DEF ListUnread
      <4> HIDE DEF UnreadSlots, List, ListUnread, SmsInv
      <4> QED BY <4>1, <4>2
    <3> QED BY <3>1, <3>2
  <2>4. ReadSmsIsHandled'
    BY <1>4, <2>3 DEF ReadSmsIsHandled, TakenSlots
  <2> QED BY <1>2, <2>2, <2>4
<1> QED BY <1>3, <1>4

LEMMA SmsNext ==
  ASSUME AppTypes, SmsInv, Next
  PROVE  SmsInv'
<1> USE BoundsAssumption DEF BoundsAssumption
<1>1. CASE AppCommand \/ FetchReads \/ FetchLost \/ FetchStores
  BY <1>1, SmsFrame DEF AppCommand, FetchReads, FetchLost, FetchStores, Offer, loop, sms_past
<1>2. ASSUME NEW k \in Commands, AckArrives(k) \/ AckLost(k)
      PROVE  SmsInv'
  BY <1>2, SmsFrame DEF AckArrives, AckLost, loop, sms_past
<1>3. CASE NoCommand \/ ApplyCommand \/ AckSent \/ AckEnds \/ SmsNotDue
  BY <1>3, SmsFrame DEF NoCommand, ApplyCommand, AckSent, AckEnds, SmsNotDue, sms_past
<1>4. CASE ListUnread
  BY <1>4, ListInv
<1>5. CASE ListFails
  <2>1. SmsTypes' /\ OnceInv'
    BY <1>5 DEF ListFails, SmsInv, SmsTypes, OnceInv, Outside, SmsAtMostOnce
  <2>2. ReadSmsIsHandled'
    BY <1>5 DEF ListFails, SmsInv, ReadSmsIsHandled, TakenSlots
  <2> QED BY <2>1, <2>2 DEF SmsInv
<1>6. CASE ProcessSms
  <2>1. index \in Slots /\ store[index] \in Messages /\ handled[store[index]] = 0
    BY <1>6 DEF ProcessSms, SmsInv, OnceInv, SmsTypes, Messages
  <2>2. SmsTypes'
    BY <1>6, <2>1 DEF ProcessSms, SmsInv, SmsTypes, sim
  <2>3. OnceInv'
    BY <1>6, <2>1 DEF ProcessSms, SmsInv, SmsTypes, OnceInv, Outside, SmsAtMostOnce, sim
  <2>4. ReadSmsIsHandled'
    BY <1>6 DEF ProcessSms, SmsInv, ReadSmsIsHandled, TakenSlots, sim
  <2> QED BY <2>2, <2>3, <2>4 DEF SmsInv
<1>7. CASE DeleteSms
  <2>1. SmsTypes' /\ index \in Slots
    BY <1>7 DEF DeleteSms, SmsInv, SmsTypes, OnceInv, sms_past
  <2>2. OnceInv'
    BY <1>7, <2>1
       DEF DeleteSms, SmsInv, SmsTypes, OnceInv, Outside, SmsAtMostOnce, sms_past, Messages
  <2>3. ReadSmsIsHandled'
    BY <1>7, <2>1 DEF DeleteSms, SmsInv, SmsTypes, ReadSmsIsHandled, TakenSlots, sms_past
  <2> QED BY <2>1, <2>2, <2>3 DEF SmsInv
<1>8. CASE DeleteFails
  BY <1>8
     DEF DeleteFails, SmsInv, SmsTypes, OnceInv, Outside, SmsAtMostOnce, ReadSmsIsHandled,
         TakenSlots, sim
<1>9. CASE SendSms
  <2>1. SmsTypes'
    BY <1>9 DEF SendSms, SmsInv, SmsTypes, Messages, loop, sms_past
  <2>2. OnceInv'
    BY <1>9, <2>1
       DEF SendSms, SmsInv, SmsTypes, OnceInv, Outside, SmsAtMostOnce, Messages, loop, sms_past
  <2>3. ReadSmsIsHandled'
    BY <1>9 DEF SendSms, SmsInv, ReadSmsIsHandled, TakenSlots, loop, sms_past
  <2> QED BY <2>1, <2>2, <2>3 DEF SmsInv
<1>10. CASE DeliverSms
  <2>1. PICK m \in network, s \in Slots :
          /\ store[s] = 0
          /\ network' = network \ {m}
          /\ store' = [store EXCEPT ![s] = m]
          /\ unread' = unread \union {m}
          /\ UNCHANGED <<loop, sent, sms_past>>
    BY <1>10 DEF DeliverSms
  <2>2. m \in Messages /\ m <= sent /\ Outside(m) /\ m # 0
    BY <2>1 DEF SmsInv, SmsTypes, OnceInv, Messages
  <2>3. SmsTypes'
    BY <2>1, <2>2 DEF SmsInv, SmsTypes, loop, sms_past, Messages
  <2>4. ASSUME NEW n \in Messages, Outside(n), n # m
        PROVE  Outside(n)'
    BY <2>1, <2>4 DEF SmsInv, SmsTypes, Outside, sms_past
  <2>5. \A n \in Messages : n > sent' => Outside(n)'
    BY <2>1, <2>2, <2>4 DEF SmsInv, SmsTypes, OnceInv, Messages
  <2>6. \A n \in network' : n <= sent' /\ Outside(n)'
    BY <2>1, <2>4 DEF SmsInv, SmsTypes, OnceInv
  <2>7. \A n \in unread' : handled'[n] = 0
    BY <2>1, <2>2 DEF SmsInv, OnceInv, Outside, sms_past
  <2>8. \A t \in Slots : store[t] # 0 => store'[t] = store[t] /\ store[t] # m
    BY <2>1, <2>2 DEF SmsInv, SmsTypes, Outside
  <2>9. /\ main' \in {"process", "delete"} => index' \in Slots /\ store'[index'] # 0
        /\ main' = "process" => handled'[store'[index']] = 0 /\ store'[index'] \notin unread'
        /\ main' \notin {"process", "delete"} => index' = 0
        /\ SmsAtMostOnce'
    BY <2>1, <2>8 DEF SmsInv, OnceInv, loop, sms_past, SmsAtMostOnce
  <2>10. OnceInv'
    BY <2>5, <2>6, <2>7, <2>9 DEF OnceInv
  <2>11. ReadSmsIsHandled'
    BY <2>1, <2>8 DEF SmsInv, SmsTypes, ReadSmsIsHandled, TakenSlots, loop, sms_past
  <2> QED BY <2>3, <2>10, <2>11 DEF SmsInv
<1>11. CASE Restart
  <2>1. SmsTypes'
    BY <1>11 DEF Restart, SmsInv, SmsTypes, sim
  <2>2. OnceInv'
    BY <1>11 DEF Restart, SmsInv, OnceInv, Outside, SmsAtMostOnce, sim
  <2>3. ReadSmsIsHandled'
    BY <1>11 DEF Restart, SmsInv, SmsTypes, OnceInv, ReadSmsIsHandled, TakenSlots, Slots, sim
  <2> QED BY <2>1, <2>2, <2>3 DEF SmsInv
<1> QED
  BY <1>1, <1>2, <1>3, <1>4, <1>5, <1>6, <1>7, <1>8, <1>9, <1>10, <1>11 DEF Next, Main
-----------------------------------------------------------------------------
LEMMA NextInv == IInv /\ [Next]_vars => IInv'
<1> SUFFICES ASSUME IInv, [Next]_vars PROVE IInv'
  OBVIOUS
<1>1. CASE Next
  BY <1>1, AppNext, SmsNext DEF IInv, AppInv
<1>2. CASE UNCHANGED vars
  <2>1. AppInv'
    BY <1>2, AppFrame DEF vars, loop, IInv
  <2>2. SmsInv'
    BY <1>2, SmsFrame DEF vars, loop, IInv
  <2> QED BY <2>1, <2>2 DEF IInv
<1> QED BY <1>1, <1>2

(* The invariant: commands move along one chain from the app to main, only applied
   ones are acknowledged, and messages are processed between "unread" and "read". *)
THEOREM InvHolds == Spec => []IInv
<1> QED BY InitInv, NextInv, PTL DEF Spec

(* Every variable keeps its type (RemoteCommands as a whole). *)
THEOREM RemoteTypeCorrect == Spec => []TypeOK
<1> QED BY InvHolds, InvImpliesType, PTL

(* The backend forgets its pending command only when the newest command was applied,
   for any number of commands, lost fetches and late acknowledgements (app.py
   1376-1400, runtime_loop.c 2076-2110). *)
THEOREM PendingCommandSurvives == Spec => []NoCommandLost
<1>1. IInv => NoCommandLost
  BY DEF IInv, AppInv, Applied
<1> QED BY <1>1, InvHolds, PTL

(* No message is processed twice, and a slot is lost only to a failure or to a listing
   of several messages (runtime_loop.c 2373-2397, modem_hal.c 745-830). *)
THEOREM MessagesAreProcessedOnce == Spec => [](SmsAtMostOnce /\ ReadSmsIsHandled)
<1>1. IInv => SmsAtMostOnce /\ ReadSmsIsHandled
  BY DEF IInv, SmsInv, OnceInv
<1> QED BY <1>1, InvHolds, PTL

(* What main applies is the newest command the poll thread knows of, and none older
   than one applied before (runtime_loop.c 1987-2000, 2052-2074). *)
THEOREM NewestCommandIsApplied == Spec => LastCommandWins
<1> DEFINE Wins == command' \notin {0, command} => command' = newest /\ command' >= last_app
<1>1. IInv /\ [Next]_vars => [Wins]_vars
  <2> SUFFICES ASSUME IInv, Next, command' \notin {0, command}
               PROVE  command' = newest /\ command' >= last_app
    BY DEF vars
  <2>1. ApplyCommand
    BY DEF Next, Main, AppCommand, AckArrives, AckLost, FetchReads, FetchLost, FetchStores,
           Offer, NoCommand, AckSent, AckEnds, SmsNotDue, ListUnread, List, ListFails,
           ProcessSms, DeleteSms, DeleteFails, SendSms, DeliverSms, Restart, loop
  <2> QED
    BY <2>1 DEF ApplyCommand, IInv, AppInv, AppTypes, Chain
<1> QED BY <1>1, InvHolds, PTL DEF Spec, LastCommandWins
-----------------------------------------------------------------------------
(* The refinement: poll thread, mailbox and acknowledgements implement the plain
   register of module CommandRegister. *)

LEMMA RegisterStep ==
  ASSUME IInv, Next
  PROVE  Register!Next \/ UNCHANGED Register!vars
<1> USE DEF Register!vars, Register!Next
<1>1. CASE AppCommand
  BY <1>1 DEF AppCommand, Register!Give, IInv, AppInv, AppTypes, app_past
<1>2. ASSUME NEW k \in Commands, AckArrives(k)
      PROVE  Register!Next \/ UNCHANGED Register!vars
  <2>1. CASE pending_command_id = k
    <3>1. k # 0 /\ k = issued /\ k <= last_app
      BY <1>2, <2>1 DEF AckArrives, Commands, IInv, AppInv, Chain, Applied
    <3>2. last_app = issued
      BY <3>1 DEF IInv, AppInv, AppTypes, Chain
    <3> QED BY <1>2, <2>1, <3>1, <3>2 DEF AckArrives, Register!Forget, app_past
  <2>2. CASE pending_command_id # k
    BY <1>2, <2>2 DEF AckArrives, app_past
  <2> QED BY <2>1, <2>2
<1>3. CASE ApplyCommand
  <2>1. mailbox = newest
    BY <1>3 DEF ApplyCommand, IInv, AppInv, Chain
  <2> QED BY <1>3, <2>1 DEF ApplyCommand, Register!Apply, backend
<1>4. CASE FetchStores
  <2>1. newest' = fetched /\ newest <= fetched /\ fetched <= issued
    BY <1>4 DEF FetchStores, Offer, IInv, AppInv, Chain
  <2>2. newest \in Nat /\ fetched \in Nat /\ issued \in Nat
    BY BoundsAssumption DEF IInv, AppInv, AppTypes, BoundsAssumption
  <2>3. UNCHANGED <<issued, pending_command_id, last_app>>
    BY <1>4 DEF FetchStores, Offer, backend
  <2> QED BY <2>1, <2>2, <2>3 DEF Register!Learn
<1>5. CASE UNCHANGED <<issued, pending_command_id, last_app, newest>>
  BY <1>5
<1>6. ASSUME NEW k \in Commands, AckLost(k)
      PROVE  UNCHANGED <<issued, pending_command_id, last_app, newest>>
  BY <1>6 DEF AckLost
<1>7. CASE \/ FetchReads \/ FetchLost
           \/ NoCommand \/ AckSent \/ AckEnds
           \/ SmsNotDue \/ ListUnread \/ ListFails \/ ProcessSms \/ DeleteSms \/ DeleteFails
           \/ SendSms \/ DeliverSms \/ Restart
  BY <1>5, <1>7
     DEF FetchReads, FetchLost, NoCommand, AckSent, AckEnds, SmsNotDue,
         ListUnread, List, ListFails, ProcessSms, DeleteSms, DeleteFails, SendSms,
         DeliverSms, Restart, backend, app_past
<1> QED BY <1>1, <1>2, <1>3, <1>4, <1>5, <1>6, <1>7 DEF Next, Main

(* For any number of commands, lost fetches, late acknowledgements and restarts: what
   the owner sees of his commands is the register (app.py 1376-1400, runtime_loop.c
   1987-2110). *)
THEOREM RefinesCommandRegister == Spec => ImplementsCommandRegister
<1>1. Init => Register!Init
  BY DEF Init, Register!Init
<1>2. IInv /\ [Next]_vars => [Register!Next]_(Register!vars)
  <2>1. IInv /\ Next => [Register!Next]_(Register!vars)
    BY RegisterStep
  <2>2. UNCHANGED vars => UNCHANGED Register!vars
    BY DEF vars, backend, app_past, Register!vars
  <2> QED BY <2>1, <2>2
<1> QED BY <1>1, <1>2, InvHolds, PTL DEF Spec, ImplementsCommandRegister, Register!Spec
-----------------------------------------------------------------------------
(* Liveness: the row is cleared.  Whether a step is ENABLED is beyond the provers, and   *)
(* so is that a bounded counter stops: that every part can move (CommandsCanMove, which   *)
(* repeats the guards) and that commands and restarts come to an end are assumed here.    *)
(*                                                                                        *)
(* Assume a command k that stays pending.  Then every poll fetches it, a fetch reaches    *)
(* the mailbox again and again, from where main takes it, applies it and acknowledges it, *)
(* and one of these acknowledgements arrives.                                             *)

QuietNext == Next /\ ~AppCommand /\ ~Restart

Pending == pending_command_id # 0

InSms     == main = "sms"
InProcess == main = "process"
InDelete  == main = "delete"
InApp     == main = "app"
InAck     == main = "ack"
InWait    == main = "wait"

IsPending(k) == pending_command_id = k
Unfetched  == fetched = 0
Fetched(k) == fetched = k
Outdated(k) == fetched \notin {0, k}
Mailed(k)  == mailbox = k
Taken(k) == InAck /\ command = k
Acked(k)   == k \in acks

\* Main's way round.
LEMMA MainMoves ==
  ASSUME AppTypes, [QuietNext]_vars
  PROVE  /\ InSms \/ InProcess \/ InDelete \/ InApp \/ InAck \/ InWait
         /\ InSms => InSms' \/ InProcess' \/ InApp'
         /\ InProcess => InProcess' \/ InDelete'
         /\ InDelete => InDelete' \/ InApp'
         /\ InAck => InAck' \/ InWait'
         /\ InWait => InWait' \/ InSms'
<1> USE DEF InSms, InProcess, InDelete, InApp, InAck, InWait
<1>1. CASE UNCHANGED main
  BY <1>1 DEF AppTypes
<1>2. CASE Main
  BY <1>2 DEF AppTypes, Main, NoCommand, ApplyCommand, AckSent, AckEnds, SmsNotDue, ListUnread,
              List, ListFails, ProcessSms, DeleteSms, DeleteFails
<1>3. ASSUME NEW j \in Commands, AckArrives(j) \/ AckLost(j)
      PROVE  UNCHANGED main
  BY <1>3 DEF AckArrives, AckLost, loop
<1>4. CASE FetchReads \/ FetchLost \/ FetchStores \/ SendSms \/ DeliverSms
  BY <1>1, <1>4 DEF FetchReads, FetchLost, FetchStores, Offer, SendSms, DeliverSms, loop
<1>5. CASE UNCHANGED vars
  BY <1>1, <1>5 DEF vars, loop
<1> QED BY <1>1, <1>2, <1>3, <1>4, <1>5 DEF QuietNext, Next

\* Main leaves every place it is in.
LEMMA MainBrings ==
  ASSUME Main
  PROVE  /\ InSms => ~InSms'
         /\ InProcess => ~InProcess'
         /\ InDelete => ~InDelete'
         /\ InApp => ~InApp'
         /\ InAck => ~InAck'
         /\ InWait => ~InWait'
  BY DEF InSms, InProcess, InDelete, InApp, InAck, InWait, Main, NoCommand, ApplyCommand,
         AckSent, AckEnds, SmsNotDue, ListUnread, List, ListFails, ProcessSms, DeleteSms,
         DeleteFails

\* While k stays pending the poll thread reads nothing else, and what it has read of k goes
\* to the mailbox and to main.
LEMMA CommandMoves ==
  ASSUME NEW k \in Commands, AppTypes,
         IsPending(k), IsPending(k)', [QuietNext]_vars
  PROVE  /\ Unfetched => Unfetched' \/ Fetched(k)'
         /\ Fetched(k) => Fetched(k)' \/ Unfetched'
         /\ Outdated(k) => Outdated(k)' \/ Unfetched'
         /\ ~Outdated(k) /\ Mailed(k) => Mailed(k)' \/ Taken(k)'
         /\ Mailed(k) /\ InApp => InApp' \/ Taken(k)'
         /\ Taken(k) => Taken(k)' \/ Acked(k)'
<1> USE DEF IsPending, Unfetched, Fetched, Outdated, Mailed, Taken, Acked, InApp, InAck
<1>0. k # 0
  BY DEF Commands
<1>1. CASE UNCHANGED <<fetched, mailbox, main, command>>
  BY <1>0, <1>1
<1>2. CASE FetchReads
  BY <1>0, <1>2 DEF FetchReads, loop
<1>3. CASE FetchLost
  BY <1>0, <1>3 DEF FetchLost, loop
<1>4. CASE FetchStores
  BY <1>0, <1>4 DEF FetchStores, Offer, loop
<1>5. CASE ApplyCommand
  BY <1>0, <1>5 DEF ApplyCommand
<1>6. CASE AckSent
  BY <1>0, <1>6 DEF AckSent, poller
<1>7. CASE NoCommand
  BY <1>0, <1>7 DEF NoCommand, poller
<1>8. CASE \/ AckEnds \/ SmsNotDue \/ ListUnread \/ ListFails
           \/ ProcessSms \/ DeleteSms \/ DeleteFails
  <2>1. UNCHANGED <<fetched, mailbox>> /\ main \notin {"app", "ack"}
    BY <1>8 DEF AckEnds, SmsNotDue, ListUnread, List, ListFails, ProcessSms, DeleteSms,
                DeleteFails, poller
  <2> QED BY <1>0, <2>1
<1>9. ASSUME NEW j \in Commands, AckArrives(j) \/ AckLost(j)
      PROVE  UNCHANGED <<fetched, mailbox, main, command>>
  BY <1>9 DEF AckArrives, AckLost, poller, loop
<1>10. CASE SendSms \/ DeliverSms
  BY <1>1, <1>10 DEF SendSms, DeliverSms, poller, loop
<1>11. CASE UNCHANGED vars
  BY <1>1, <1>11 DEF vars, poller, loop
<1> QED
  BY <1>1, <1>2, <1>3, <1>4, <1>5, <1>6, <1>7, <1>8, <1>9, <1>10, <1>11
     DEF QuietNext, Next, Main

\* What each step under fairness brings.
LEMMA NetworkBrings ==
  ASSUME NEW k \in Commands, IsPending(k)
  PROVE  /\ FetchReads => ~Unfetched'
         /\ FetchStores => Unfetched'
         /\ FetchStores /\ ~Outdated(k) => Mailed(k)'
         /\ AckArrives(k) => ~IsPending(k)'
<1>1. k # 0
  BY DEF Commands
<1> QED
  BY <1>1 DEF FetchReads, FetchStores, Offer, AckArrives, IsPending, Unfetched, Outdated,
            Mailed

(* A command that nothing clears. *)
PendingForEver(k) ==
  []AppTypes /\ []CommandsCanMove /\ []IsPending(k) /\ [][QuietNext]_vars /\ Fairness

\* The poll thread reads k again and again (WF of reading, SF of storing).
LEMMA CommandIsFetched ==
  ASSUME NEW k \in Commands
  PROVE  PendingForEver(k) => <>[]~Outdated(k) /\ []<>Fetched(k)
<1>1. AppTypes /\ IsPending(k) /\ IsPending(k)' /\ [QuietNext]_vars =>
        /\ Unfetched => Unfetched' \/ Fetched(k)'
        /\ Fetched(k) => Fetched(k)' \/ Unfetched'
        /\ Outdated(k) => Outdated(k)' \/ Unfetched'
  BY CommandMoves
<1>2. IsPending(k) => /\ <<FetchReads>>_vars => ~Unfetched'
                      /\ <<FetchStores>>_vars => Unfetched'
  BY NetworkBrings
<1>3. /\ Unfetched \/ Fetched(k) \/ Outdated(k)
      /\ ~(Outdated(k) /\ Unfetched) /\ ~(Outdated(k) /\ Fetched(k))
  BY DEF Unfetched, Fetched, Outdated
<1>4. CommandsCanMove => /\ IsPending(k) /\ Unfetched => ENABLED <<FetchReads>>_vars
                         /\ ~Unfetched => ENABLED <<FetchStores>>_vars
  BY DEF CommandsCanMove, IsPending, Unfetched, Commands
<1>5. PendingForEver(k) => <>[]~Outdated(k)
  BY <1>1, <1>2, <1>3, <1>4, PTL DEF PendingForEver, Fairness
<1>6. PendingForEver(k) => []<>Fetched(k)
  BY <1>1, <1>2, <1>3, <1>4, <1>5, PTL DEF PendingForEver, Fairness
<1> QED BY <1>5, <1>6

\* What is stored comes to main and is acknowledged (SF of storing, WF of main).
LEMMA CommandIsAcknowledged ==
  ASSUME NEW k \in Commands
  PROVE  PendingForEver(k) => []<>Acked(k)
<1>1. AppTypes /\ [QuietNext]_vars =>
        /\ InSms \/ InProcess \/ InDelete \/ InApp \/ InAck \/ InWait
        /\ InSms => InSms' \/ InProcess' \/ InApp'
        /\ InProcess => InProcess' \/ InDelete'
        /\ InDelete => InDelete' \/ InApp'
        /\ InAck => InAck' \/ InWait'
        /\ InWait => InWait' \/ InSms'
  BY MainMoves
<1>2. <<Main>>_vars => /\ InSms => ~InSms'
                       /\ InProcess => ~InProcess'
                       /\ InDelete => ~InDelete'
                       /\ InApp => ~InApp'
                       /\ InAck => ~InAck'
                       /\ InWait => ~InWait'
  BY MainBrings
<1>3. AppTypes /\ IsPending(k) /\ IsPending(k)' /\ [QuietNext]_vars =>
        /\ ~Outdated(k) /\ Mailed(k) => Mailed(k)' \/ Taken(k)'
        /\ Mailed(k) /\ InApp => InApp' \/ Taken(k)'
        /\ Taken(k) => Taken(k)' \/ Acked(k)'
  BY CommandMoves
<1>4. IsPending(k) /\ <<FetchStores>>_vars /\ ~Outdated(k) => Mailed(k)'
  BY NetworkBrings
<1>5. CommandsCanMove => /\ ENABLED <<Main>>_vars
                         /\ Fetched(k) => ENABLED <<FetchStores>>_vars
  BY DEF CommandsCanMove, Fetched, Commands
<1>6. Taken(k) => InAck
  BY DEF Taken
<1>7. PendingForEver(k) => []<>Mailed(k)
  BY <1>4, <1>5, CommandIsFetched, PTL DEF PendingForEver, Fairness
<1>8. PendingForEver(k) => [](Taken(k) => <>Acked(k))
  BY <1>2, <1>3, <1>5, <1>6, PTL DEF PendingForEver, Fairness
<1>9. PendingForEver(k) => []<>InApp
  BY <1>1, <1>2, <1>5, PTL DEF PendingForEver, Fairness
<1>10. PendingForEver(k) => <>[](Mailed(k) => <>Taken(k))
  BY <1>2, <1>3, <1>5, <1>9, CommandIsFetched, PTL DEF PendingForEver, Fairness
<1> QED BY <1>7, <1>8, <1>10, PTL

\* One of the acknowledgements arrives (SF of each).
LEMMA NothingPendsForEver ==
  ASSUME NEW k \in Commands
  PROVE  ~PendingForEver(k)
<1>1. NetworkFairness => AckFairness(k)
  BY DEF NetworkFairness
<1>2. IsPending(k) /\ <<AckArrives(k)>>_vars => ~IsPending(k)'
  BY NetworkBrings
<1>3. CommandsCanMove /\ Acked(k) => ENABLED <<AckArrives(k)>>_vars
  BY DEF CommandsCanMove, Acked
<1> QED
  BY <1>1, <1>2, <1>3, CommandIsAcknowledged, PTL DEF PendingForEver, Fairness, AckFairness

\* Fairness towards every acknowledgement does not wear off.
LEMMA ForAllAcks ==
  ASSUME ASSUME NEW k \in Commands PROVE []AckFairness(k)
  PROVE  []NetworkFairness
<1>1. ASSUME NEW k \in Commands PROVE AckFairness(k)
  <2>1. []AckFairness(k)
    OBVIOUS
  <2> QED BY <2>1, PTL
<1>2. NetworkFairness
  BY <1>1 DEF NetworkFairness
<1> QED BY <1>2, PTL

LEMMA NetworkStaysFair == NetworkFairness => []NetworkFairness
<1> SUFFICES ASSUME NetworkFairness PROVE []NetworkFairness
  OBVIOUS
<1>1. ASSUME NEW k \in Commands PROVE []AckFairness(k)
  <2>1. AckFairness(k)
    BY DEF NetworkFairness
  <2> QED BY <2>1, PTL DEF AckFairness
<1> QED BY <1>1, ForAllAcks

(* For any number of commands: if every part of the way can take its step (CommandsCanMove),
   then after the last command and the last restart the pending command is acknowledged
   (device_command_sync.c 283-336, app.py 1376-1410), through any number of lost fetches,
   lost acknowledgements and messages in between. *)
THEOREM PendingCommandIsAcknowledged ==
  Spec /\ []CommandsCanMove /\ <>[][~AppCommand /\ ~Restart]_vars => RowIsCleared
<1>1. [Next]_vars /\ [~AppCommand /\ ~Restart]_vars => [QuietNext]_vars
  BY DEF QuietNext
<1> DEFINE Running == []AppTypes /\ []CommandsCanMove /\ [][Next]_vars /\ Fairness
           Stuck   == Running /\ []Pending /\ [][~AppCommand /\ ~Restart]_vars
<1>2. ASSUME NEW k \in Commands PROVE ~(Stuck /\ IsPending(k))
  <2>1. IsPending(k) /\ Pending' /\ [QuietNext]_vars => IsPending(k)'
    BY DEF IsPending, Pending, QuietNext, Next, Main, AckArrives, AckLost, FetchReads, FetchLost,
           FetchStores, Offer, NoCommand, ApplyCommand, AckSent, AckEnds, SmsNotDue, ListUnread,
           List, ListFails, ProcessSms, DeleteSms, DeleteFails, SendSms, DeliverSms, backend, vars
  <2>2. Stuck /\ IsPending(k) => PendingForEver(k)
    BY <1>1, <2>1, PTL DEF PendingForEver
  <2> QED BY <2>2, NothingPendsForEver
<1>3. AppTypes /\ Pending => \E k \in Commands : IsPending(k)
  BY DEF AppTypes, Pending, IsPending, Commands
<1>4. Stuck => \E k \in Commands : IsPending(k)
  BY <1>3, PTL
<1> HIDE DEF Stuck
<1>5. ~Stuck
  BY <1>2, <1>4
<1> USE DEF Stuck
<1>6. Running => []Running
  BY NetworkStaysFair, PTL DEF Fairness
<1>7. IInv => AppTypes
  BY DEF IInv, AppInv
<1>8. Spec /\ []CommandsCanMove => Running
  BY <1>7, InvHolds, PTL DEF Spec
<1>9. ~(Running /\ []Pending /\ [][~AppCommand /\ ~Restart]_vars)
  BY <1>5
<1> HIDE DEF Running, Stuck
<1>10. Running => (<>[][~AppCommand /\ ~Restart]_vars => (Pending ~> ~Pending))
  BY <1>6, <1>9, PTL
<1>11. RowIsCleared <=> (Pending ~> ~Pending)
  <2>1. ~Pending <=> pending_command_id = 0
    BY DEF Pending
  <2> QED BY <2>1, PTL DEF RowIsCleared, Pending
<1> QED BY <1>8, <1>10, <1>11, PTL
=============================================================================
