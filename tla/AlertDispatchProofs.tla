------------------------- MODULE AlertDispatchProofs -------------------------
(***************************************************************************)
(* Proofs about module AlertDispatch, for any number of contacts,          *)
(* attempts, requests and resets and any limits of a call.  Each part of   *)
(* the invariant is about one thread's half of the work: the requests on   *)
(* their way to the worker, the fan-out threads, the sequence of attempts, *)
(* what the ticks have seen of the call.                                   *)
(***************************************************************************)
EXTENDS AlertDispatch, FiniteSetTheorems, TLAPS

(* Main and the two sides of the dispatch. *)
MainType ==
  /\ main \in {"idle", "request", "tick", "reset"}
  /\ tick_elapsed \in 0 .. MAX_ELAPSED
  /\ incident \in BOOLEAN /\ sent \in BOOLEAN /\ cooled \in BOOLEAN
  /\ worker \in {"none", "wait", "taken", "checked", "fanout", "finish"}
  /\ loaded \in SUBSET Slots
  /\ pending \in BOOLEAN

(* A request is counted before it moves, and no generation is ahead of the
   current one. *)
QueueInv ==
  /\ generation \in 0 .. MAX_RESETS
  /\ request \in 0 .. generation
  /\ pending_generation \in 0 .. generation
  /\ requests \in 0 .. MAX_REQUESTS
  /\ main = "request" => requests < MAX_REQUESTS
  /\ pending \/ worker \in {"taken", "checked", "fanout", "finish"} => requests > 0

Threads == [stage : {"none", "check", "send", "done"}, generation : 0 .. MAX_RESETS,
            left : 0 .. N, late : 0 .. 1]

(* A thread that has sent a late SMS finds out at its next comparison. *)
ThreadInv(r, g) ==
  /\ r \in Threads
  /\ r.generation <= g
  /\ r.stage \in {"check", "send"} => r.left > 0
  /\ r.stage = "send" => r.late = 0
  /\ r.late = 1 => r.stage = "done" \/ r.generation < g

SmsInv ==
  /\ sms \in [1 .. MAX_REQUESTS -> Threads]
  /\ \A k \in 1 .. MAX_REQUESTS : ThreadInv(sms[k], generation)

EscalationType ==
  /\ escalation_state \in ActiveStates \cup {"IDLE", "ANSWERED", "DONE"}
  /\ contacts \in SUBSET Slots
  /\ contact \in 1 .. N + 1
  /\ attempt \in 0 .. ATTEMPTS - 1
  /\ dials \in [Slots -> 0 .. ATTEMPTS]
  /\ escalation_generation \in 0 .. generation
  /\ escalation_state \in OnCall \cup {"ANSWERED"} => contact \in contacts
  /\ call \in 0 .. N
  /\ call_status \in {"IDLE", "DIALING", "ACTIVE", "ENDED"}

(* What the attempts spent on each slot are when the next one is a of contact c. *)
Spent(todo, c, a, d) ==
  \A x \in Slots :
    d[x] = IF x \notin todo \/ x > c THEN 0
           ELSE IF x < c THEN ATTEMPTS ELSE a

OfTheCall == IF escalation_state \in OnCall \cup {"ANSWERED"} THEN 1 ELSE 0

Sights == [first : {"not", "fast", "slow"}, last : BOOLEAN,
           connected : 0 .. ANSWER_CONFIRM, lapse : 0 .. MAX_ELAPSED]

(* The marks of the attempt say how the call was first seen connected; the time counted
   towards the answer has been seen, but for the pass of a comeback, and begins anew
   when the call rings again. *)
TimingInv ==
  /\ attempt_elapsed \in 0 .. ATTEMPT_TIMEOUT
  /\ active_elapsed \in 0 .. ANSWER_CONFIRM
  /\ gap_elapsed \in 0 .. RETRY_GAP
  /\ active_seen \in BOOLEAN /\ fast_active \in BOOLEAN
  /\ seen \in Sights
  /\ escalation_state \in OnCall =>
       /\ active_seen <=> seen.first # "not"
       /\ fast_active <=> seen.first = "fast"
       /\ seen.first = "slow" => active_elapsed <= seen.connected + seen.lapse
       /\ seen.first = "slow" /\ ~seen.last => active_elapsed = 0

IInv ==
  /\ MainType /\ QueueInv /\ SmsInv /\ EscalationType
  /\ Spent(contacts, contact, attempt + OfTheCall, dials)
  /\ TimingInv
  /\ CallMatchesEscalation
  /\ AnswerPassedVoicemailGuard
-----------------------------------------------------------------------------
(* The queue, the worker and the fan-out threads. *)

(* The actions that neither dial, hang up nor move the escalation. *)
Elsewhere ==
  \/ TriggerInCooldown \/ TriggerAlarm \/ RequestWorker \/ ResetWorker
  \/ TakeRequest \/ CheckGeneration \/ StartFanout \/ WorkerDone
  \/ \E k \in 1 .. MAX_REQUESTS : FanoutChecks(k) \/ FanoutSends(k)

LEMMA ElsewhereUnchanged == Elsewhere => UNCHANGED <<escalation, modem>>
  BY DEF Elsewhere, TriggerInCooldown, TriggerAlarm, RequestWorker, ResetWorker,
         TakeRequest, CheckGeneration, StartFanout, WorkerDone, FanoutChecks, FanoutSends

LEMMA NextCases ==
  Next => \/ Elsewhere
          \/ ResetEscalation \/ ModemTick \/ StartEscalation
          \/ TickQuiet \/ GapContinues \/ GapEnds
          \/ CallAnswered \/ CallContinues \/ CallUnanswered
  BY DEF Next, Elsewhere, DispatchTick, Worker

LEMMA MainNext ==
  ASSUME MainType, Next
  PROVE  MainType'
<1> USE DispatchAssumption DEF DispatchAssumption, MainType, alarm, queue
<1>1. CASE TriggerInCooldown \/ TriggerAlarm
  BY <1>1 DEF TriggerInCooldown, TriggerAlarm, Dispatched
<1>2. CASE RequestWorker \/ ResetWorker \/ ResetEscalation
  BY <1>2 DEF RequestWorker, Dispatched, ResetWorker, ResetEscalation
<1>3. CASE ModemTick
  BY <1>3 DEF ModemTick
<1>4. CASE DispatchTick
  <2>1. TickEnds
    BY <1>4 DEF DispatchTick, TickQuiet, GapContinues, GapEnds, CallAnswered,
                CallContinues, CallUnanswered
  <2>2. cooled' \in BOOLEAN
    BY <2>1 DEF TickEnds
  <2> QED BY <2>1, <2>2 DEF TickEnds
<1>5. CASE TakeRequest \/ StartFanout \/ WorkerDone
  BY <1>5 DEF TakeRequest, StartFanout, Finishes, WorkerDone
<1>6. CASE CheckGeneration
  BY <1>6 DEF CheckGeneration, Finishes
<1>7. CASE StartEscalation
  BY <1>7 DEF StartEscalation, Finishes
<1>8. ASSUME NEW k \in 1 .. MAX_REQUESTS, FanoutChecks(k) \/ FanoutSends(k)
      PROVE  MainType'
  BY <1>8 DEF FanoutChecks, FanoutSends
<1> QED
  BY <1>1, <1>2, <1>3, <1>4, <1>5, <1>6, <1>7, <1>8 DEF Next, Worker

LEMMA QueueNext ==
  ASSUME MainType, QueueInv, Next
  PROVE  QueueInv'
<1> USE DispatchAssumption DEF DispatchAssumption, QueueInv, queue
<1>1. CASE TriggerInCooldown \/ TriggerAlarm
  BY <1>1 DEF TriggerInCooldown, TriggerAlarm
<1>2. CASE RequestWorker \/ ResetWorker \/ ResetEscalation
  BY <1>2 DEF RequestWorker, ResetWorker, ResetEscalation, MainType
<1>3. CASE ModemTick
  BY <1>3 DEF ModemTick
<1>4. CASE DispatchTick
  BY <1>4 DEF DispatchTick, TickEnds, TickQuiet, GapContinues, GapEnds, CallAnswered,
              CallContinues, CallUnanswered
<1>5. CASE Worker
  BY <1>5 DEF Worker, TakeRequest, CheckGeneration, StartEscalation, StartFanout, Finishes,
              WorkerDone
<1>6. ASSUME NEW k \in 1 .. MAX_REQUESTS, FanoutChecks(k) \/ FanoutSends(k)
      PROVE  QueueInv'
  BY <1>6 DEF FanoutChecks, FanoutSends
<1> QED BY <1>1, <1>2, <1>3, <1>4, <1>5, <1>6 DEF Next

(* A step of one fan-out thread. *)
LEMMA ThreadSteps ==
  ASSUME SmsInv, NEW k \in 1 .. MAX_REQUESTS, NEW r, ThreadInv(r, generation),
         sms' = [sms EXCEPT ![k] = r], generation' = generation
  PROVE  SmsInv'
<1>1. sms' \in [1 .. MAX_REQUESTS -> Threads]
  BY DEF SmsInv, ThreadInv
<1>2. \A j \in 1 .. MAX_REQUESTS : ThreadInv(sms'[j], generation')
  BY DEF SmsInv
<1> QED BY <1>1, <1>2 DEF SmsInv, ThreadInv, Threads

(* A thread that has come to its end. *)
LEMMA DoneThread ==
  ASSUME QueueInv, NEW late \in 0 .. 1
  PROVE  ThreadInv(FannedOut(late), generation)
  BY DispatchAssumption DEF DispatchAssumption, QueueInv, ThreadInv, Threads, FannedOut

LEMMA SmsNext ==
  ASSUME MainType, QueueInv, SmsInv, Next
  PROVE  SmsInv'
<1> USE DispatchAssumption DEF DispatchAssumption
<1>1. ASSUME NEW k \in 1 .. MAX_REQUESTS, FanoutChecks(k)
      PROVE  SmsInv'
  <2>1. ThreadInv(sms[k], generation) /\ sms[k].stage = "check" /\ generation' = generation
    BY <1>1 DEF FanoutChecks, SmsInv
  <2>2. CASE sms[k].generation = generation
    <3> DEFINE r == [sms[k] EXCEPT !.stage = "send"]
    <3>1. sms' = [sms EXCEPT ![k] = r]
      BY <1>1, <2>2 DEF FanoutChecks, SmsInv
    <3>2. r \in Threads /\ r.stage = "send" /\ r.left = sms[k].left
          /\ r.generation = sms[k].generation /\ r.late = sms[k].late
      BY <2>1 DEF ThreadInv, Threads
    <3>3. ThreadInv(r, generation)
      BY <2>1, <2>2, <3>2 DEF ThreadInv, Threads
    <3> QED BY <2>1, <3>1, <3>3, ThreadSteps
  <2>3. CASE sms[k].generation # generation
    <3>1. sms' = [sms EXCEPT ![k] = FannedOut(sms[k].late)]
      BY <1>1, <2>3 DEF FanoutChecks, SmsInv
    <3>2. sms[k].late \in 0 .. 1
      BY <2>1 DEF ThreadInv, Threads
    <3> QED BY <2>1, <3>1, <3>2, DoneThread, ThreadSteps
  <2> QED BY <2>2, <2>3
<1>2. ASSUME NEW k \in 1 .. MAX_REQUESTS, FanoutSends(k)
      PROVE  SmsInv'
  <2> DEFINE late == sms[k].late + (IF sms[k].generation = generation THEN 0 ELSE 1)
             r == [stage |-> "check", generation |-> sms[k].generation,
                   left |-> sms[k].left - 1, late |-> late]
  <2>1. ThreadInv(sms[k], generation) /\ sms[k].stage = "send" /\ generation' = generation
    BY <1>2 DEF FanoutSends, SmsInv
  <2>2. /\ sms[k].left = 1 => sms' = [sms EXCEPT ![k] = FannedOut(late)]
        /\ sms[k].left # 1 => sms' = [sms EXCEPT ![k] = r]
    BY <1>2 DEF FanoutSends, SmsInv
  <2>3. sms[k].left \in 1 .. N /\ sms[k].late = 0 /\ generation \in Nat
        /\ sms[k].generation \in 0 .. MAX_RESETS /\ sms[k].generation <= generation
    BY <2>1 DEF ThreadInv, Threads, QueueInv
  <2>4. late \in 0 .. 1 /\ (late = 1 => sms[k].generation < generation)
    BY <2>3
  <2> HIDE DEF late
  <2>5. CASE sms[k].left = 1
    BY <2>1, <2>2, <2>4, <2>5, DoneThread, ThreadSteps
  <2>6. CASE sms[k].left # 1
    <3>1. sms[k].left - 1 \in 1 .. N
      BY <2>3, <2>6
    <3>2. ThreadInv(r, generation)
      BY <2>3, <2>4, <3>1 DEF ThreadInv, Threads
    <3>3. sms' = [sms EXCEPT ![k] = r]
      BY <2>2, <2>6
    <3> HIDE DEF r
    <3> QED BY <2>1, <3>2, <3>3, ThreadSteps
  <2> QED BY <2>5, <2>6
<1>3. CASE StartFanout
  <2> DEFINE r == [stage |-> "check", generation |-> request,
                   left |-> Cardinality(loaded), late |-> 0]
  <2>1. requests \in 1 .. MAX_REQUESTS /\ request \in 0 .. MAX_RESETS /\ request <= generation
        /\ generation' = generation
    BY <1>3 DEF StartFanout, QueueInv
  <2>2. CASE sms' = [sms EXCEPT ![requests] = r] /\ loaded # {}
    <3>1. Cardinality(loaded) \in 1 .. N
      <4>1. IsFiniteSet(Slots) /\ Cardinality(Slots) = N
        BY FS_Interval DEF Slots
      <4>2. IsFiniteSet(loaded) /\ Cardinality(loaded) <= N
        BY <4>1, FS_Subset DEF MainType
      <4>3. Cardinality(loaded) # 0
        BY <2>2, <4>2, FS_EmptySet
      <4> QED BY <4>2, <4>3, FS_CardinalityType
    <3>2. ThreadInv(r, generation)
      BY <2>1, <3>1 DEF ThreadInv, Threads
    <3> QED BY <2>1, <2>2, <3>2, ThreadSteps
  <2>3. CASE sms' = [sms EXCEPT ![requests] = FannedOut(0)]
    <3>1. ThreadInv(FannedOut(0), generation)
      BY DoneThread
    <3> QED BY <2>1, <2>3, <3>1, ThreadSteps
  <2>4. CASE UNCHANGED sms
    BY <2>1, <2>4 DEF SmsInv, ThreadInv
  <2>5. \/ sms' = sms
        \/ loaded # {} /\ sms' = [sms EXCEPT ![requests] = r]
        \/ loaded = {} /\ sms' = [sms EXCEPT ![requests] = FannedOut(0)]
    BY <1>3 DEF StartFanout
  <2> QED BY <2>2, <2>3, <2>4, <2>5
<1>4. CASE ResetWorker
  <2>1. generation' = generation + 1 /\ sms' = sms /\ generation \in Nat
    BY <1>4 DEF ResetWorker, QueueInv
  <2>2. ASSUME NEW k \in 1 .. MAX_REQUESTS
        PROVE  ThreadInv(sms[k], generation + 1)
    BY <2>1 DEF SmsInv, ThreadInv, Threads
  <2> QED BY <2>1, <2>2 DEF SmsInv, ThreadInv, Threads
<1>5. CASE UNCHANGED <<sms, generation>>
  BY <1>5 DEF SmsInv, ThreadInv, Threads
<1> QED
  BY <1>1, <1>2, <1>3, <1>4, <1>5
  DEF Next, DispatchTick, Worker, TriggerInCooldown, TriggerAlarm, RequestWorker,
      ResetEscalation, ModemTick, TickEnds, TickQuiet, GapContinues, GapEnds, CallAnswered,
      CallContinues, CallUnanswered, TakeRequest, CheckGeneration, StartEscalation, WorkerDone
-----------------------------------------------------------------------------
(* The sequence of attempts. *)

(* What an attempt leaves behind, wherever the sequence stood before it. *)
LEMMA AttemptStarts ==
  ASSUME NEW todo \in SUBSET Slots, NEW c0 \in 1 .. N + 1, NEW a0 \in 0 .. ATTEMPTS - 1,
         NEW spent \in [Slots -> 0 .. ATTEMPTS], Spent(todo, c0, a0, spent),
         StartAttempt(todo, c0, a0, spent)
  PROVE  /\ escalation_state' \in {"WAITING", "RETRY_GAP", "DONE"}
         /\ contact' \in 1 .. N + 1
         /\ attempt' \in 0 .. ATTEMPTS - 1
         /\ dials' \in [Slots -> 0 .. ATTEMPTS]
         /\ Spent(todo, contact', (attempt + OfTheCall)', dials')
         /\ \/ escalation_state' = "WAITING" /\ call' = contact' /\ call' \in Slots
               /\ call_status' = "DIALING" /\ contact' \in todo
            \/ escalation_state' # "WAITING" /\ call' = 0 /\ call_status' = "IDLE"
<1> USE DispatchAssumption DEF DispatchAssumption, Slots
<1>1. CASE {c \in todo : c >= c0} = {} /\ escalation_state' = "DONE" /\ contact' = N + 1
           /\ attempt' = 0 /\ dials' = spent /\ call' = 0 /\ call_status' = "IDLE"
  <2>1. \A x \in Slots : x \in todo => x < c0
    BY <1>1
  <2> QED BY <1>1, <2>1 DEF Spent, OfTheCall, OnCall
<1>2. ASSUME NEW c \in todo, c >= c0, \A d \in todo : d >= c0 => c <= d,
             NEW a, a = IF c = c0 THEN a0 ELSE 0,
             dials' = [spent EXCEPT ![c] = @ + 1],
             \/ /\ escalation_state' = "WAITING" /\ contact' = c /\ attempt' = a
                /\ call' = c /\ call_status' = "DIALING"
             \/ /\ escalation_state' = "RETRY_GAP" /\ NextAttempt(c, a)
                /\ call' = 0 /\ call_status' = "IDLE"
      PROVE  /\ escalation_state' \in {"WAITING", "RETRY_GAP", "DONE"}
             /\ contact' \in 1 .. N + 1
             /\ attempt' \in 0 .. ATTEMPTS - 1
             /\ dials' \in [Slots -> 0 .. ATTEMPTS]
             /\ Spent(todo, contact', (attempt + OfTheCall)', dials')
             /\ \/ escalation_state' = "WAITING" /\ call' = contact' /\ call' \in Slots
                   /\ call_status' = "DIALING" /\ contact' \in todo
                \/ escalation_state' # "WAITING" /\ call' = 0 /\ call_status' = "IDLE"
  <2>1. c \in Slots /\ a \in 0 .. ATTEMPTS - 1 /\ spent[c] = a
    BY <1>2 DEF Spent
  <2>2. dials' \in [Slots -> 0 .. ATTEMPTS] /\ dials'[c] = a + 1
        /\ \A x \in Slots : x # c => dials'[x] = spent[x]
    BY <1>2, <2>1
  <2>3. \A x \in Slots : x # c => dials'[x] = IF x \notin todo \/ x > c THEN 0 ELSE ATTEMPTS
    BY <1>2, <2>1, <2>2 DEF Spent
  <2>4. CASE escalation_state' = "WAITING"
    <3>1. Spent(todo, contact', (attempt + OfTheCall)', dials')
      BY <1>2, <2>1, <2>2, <2>3, <2>4 DEF Spent, OfTheCall, OnCall
    <3> QED BY <1>2, <2>1, <2>2, <2>4, <3>1
  <2>5. CASE escalation_state' = "RETRY_GAP"
    <3>1. contact' \in 1 .. N + 1 /\ attempt' \in 0 .. ATTEMPTS - 1
      BY <1>2, <2>1, <2>5 DEF NextAttempt
    <3>2. Spent(todo, contact', (attempt + OfTheCall)', dials')
      BY <1>2, <2>1, <2>2, <2>3, <2>5 DEF Spent, OfTheCall, OnCall, NextAttempt
    <3> QED BY <1>2, <2>2, <2>5, <3>1, <3>2
  <2> QED BY <1>2, <2>4, <2>5
<1> QED BY <1>1, <1>2 DEF StartAttempt

(* The steps that move the sequence keep the count of the attempts. *)
LEMMA SequenceNext ==
  ASSUME MainType, QueueInv, EscalationType,
         Spent(contacts, contact, attempt + OfTheCall, dials), Next
  PROVE  EscalationType' /\ Spent(contacts, contact, attempt + OfTheCall, dials)'
<1> USE DispatchAssumption DEF DispatchAssumption, escalation, plan, modem
<1>0. generation \in Nat /\ generation' \in Nat /\ generation <= generation'
  <2>1. QueueInv'
    BY QueueNext
  <2>2. generation' \in {generation, generation + 1}
    BY DEF Next, Worker, DispatchTick, TriggerInCooldown, TriggerAlarm, RequestWorker,
           ResetWorker, ResetEscalation, ModemTick, TickEnds, TickQuiet, GapContinues,
           GapEnds, CallAnswered, CallContinues, CallUnanswered, TakeRequest,
           CheckGeneration, StartEscalation, StartFanout, WorkerDone, FanoutChecks,
           FanoutSends
  <2> QED BY <2>1, <2>2 DEF QueueInv
<1>1. CASE UNCHANGED <<escalation, modem>>
  BY <1>0, <1>1 DEF EscalationType, Spent, OfTheCall
<1>2. CASE ResetEscalation
  BY <1>0, <1>2
  DEF ResetEscalation, ClearEscalation, Hangup, EscalationType, Spent, OfTheCall, OnCall, Slots
<1>3. CASE ModemTick
  BY <1>0, <1>3 DEF ModemTick, EscalationType, Spent, OfTheCall
<1>4. CASE StartEscalation
  <2>1. CASE escalation_state \in ActiveStates
    BY <1>1, <1>4, <2>1 DEF StartEscalation
  <2>2. CASE escalation_state \notin ActiveStates
    <3> DEFINE none == [c \in Slots |-> 0]
    <3>1. StartAttempt(loaded, 1, 0, none) /\ contacts' = loaded
          /\ escalation_generation' = request
      BY <1>4, <2>2 DEF StartEscalation
    <3>2. none \in [Slots -> 0 .. ATTEMPTS] /\ Spent(loaded, 1, 0, none)
          /\ 1 \in 1 .. N + 1 /\ 0 \in 0 .. ATTEMPTS - 1 /\ loaded \in SUBSET Slots
      BY DEF Spent, Slots, MainType
    <3> HIDE DEF none
    <3>3. /\ escalation_state' \in {"WAITING", "RETRY_GAP", "DONE"}
          /\ contact' \in 1 .. N + 1 /\ attempt' \in 0 .. ATTEMPTS - 1
          /\ dials' \in [Slots -> 0 .. ATTEMPTS]
          /\ Spent(loaded, contact', (attempt + OfTheCall)', dials')
          /\ call' \in Slots \cup {0} /\ call_status' \in {"IDLE", "DIALING"}
          /\ escalation_state' = "WAITING" => contact' \in loaded
      BY <3>1, <3>2, AttemptStarts
    <3>4. escalation_generation' \in 0 .. generation'
      BY <1>0, <3>1 DEF QueueInv
    <3>5. call' \in 0 .. N
      BY <3>3 DEF Slots
    <3>6. escalation_state' \in ActiveStates \cup {"IDLE", "ANSWERED", "DONE"}
          /\ (escalation_state' \in OnCall \cup {"ANSWERED"} => contact' \in loaded)
      BY <3>3 DEF ActiveStates, OnCall
    <3>7. EscalationType'
      BY <3>1, <3>2, <3>3, <3>4, <3>5, <3>6 DEF EscalationType
    <3> QED BY <3>1, <3>3, <3>7 DEF Spent
  <2> QED BY <2>1, <2>2
<1>5. CASE TickQuiet
  BY <1>1, <1>5 DEF TickQuiet
<1>6. CASE GapContinues
  BY <1>0, <1>6 DEF GapContinues, Hangup, EscalationType, Spent, OfTheCall, OnCall
<1>7. CASE GapEnds
  <2>1. StartAttempt(contacts, contact, attempt, dials)
        /\ UNCHANGED <<contacts, escalation_generation>>
    BY <1>7 DEF GapEnds
  <2>2. OfTheCall = 0
    BY <1>7 DEF GapEnds, OfTheCall, OnCall
  <2>3. Spent(contacts, contact, attempt, dials)
    BY <2>2 DEF EscalationType
  <2>4. /\ escalation_state' \in {"WAITING", "RETRY_GAP", "DONE"}
        /\ contact' \in 1 .. N + 1 /\ attempt' \in 0 .. ATTEMPTS - 1
        /\ dials' \in [Slots -> 0 .. ATTEMPTS]
        /\ Spent(contacts, contact', (attempt + OfTheCall)', dials')
        /\ call' \in Slots \cup {0} /\ call_status' \in {"IDLE", "DIALING"}
        /\ escalation_state' = "WAITING" => contact' \in contacts
    BY <2>1, <2>3, AttemptStarts DEF EscalationType
  <2>5. call' \in 0 .. N
    BY <2>4 DEF Slots
  <2>6. escalation_state' \in ActiveStates \cup {"IDLE", "ANSWERED", "DONE"}
        /\ (escalation_state' \in OnCall \cup {"ANSWERED"} => contact' \in contacts)
    BY <2>4 DEF ActiveStates, OnCall
  <2>7. EscalationType'
    BY <1>0, <2>1, <2>4, <2>5, <2>6 DEF EscalationType
  <2> QED BY <2>1, <2>4, <2>7 DEF Spent
<1>8. CASE CallAnswered \/ CallContinues
  <2>1. UNCHANGED <<plan, modem>> /\ OfTheCall' = OfTheCall
        /\ escalation_state \in OnCall /\ escalation_state' \in OnCall \cup {"ANSWERED"}
    BY <1>8 DEF CallAnswered, CallContinues, OfTheCall, OnCall
  <2> QED BY <1>0, <2>1 DEF EscalationType, Spent, ActiveStates
<1>9. CASE CallUnanswered
  <2>1. OfTheCall = 1 /\ OfTheCall' = 0 /\ escalation_state' = "RETRY_GAP"
    BY <1>9 DEF CallUnanswered, OfTheCall, OnCall
  <2>3. contact \in Slots
    BY <1>9 DEF CallUnanswered, EscalationType
  <2>4. EscalationType'
    <3>1. contact' \in 1 .. N + 1 /\ attempt' \in 0 .. ATTEMPTS - 1
      BY <1>9, <2>3 DEF CallUnanswered, NextAttempt, EscalationType, Slots
    <3>2. /\ UNCHANGED <<contacts, dials, escalation_generation>>
          /\ call' = 0 /\ call_status' = "IDLE"
      BY <1>9 DEF CallUnanswered, Hangup
    <3> QED BY <1>0, <2>1, <3>1, <3>2 DEF EscalationType, ActiveStates, OnCall
  <2>5. Spent(contacts, contact, attempt + OfTheCall, dials)'
    BY <1>9, <2>1, <2>3 DEF CallUnanswered, NextAttempt, Spent, EscalationType, Slots
  <2> QED BY <2>4, <2>5
<1> QED
  BY <1>1, <1>2, <1>3, <1>4, <1>5, <1>6, <1>7, <1>8, <1>9, NextCases, ElsewhereUnchanged

(* The call that the escalation watches, and its contact. *)
LEMMA CallNext ==
  ASSUME MainType, QueueInv, EscalationType, CallMatchesEscalation,
         Spent(contacts, contact, attempt + OfTheCall, dials), Next
  PROVE  CallMatchesEscalation'
<1> USE DispatchAssumption DEF DispatchAssumption, CallMatchesEscalation, escalation, plan, modem
<1>1. CASE UNCHANGED <<escalation, modem>>
  BY <1>1
<1>2. CASE ResetEscalation
  BY <1>2 DEF ResetEscalation, ClearEscalation, Hangup, OnCall
<1>3. CASE ModemTick
  BY <1>3 DEF ModemTick
<1>4. CASE StartEscalation
  <2>1. CASE escalation_state \in ActiveStates
    BY <1>1, <1>4, <2>1 DEF StartEscalation
  <2>2. CASE escalation_state \notin ActiveStates
    <3> DEFINE none == [c \in Slots |-> 0]
    <3>1. StartAttempt(loaded, 1, 0, none)
      BY <1>4, <2>2 DEF StartEscalation
    <3>2. none \in [Slots -> 0 .. ATTEMPTS] /\ Spent(loaded, 1, 0, none)
          /\ 1 \in 1 .. N + 1 /\ 0 \in 0 .. ATTEMPTS - 1 /\ loaded \in SUBSET Slots
      BY DEF Spent, Slots, MainType
    <3> HIDE DEF none
    <3>3. \/ escalation_state' = "WAITING" /\ call' = contact' /\ call' \in Slots
          \/ escalation_state' \in {"RETRY_GAP", "DONE"} /\ call' = 0
      BY <3>1, <3>2, AttemptStarts
    <3> QED BY <3>3 DEF OnCall, Slots
  <2> QED BY <2>1, <2>2
<1>5. CASE TickQuiet
  BY <1>1, <1>5 DEF TickQuiet
<1>6. CASE GapContinues
  BY <1>6 DEF GapContinues, Hangup, OnCall
<1>7. CASE GapEnds
  <2>1. StartAttempt(contacts, contact, attempt, dials)
    BY <1>7 DEF GapEnds
  <2>2. OfTheCall = 0
    BY <1>7 DEF GapEnds, OfTheCall, OnCall
  <2>3. Spent(contacts, contact, attempt, dials)
    BY <2>2 DEF EscalationType
  <2>4. \/ escalation_state' = "WAITING" /\ call' = contact' /\ call' \in Slots
        \/ escalation_state' \in {"RETRY_GAP", "DONE"} /\ call' = 0
    BY <2>1, <2>3, AttemptStarts DEF EscalationType
  <2> QED BY <2>4 DEF OnCall, Slots
<1>8. CASE CallAnswered
  BY <1>8 DEF CallAnswered, OnCall
<1>9. CASE CallContinues
  <2>1. call_status # "ENDED" /\ escalation_state \in OnCall /\ UNCHANGED <<plan, modem>>
        /\ escalation_state' \in OnCall
    BY <1>9 DEF CallContinues, Unanswered, OnCall
  <2> QED BY <2>1
<1>10. CASE CallUnanswered
  BY <1>10 DEF CallUnanswered, Hangup, OnCall
<1> QED
  BY <1>1, <1>2, <1>3, <1>4, <1>5, <1>6, <1>7, <1>8, <1>9, <1>10, NextCases, ElsewhereUnchanged
-----------------------------------------------------------------------------
(* The clock of the attempt. *)

LEMMA Saturates ==
  ASSUME NEW limit \in Nat, NEW now \in 0 .. limit, NEW elapsed \in Nat
  PROVE  /\ SaturatingAdd(now, elapsed, limit) \in 0 .. limit
         /\ SaturatingAdd(now, elapsed, limit) >= now
         /\ SaturatingAdd(now, elapsed, limit) <= now + elapsed
         /\ SaturatingAdd(now, elapsed, limit) = now + elapsed
            \/ SaturatingAdd(now, elapsed, limit) = limit
  BY DEF SaturatingAdd

(* What one tick adds to what has been seen of the call. *)
LEMMA SightFacts ==
  ASSUME MainType, TimingInv
  PROVE  /\ Sight \in Sights
         /\ Sight.first = IF seen.first # "not" THEN seen.first
                          ELSE IF ~IsActive THEN "not"
                          ELSE IF AttemptTime < SUSPECT THEN "fast" ELSE "slow"
         /\ escalation_state \in OnCall /\ seen.first = "slow" /\ IsActive =>
              Sight.last /\ ActiveTime <= Sight.connected + Sight.lapse
<1> USE DispatchAssumption DEF DispatchAssumption
<1>1. /\ tick_elapsed \in 0 .. MAX_ELAPSED /\ MAX_ELAPSED \in Nat /\ ANSWER_CONFIRM \in Nat
      /\ active_elapsed \in 0 .. ANSWER_CONFIRM
      /\ seen.connected \in 0 .. ANSWER_CONFIRM /\ seen.lapse \in 0 .. MAX_ELAPSED
      /\ seen.first \in {"not", "fast", "slow"} /\ seen \in Sights
  BY DEF MainType, TimingInv, Sights
<1>2. NotSeen \in Sights /\ NotSeen.first = "not"
  BY DEF NotSeen, Sights
<1> DEFINE saturated == SaturatingAdd(seen.connected, tick_elapsed, ANSWER_CONFIRM)
<1>3. /\ saturated \in 0 .. ANSWER_CONFIRM
      /\ saturated = seen.connected + tick_elapsed \/ saturated = ANSWER_CONFIRM
  <2>1. seen.connected \in 0 .. ANSWER_CONFIRM /\ tick_elapsed \in Nat /\ ANSWER_CONFIRM \in Nat
    BY <1>1
  <2> QED BY <2>1, Saturates
<1>4. ActiveTime <= ANSWER_CONFIRM /\ ActiveTime <= active_elapsed + tick_elapsed
      /\ ActiveTime \in Nat
  <2>1. active_elapsed \in 0 .. ANSWER_CONFIRM /\ tick_elapsed \in Nat /\ ANSWER_CONFIRM \in Nat
    BY <1>1
  <2>2. ActiveTime \in 0 .. ANSWER_CONFIRM /\ ActiveTime <= active_elapsed + tick_elapsed
    BY <2>1, Saturates DEF ActiveTime
  <2> QED BY <2>1, <2>2
<1> HIDE DEF saturated
<1>5. CASE seen.first = "not"
  <2>1. Sight = IF IsActive
                  THEN [NotSeen EXCEPT !.first = IF AttemptTime < SUSPECT THEN "fast" ELSE "slow",
                                       !.last = TRUE]
                  ELSE seen
    BY <1>5 DEF Sight
  <2> QED BY <1>1, <1>2, <1>5, <2>1 DEF Sights
<1>6. CASE seen.first = "fast"
  <2>1. Sight = seen
    BY <1>6 DEF Sight
  <2> QED BY <1>1, <1>6, <2>1
<1>7. CASE seen.first = "slow" /\ ~IsActive
  <2>1. Sight = [NotSeen EXCEPT !.first = "slow"]
    BY <1>7 DEF Sight
  <2> QED BY <1>2, <1>7, <2>1 DEF Sights
<1>8. CASE seen.first = "slow" /\ IsActive /\ ~seen.last
  <2>1. Sight = [seen EXCEPT !.last = TRUE, !.lapse = tick_elapsed]
    BY <1>8 DEF Sight
  <2>2. Sight \in Sights /\ Sight.first = "slow" /\ Sight.last
        /\ Sight.connected = seen.connected /\ Sight.lapse = tick_elapsed
    BY <1>1, <1>8, <2>1 DEF Sights
  <2>3. escalation_state \in OnCall => active_elapsed = 0
    BY <1>8 DEF TimingInv
  <2> QED BY <1>1, <1>4, <1>8, <2>2, <2>3
<1>9. CASE seen.first = "slow" /\ IsActive /\ seen.last
  <2>1. Sight = [seen EXCEPT !.connected = saturated]
    BY <1>9 DEF Sight, saturated
  <2>2. Sight \in Sights /\ Sight.first = "slow" /\ Sight.last
        /\ Sight.connected = saturated /\ Sight.lapse = seen.lapse
    BY <1>1, <1>3, <1>9, <2>1 DEF Sights
  <2>3. escalation_state \in OnCall => active_elapsed <= seen.connected + seen.lapse
    BY <1>9 DEF TimingInv
  <2> QED BY <1>1, <1>3, <1>4, <1>9, <2>2, <2>3
<1> QED BY <1>1, <1>5, <1>6, <1>7, <1>8, <1>9

LEMMA TimingNext ==
  ASSUME MainType, TimingInv, AnswerPassedVoicemailGuard, Next
  PROVE  TimingInv' /\ AnswerPassedVoicemailGuard'
<1> USE DispatchAssumption DEF DispatchAssumption, escalation, timing
<1>0. /\ AttemptTime \in 0 .. ATTEMPT_TIMEOUT
      /\ ActiveTime \in 0 .. ANSWER_CONFIRM
      /\ Gap \in 0 .. RETRY_GAP
  <2>1. tick_elapsed \in Nat /\ active_elapsed \in Nat /\ attempt_elapsed \in Nat
    BY DEF MainType, TimingInv
  <2> QED BY <2>1, Saturates DEF AttemptTime, ActiveTime, Gap, TimingInv
<1>1. CASE UNCHANGED escalation
  BY <1>1 DEF TimingInv, AnswerPassedVoicemailGuard
<1>2. CASE ResetTiming /\ escalation_state' # "ANSWERED"
  <2>1. /\ attempt_elapsed' = 0 /\ active_elapsed' = 0 /\ gap_elapsed' = 0
        /\ active_seen' = FALSE /\ fast_active' = FALSE /\ seen' = NotSeen
    BY <1>2 DEF ResetTiming, ClearTiming
  <2>2. /\ active_seen' \in BOOLEAN /\ fast_active' \in BOOLEAN
        /\ ~active_seen' /\ ~fast_active'
    BY <2>1, Zenon
  <2>3. seen' \in Sights /\ seen'.first = "not"
    BY <2>1 DEF NotSeen, Sights
  <2>4. attempt_elapsed' \in 0 .. ATTEMPT_TIMEOUT /\ active_elapsed' \in 0 .. ANSWER_CONFIRM
        /\ gap_elapsed' \in 0 .. RETRY_GAP
    BY <2>1
  <2>5. "not" # "fast" /\ "not" # "slow"
    OBVIOUS
  <2>6. TimingInv'
    BY <2>2, <2>3, <2>4, <2>5, Zenon DEF TimingInv
  <2> QED BY <1>2, <2>6 DEF AnswerPassedVoicemailGuard
<1>3. CASE ResetEscalation
  BY <1>2, <1>3 DEF ResetEscalation, ClearEscalation
<1>4. CASE StartEscalation
  BY <1>1, <1>2, <1>4 DEF StartEscalation, StartAttempt
<1>5. CASE GapContinues
  BY <1>0, <1>5 DEF GapContinues, TimingInv, AnswerPassedVoicemailGuard, OnCall
<1>6. CASE GapEnds
  BY <1>2, <1>6 DEF GapEnds, StartAttempt
<1>7. CASE CallAnswered
  <2>1. /\ attempt_elapsed' = 0 /\ active_elapsed' = 0 /\ gap_elapsed' = 0
        /\ active_seen' = FALSE /\ fast_active' = FALSE /\ seen' = Sight
        /\ escalation_state \in OnCall /\ escalation_state' = "ANSWERED"
    BY <1>7 DEF CallAnswered, ClearTiming
  <2>2. active_seen /\ ~fast_active /\ IsActive /\ ActiveTime >= ANSWER_CONFIRM
    BY <1>7 DEF CallAnswered, Confirmed
  <2>3. seen.first = "slow"
    BY <2>1, <2>2 DEF TimingInv, Sights
  <2>4. Sight.first = "slow" /\ Sight.connected + Sight.lapse >= ANSWER_CONFIRM
    <3>1. Sight.first = "slow" /\ ActiveTime <= Sight.connected + Sight.lapse
      BY <2>1, <2>2, <2>3, SightFacts
    <3>2. Sight.connected \in Nat /\ Sight.lapse \in Nat
      BY SightFacts DEF Sights
    <3> QED BY <1>0, <2>2, <3>1, <3>2
  <2>5. active_seen' \in BOOLEAN /\ fast_active' \in BOOLEAN
    BY <2>1, Zenon
  <2>6. TimingInv'
    BY <2>1, <2>5, SightFacts DEF TimingInv, OnCall
  <2> QED BY <2>1, <2>4, <2>6 DEF AnswerPassedVoicemailGuard
<1>8. CASE CallContinues
  <2>1. /\ attempt_elapsed' = AttemptTime
        /\ gap_elapsed' = gap_elapsed
        /\ active_elapsed' = IF ~IsActive \/ ~active_seen THEN 0
                             ELSE IF fast_active THEN active_elapsed ELSE ActiveTime
        /\ escalation_state \in OnCall
        /\ seen' = Sight
    BY <1>8 DEF CallContinues
  <2>2. /\ active_seen' = (active_seen \/ IsActive)
        /\ fast_active' = (fast_active \/ (IsActive /\ ~active_seen /\ AttemptTime < SUSPECT))
    BY <1>8, Zenon DEF CallContinues
  <2>3. escalation_state' # "ANSWERED"
    BY <1>8, <2>1 DEF CallContinues, OnCall
  <2>4. active_seen' \in BOOLEAN /\ fast_active' \in BOOLEAN
    BY <2>2, Zenon
  <2>5. (active_seen <=> seen.first # "not") /\ (fast_active <=> seen.first = "fast")
    BY <2>1 DEF TimingInv
  <2>6. (active_seen' <=> seen'.first # "not") /\ (fast_active' <=> seen'.first = "fast")
    BY <2>1, <2>2, <2>5, SightFacts
  <2>7. ASSUME seen'.first = "slow"
        PROVE  /\ active_elapsed' <= seen'.connected + seen'.lapse
               /\ ~seen'.last => active_elapsed' = 0
    <3>1. seen'.connected \in Nat /\ seen'.lapse \in Nat
      BY <2>1, SightFacts DEF Sights
    <3>2. CASE ~IsActive \/ seen.first = "not"
      <4>1. active_elapsed' = 0
        BY <2>1, <2>5, <3>2
      <4> QED BY <3>1, <4>1
    <3>3. CASE IsActive /\ seen.first # "not"
      <4>1. seen.first = "slow" /\ Sight.last
        BY <2>1, <2>7, <3>3, SightFacts
      <4>2. active_elapsed' = ActiveTime
        BY <2>1, <2>5, <3>3, <4>1
      <4> QED BY <2>1, <3>3, <4>1, <4>2, SightFacts
    <3> QED BY <3>2, <3>3
  <2>8. active_elapsed' \in 0 .. ANSWER_CONFIRM
    BY <1>0, <2>1 DEF TimingInv
  <2>9. attempt_elapsed' \in 0 .. ATTEMPT_TIMEOUT /\ gap_elapsed' \in 0 .. RETRY_GAP
        /\ seen' \in Sights
    BY <1>0, <2>1, SightFacts DEF TimingInv
  <2>10. TimingInv'
    BY <2>4, <2>6, <2>7, <2>8, <2>9 DEF TimingInv
  <2> QED BY <2>3, <2>10 DEF AnswerPassedVoicemailGuard
<1>9. CASE CallUnanswered
  BY <1>2, <1>9 DEF CallUnanswered
<1>10. CASE ModemTick \/ TickQuiet
  BY <1>1, <1>10 DEF ModemTick, TickQuiet
<1> QED
  BY <1>1, <1>3, <1>4, <1>5, <1>6, <1>7, <1>8, <1>9, <1>10, NextCases, ElsewhereUnchanged
-----------------------------------------------------------------------------
(* The invariant. *)

LEMMA InitInv == Init => IInv
<1> SUFFICES ASSUME Init PROVE IInv
  OBVIOUS
<1> USE DispatchAssumption DEF DispatchAssumption, Init
<1>1. MainType /\ QueueInv
  <2>1. loaded \in SUBSET Slots
    OBVIOUS
  <2>2. MainType
    <3>1. incident \in BOOLEAN /\ sent \in BOOLEAN /\ cooled \in BOOLEAN /\ pending \in BOOLEAN
      BY Zenon
    <3>2. tick_elapsed \in 0 .. MAX_ELAPSED
      OBVIOUS
    <3> QED BY <2>1, <3>1, <3>2, Zenon DEF MainType
  <2>3. 0 \in 0 .. MAX_RESETS /\ 0 \in 0 .. generation /\ 0 \in 0 .. MAX_REQUESTS
    OBVIOUS
  <2>4. QueueInv
    BY <2>3 DEF QueueInv
  <2> QED BY <2>2, <2>4
<1>2. SmsInv
  <2>1. NoSms \in Threads /\ NoSms.generation = 0 /\ NoSms.stage = "none" /\ NoSms.late = 0
    BY DEF NoSms, Threads
  <2> QED BY <2>1 DEF SmsInv, ThreadInv
<1>3. EscalationType
  BY DEF EscalationType, Slots, OnCall
<1>4. Spent(contacts, contact, attempt + OfTheCall, dials)
  BY DEF Spent, OfTheCall, OnCall
<1>5. CallMatchesEscalation /\ AnswerPassedVoicemailGuard
  BY DEF CallMatchesEscalation, AnswerPassedVoicemailGuard, OnCall
<1>6. TimingInv
  <2>1. escalation_state \notin OnCall
    BY DEF OnCall
  <2>2. attempt_elapsed \in 0 .. ATTEMPT_TIMEOUT /\ active_elapsed \in 0 .. ANSWER_CONFIRM
        /\ gap_elapsed \in 0 .. RETRY_GAP
    OBVIOUS
  <2>3. active_seen \in BOOLEAN /\ fast_active \in BOOLEAN
    BY Zenon
  <2>4. seen \in Sights
    BY DEF NotSeen, Sights
  <2> QED BY <2>1, <2>2, <2>3, <2>4, Zenon DEF TimingInv
<1> QED BY <1>1, <1>2, <1>3, <1>4, <1>5, <1>6 DEF IInv

LEMMA NextInv == IInv /\ [Next]_vars => IInv'
<1>1. ASSUME IInv, Next PROVE IInv'
  BY <1>1, MainNext, QueueNext, SmsNext, SequenceNext, CallNext, TimingNext DEF IInv
<1>2. ASSUME IInv, UNCHANGED vars PROVE IInv'
  <2> USE DEF vars, alarm, queue, timing, plan, modem, escalation
  <2>1. (MainType /\ QueueInv /\ EscalationType)'
    BY <1>2 DEF IInv, MainType, QueueInv, EscalationType
  <2>2. SmsInv'
    BY <1>2 DEF IInv, SmsInv
  <2>3. Spent(contacts, contact, attempt + OfTheCall, dials)'
    BY <1>2 DEF IInv, Spent, OfTheCall
  <2>4. (TimingInv /\ CallMatchesEscalation /\ AnswerPassedVoicemailGuard)'
    BY <1>2 DEF IInv, TimingInv, CallMatchesEscalation, AnswerPassedVoicemailGuard
  <2> QED BY <2>1, <2>2, <2>3, <2>4 DEF IInv
<1> QED BY <1>1, <1>2

LEMMA InvHolds == Spec => []IInv
  BY InitInv, NextInv, PTL DEF Spec

(* For any number of contacts, requests and resets: every counter, slot, generation
   and thread record stays within its type and its limit. *)
THEOREM TypeCorrect == Spec => []TypeOK
<1>1. IInv => TypeOK
  <2> SUFFICES ASSUME IInv PROVE TypeOK
    OBVIOUS
  <2> USE DispatchAssumption DEF DispatchAssumption, IInv
  <2>1. sms \in [1 .. MAX_REQUESTS ->
                  [stage : {"none", "check", "send", "done"}, generation : 0 .. MAX_RESETS,
                   left : 0 .. N, late : 0 .. N]]
    <3>1. \A r \in Threads :
            r \in [stage : {"none", "check", "send", "done"}, generation : 0 .. MAX_RESETS,
                   left : 0 .. N, late : 0 .. N]
      BY DEF Threads
    <3> QED BY <3>1 DEF SmsInv
  <2> QED BY <2>1 DEF MainType, QueueInv, EscalationType, TimingInv, Sights, TypeOK
<1> QED BY <1>1, InvHolds, PTL

(* For any number of contacts, requests and resets: the modem's call is the one the
   escalation watches, and a call that is gone is not waited for. *)
THEOREM CallIsWatched == Spec => []CallMatchesEscalation
<1>1. IInv => CallMatchesEscalation
  BY DEF IInv
<1> QED BY <1>1, InvHolds, PTL

(* For any limits: an answer counts only if the call was first seen connected after the
   voicemail limit and then for the whole confirmation, but for the one pass in which
   a call that had rung again came back, whatever the passes of the loop and the modem
   do. *)
THEOREM AnswerIsHuman == Spec => []AnswerPassedVoicemailGuard
<1>1. IInv => AnswerPassedVoicemailGuard
  BY DEF IInv
<1> QED BY <1>1, InvHolds, PTL

(* For any number of threads, contacts and resets: a reset lets each fan-out thread
   send one more SMS at most. *)
THEOREM ResetStopsSms == Spec => []FewLateSms
<1>1. IInv => FewLateSms
  BY DEF IInv, SmsInv, Threads, FewLateSms
<1> QED BY <1>1, InvHolds, PTL

(* For any number of contacts and attempts: nobody is skipped and nobody is called
   too often. *)
THEOREM NobodyIsSkipped == Spec => []AttemptsInOrder
<1>1. IInv => AttemptsInOrder
  <2> SUFFICES ASSUME IInv, NEW c \in Slots
               PROVE  dials[c] = IF c \notin contacts \/ c > contact THEN 0
                                 ELSE IF c < contact THEN ATTEMPTS
                                 ELSE attempt + OfTheCall
    BY DEF AttemptsInOrder, OfTheCall
  <2> QED BY DEF IInv, Spent
<1> QED BY <1>1, InvHolds, PTL

LEMMA StopNext ==
  ASSUME StopIsOutrunOnce, Next
  PROVE  StopIsOutrunOnce'
<1> USE DEF StopIsOutrunOnce, queue
<1>1. CASE TriggerInCooldown \/ TriggerAlarm
  BY <1>1 DEF TriggerInCooldown, TriggerAlarm, escalation
<1>2. CASE RequestWorker \/ ResetWorker
  BY <1>2 DEF RequestWorker, ResetWorker, escalation
<1>3. CASE ResetEscalation
  BY <1>3 DEF ResetEscalation, ClearEscalation
<1>4. CASE ModemTick
  BY <1>4 DEF ModemTick, escalation
<1>5. CASE DispatchTick
  <2>1. TickEnds
    BY <1>5 DEF DispatchTick, TickQuiet, GapContinues, GapEnds, CallAnswered,
                CallContinues, CallUnanswered
  <2>2. UNCHANGED <<worker, request, pending, pending_generation, generation>> /\ main # "reset"
    BY <2>1 DEF TickEnds
  <2>3. escalation_state = "IDLE" => escalation_state' = "IDLE"
    BY <1>5 DEF DispatchTick, TickQuiet, GapContinues, GapEnds, CallAnswered,
                CallContinues, CallUnanswered, OnCall, escalation
  <2> QED BY <2>2, <2>3
<1>6. CASE TakeRequest \/ CheckGeneration
  BY <1>6 DEF TakeRequest, CheckGeneration, Finishes, escalation
<1>7. CASE StartEscalation
  BY <1>7 DEF StartEscalation, Finishes
<1>8. CASE StartFanout \/ WorkerDone
  BY <1>8 DEF StartFanout, Finishes, WorkerDone
<1>9. ASSUME NEW k \in 1 .. MAX_REQUESTS, FanoutChecks(k) \/ FanoutSends(k)
      PROVE  StopIsOutrunOnce'
  BY <1>9 DEF FanoutChecks, FanoutSends, escalation
<1> QED
  BY <1>1, <1>2, <1>3, <1>4, <1>5, <1>6, <1>7, <1>8, <1>9 DEF Next, Worker

(* For any number of requests and resets: a reset that has returned can be outrun by
   one dispatch only, and finds the escalation idle until that one starts. *)
THEOREM StopIsFinal == Spec => []StopIsOutrunOnce
<1>1. Init => StopIsOutrunOnce
  BY DEF Init, StopIsOutrunOnce
<1>2. StopIsOutrunOnce /\ [Next]_vars => StopIsOutrunOnce'
  <2>1. ASSUME StopIsOutrunOnce, UNCHANGED vars PROVE StopIsOutrunOnce'
    BY <2>1 DEF StopIsOutrunOnce, vars, queue, escalation
  <2> QED BY <2>1, StopNext
<1> QED BY <1>1, <1>2, PTL DEF Spec
-----------------------------------------------------------------------------
(* The refinement: threads, clocks and the modem implement the plain sequence of
   calls of module CallSequence. *)

LEMMA InitRefines == Init => Sequence!Init
  BY DEF Init, Sequence!Init, SequencePhase, AttemptsLeft, Sequence!Slots, Slots, OnCall

(* An attempt dials the first contact that has one left. *)
LEMMA AttemptDials ==
  ASSUME NEW todo \in SUBSET Slots, NEW c0 \in 1 .. N + 1, NEW a0 \in 0 .. ATTEMPTS - 1,
         NEW spent \in [Slots -> 0 .. ATTEMPTS], Spent(todo, c0, a0, spent),
         StartAttempt(todo, c0, a0, spent), contacts' = todo
  PROVE  Sequence!Dial([c \in Slots |-> IF c \in todo THEN ATTEMPTS - spent[c] ELSE 0])
<1> USE DispatchAssumption DEF DispatchAssumption, Slots, Sequence!Slots
<1> DEFINE left == [c \in Slots |-> IF c \in todo THEN ATTEMPTS - spent[c] ELSE 0]
<1>1. ASSUME {c \in todo : c >= c0} = {}, escalation_state' = "DONE", dials' = spent
      PROVE  Sequence!Dial(left)
  <2>1. \A x \in Slots : left[x] = 0
    BY <1>1 DEF Spent
  <2>2. SequencePhase' = "exhausted" /\ AttemptsLeft' = left
    <3>1. SequencePhase' = "exhausted"
      BY <1>1 DEF SequencePhase, OnCall
    <3>2. AttemptsLeft' = left
      BY <1>1 DEF AttemptsLeft
    <3> QED BY <3>1, <3>2
  <2> HIDE DEF left
  <2> QED BY <2>1, <2>2 DEF Sequence!Dial
<1>2. ASSUME NEW c \in todo, c >= c0, \A d \in todo : d >= c0 => c <= d,
             dials' = [spent EXCEPT ![c] = @ + 1],
             escalation_state' \in {"WAITING", "RETRY_GAP"}
      PROVE  Sequence!Dial(left)
  <2>1. c \in Slots /\ spent[c] \in 0 .. ATTEMPTS - 1
    BY <1>2 DEF Spent
  <2>2. left[c] > 0
    BY <2>1
  <2>3. \A d \in Slots : d < c => left[d] = 0
    <3> SUFFICES ASSUME NEW d \in Slots, d < c, d \in todo PROVE spent[d] = ATTEMPTS
      OBVIOUS
    <3>1. d < c0
      BY <1>2
    <3> QED BY <3>1 DEF Spent
  <2>4. AttemptsLeft' = [left EXCEPT ![c] = @ - 1]
    <3>1. \A d \in Slots : dials'[d] = IF d = c THEN spent[c] + 1 ELSE spent[d]
      BY <1>2, <2>1
    <3>2. \A d \in Slots : spent[d] \in Int /\ d \in Int
      OBVIOUS
    <3>3. AttemptsLeft' = [d \in Slots |-> IF d \in todo THEN ATTEMPTS - dials'[d] ELSE 0]
      BY DEF AttemptsLeft
    <3>4. \A d \in Slots : AttemptsLeft'[d] = IF d = c THEN left[c] - 1 ELSE left[d]
      BY <1>2, <2>1, <3>1, <3>2, <3>3
    <3>5. AttemptsLeft' = [d \in Slots |-> IF d = c THEN left[c] - 1 ELSE left[d]]
      BY <3>3, <3>4
    <3> QED BY <2>1, <3>5
  <2>5. SequencePhase' \in {"calling", "pause"}
    BY <1>2 DEF SequencePhase, OnCall
  <2> HIDE DEF left
  <2> QED BY <2>1, <2>2, <2>3, <2>4, <2>5 DEF Sequence!Dial
<1>3. \/ /\ {c \in todo : c >= c0} = {}
         /\ escalation_state' = "DONE" /\ dials' = spent
      \/ \E c \in todo :
           /\ c >= c0 /\ \A d \in todo : d >= c0 => c <= d
           /\ dials' = [spent EXCEPT ![c] = @ + 1]
           /\ escalation_state' \in {"WAITING", "RETRY_GAP"}
  BY DEF StartAttempt
<1> HIDE DEF left
<1>4. Sequence!Dial(left)
  BY <1>1, <1>2, <1>3
<1> QED BY <1>4 DEF left

LEMMA StepRefines ==
  ASSUME IInv, Next
  PROVE  Sequence!Next \/ UNCHANGED Sequence!vars
<1> USE DispatchAssumption DEF DispatchAssumption, IInv, escalation, plan, modem, Sequence!vars
<1>1. CASE UNCHANGED <<escalation_state, contacts, dials>>
  BY <1>1 DEF SequencePhase, AttemptsLeft
<1>2. CASE ResetEscalation
  <2>1. SequencePhase' = "idle" /\ AttemptsLeft' = [c \in Slots |-> 0]
    BY <1>2 DEF ResetEscalation, ClearEscalation, SequencePhase, AttemptsLeft, OnCall
  <2> QED BY <2>1 DEF Sequence!Next, Sequence!Cancel, Sequence!Slots, Slots
<1>3. CASE ModemTick \/ TickQuiet \/ GapContinues
  BY <1>1, <1>3 DEF ModemTick, TickQuiet, GapContinues
<1>4. CASE StartEscalation
  <2>1. CASE escalation_state \in ActiveStates
    BY <1>1, <1>4, <2>1 DEF StartEscalation
  <2>2. CASE escalation_state \notin ActiveStates
    <3> DEFINE none == [c \in Slots |-> 0]
               left == [c \in Slots |-> IF c \in loaded THEN ATTEMPTS - none[c] ELSE 0]
               full == [c \in Sequence!Slots |-> IF c \in loaded THEN ATTEMPTS ELSE 0]
    <3>1. StartAttempt(loaded, 1, 0, none) /\ contacts' = loaded
      BY <1>4, <2>2 DEF StartEscalation
    <3>2. none \in [Slots -> 0 .. ATTEMPTS] /\ Spent(loaded, 1, 0, none)
          /\ 1 \in 1 .. N + 1 /\ 0 \in 0 .. ATTEMPTS - 1 /\ loaded \in SUBSET Slots
      BY DEF Spent, Slots, MainType
    <3>3. left = full
      BY DEF Slots, Sequence!Slots
    <3> HIDE DEF none
    <3>4. Sequence!Dial(left)
      BY <3>1, <3>2, AttemptDials
    <3> HIDE DEF left
    <3>5. Sequence!Dial(full)
      BY <3>3, <3>4
    <3>6. ~Sequence!Running
      BY <2>2 DEF Sequence!Running, SequencePhase, ActiveStates, OnCall, EscalationType
    <3>7. loaded \in SUBSET Sequence!Slots
      BY <3>2 DEF Slots, Sequence!Slots
    <3> QED BY <3>5, <3>6, <3>7 DEF Sequence!Next, Sequence!Start
  <2> QED BY <2>1, <2>2
<1>5. CASE GapEnds
  <2>1. StartAttempt(contacts, contact, attempt, dials) /\ contacts' = contacts
    BY <1>5 DEF GapEnds
  <2>2. OfTheCall = 0 /\ SequencePhase = "pause"
    BY <1>5 DEF GapEnds, OfTheCall, SequencePhase, OnCall
  <2>3. Spent(contacts, contact, attempt, dials)
    BY <2>2 DEF EscalationType
  <2> DEFINE left == [c \in Slots |-> IF c \in contacts THEN ATTEMPTS - dials[c] ELSE 0]
  <2>4. Sequence!Dial(left)
    BY <2>1, <2>3, AttemptDials DEF EscalationType
  <2>5. left = AttemptsLeft
    BY DEF AttemptsLeft
  <2> HIDE DEF left
  <2>6. Sequence!Dial(AttemptsLeft)
    BY <2>4, <2>5
  <2> QED BY <2>2, <2>6 DEF Sequence!Next, Sequence!Retry
<1>6. CASE CallAnswered
  <2>1. SequencePhase = "calling" /\ SequencePhase' = "answered" /\ AttemptsLeft' = AttemptsLeft
    BY <1>6 DEF CallAnswered, SequencePhase, AttemptsLeft, OnCall
  <2> QED BY <2>1 DEF Sequence!Next, Sequence!Answer
<1>7. CASE CallContinues
  <2>1. SequencePhase = "calling" /\ SequencePhase' = "calling" /\ AttemptsLeft' = AttemptsLeft
    BY <1>7 DEF CallContinues, SequencePhase, AttemptsLeft, OnCall
  <2> QED BY <2>1
<1>8. CASE CallUnanswered
  <2>1. SequencePhase = "calling" /\ SequencePhase' = "pause" /\ AttemptsLeft' = AttemptsLeft
    BY <1>8 DEF CallUnanswered, SequencePhase, AttemptsLeft, OnCall
  <2> QED BY <2>1 DEF Sequence!Next, Sequence!Unanswered
<1>9. CASE Elsewhere
  BY <1>1, <1>9, ElsewhereUnchanged
<1> QED
  BY <1>2, <1>3, <1>4, <1>5, <1>6, <1>7, <1>8, <1>9, NextCases

(* For any number of contacts and attempts: whatever the threads, clocks, resets and
   the modem do, the calls of an alarm run as module CallSequence says, and no second
   dispatch restarts a sequence that is running. *)
THEOREM RefinesCallSequence == Spec => ImplementsCallSequence
<1>1. IInv /\ [Next]_vars => [Sequence!Next]_(Sequence!vars)
  <2>1. ASSUME UNCHANGED vars PROVE UNCHANGED Sequence!vars
    BY <2>1 DEF vars, escalation, plan, Sequence!vars, SequencePhase, AttemptsLeft
  <2> QED BY <2>1, StepRefines
<1> QED BY <1>1, InitRefines, InvHolds, PTL DEF Spec, ImplementsCallSequence, Sequence!Spec
=============================================================================
