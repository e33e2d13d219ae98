-------------------------- MODULE ConfigSyncProofs --------------------------
(***************************************************************************)
(* Proofs about module ConfigSync, for any settings, values, parts of      *)
(* values, edits and restarts.                                             *)
(***************************************************************************)
EXTENDS ConfigSync, TLAPS

(* Whom an alarm may call: those given, and the default once the file was emptied. *)
Named(k) == given[k] \union (IF token THEN {} ELSE {DEFAULT})

(* Whatever is held anywhere was given by somebody, or the file was emptied; a setting
   without a line in the file started out with its default. *)
Provenance ==
  \A k \in KEYS :
    /\ backend[k] # NONE => backend[k] \in given[k]
    /\ config[k] \in Named(k)
    /\ updated[k] \in given[k]
    /\ alerted[k] \in Named(k)
    /\ IF file[k] = NONE THEN DEFAULT \in Named(k) ELSE file[k] \in given[k]
    /\ IF durable[k] = NONE THEN DEFAULT \in Named(k) ELSE durable[k] \in given[k]

IInv == TypeOK /\ FileFollowsConfig /\ Provenance

LEMMA LoadType ==
  ASSUME file \in [KEYS -> VALUES \union {NONE}]
  PROVE  Load(file) \in [KEYS -> VALUES]
  BY SettingsAssumption DEF SettingsAssumption, Load

LEMMA EmptyType == Empty \in [KEYS -> VALUES \union {NONE}]
  BY DEF Empty

LEMMA ParsedType ==
  ASSUME TypeOK
  PROVE  Parsed \in [KEYS -> VALUES]
  BY SettingsAssumption DEF SettingsAssumption, TypeOK, Parsed
-----------------------------------------------------------------------------
LEMMA InitInv == Init => IInv
<1> SUFFICES ASSUME Init PROVE IInv
  OBVIOUS
<1>1. file \in [KEYS -> VALUES \union {NONE}]
  BY DEF Init
<1>2. config \in [KEYS -> VALUES] /\ config = Load(file)
  BY <1>1, LoadType DEF Init
<1>3. TypeOK
  <2>1. 0 \in 0..MAX_EDITS /\ 0 \in 0..MAX_RESTARTS
    BY SettingsAssumption DEF SettingsAssumption
  <2>2. given \in [KEYS -> SUBSET VALUES]
    BY <1>2 DEF Init
  <2>3. backend \in [KEYS -> VALUES \union {NONE}]
    BY EmptyType DEF Init
  <2> QED BY <1>1, <1>2, <2>1, <2>2, <2>3 DEF Init, TypeOK
<1>4. FileFollowsConfig
  BY <1>1, <1>2, SettingsAssumption DEF SettingsAssumption, FileFollowsConfig, Load
<1>5. Provenance
  BY <1>2 DEF Init, Provenance, Named, Load, Empty
<1> QED BY <1>3, <1>4, <1>5 DEF IInv
-----------------------------------------------------------------------------
(* A new process has what the file has. *)
LEMMA BootAgrees ==
  ASSUME TypeOK, Boots, file' \in [KEYS -> VALUES \union {NONE}],
         durable' \in [KEYS -> VALUES \union {NONE}], token' \in BOOLEAN
  PROVE  TypeOK' /\ FileFollowsConfig'
<1>1. restarts' \in 0..MAX_RESTARTS
  BY SettingsAssumption DEF SettingsAssumption, Boots, TypeOK
<1>2. config' = Load(file') /\ config' \in [KEYS -> VALUES]
  BY SettingsAssumption DEF SettingsAssumption, Boots, Load
<1>3. TypeOK'
  BY <1>1, <1>2 DEF Boots, TypeOK
<1>4. FileFollowsConfig'
  BY <1>2, SettingsAssumption DEF SettingsAssumption, FileFollowsConfig, Load
<1> QED BY <1>3, <1>4

LEMMA NextInv == IInv /\ [Next]_vars => IInv'
<1> SUFFICES ASSUME IInv, [Next]_vars PROVE IInv'
  OBVIOUS
<1> USE DEF IInv
<1>1. CASE OwnerEdits
  <2>1. TypeOK'
    <3>1. given' \in [KEYS -> SUBSET VALUES]
      BY <1>1 DEF OwnerEdits, TypeOK
    <3>2. edits' \in 0..MAX_EDITS
      BY <1>1, SettingsAssumption DEF SettingsAssumption, OwnerEdits, TypeOK
    <3> QED BY <1>1, <3>1, <3>2 DEF OwnerEdits, TypeOK
  <2>2. FileFollowsConfig'
    BY <1>1 DEF OwnerEdits, FileFollowsConfig
  <2>3. \A k \in KEYS : given[k] \subseteq given'[k]
    BY <1>1 DEF OwnerEdits
  <2>4. \A k \in KEYS : backend'[k] # NONE => backend'[k] \in given'[k]
    BY <1>1 DEF OwnerEdits
  <2>5. Provenance'
    BY <1>1, <2>3, <2>4 DEF OwnerEdits, Provenance, Named
  <2> QED BY <2>1, <2>2, <2>5
<1>2. CASE SyncFetches
  <2>1. TypeOK'
    <3>1. given' \in [KEYS -> SUBSET VALUES]
      BY <1>2, ParsedType DEF SyncFetches, TypeOK
    <3> QED BY <1>2, <3>1, ParsedType DEF SyncFetches, TypeOK
  <2>2. FileFollowsConfig'
    BY <1>2 DEF SyncFetches, FileFollowsConfig
  <2>3. \A k \in KEYS : given[k] \subseteq given'[k] /\ updated'[k] \in given'[k]
    BY <1>2 DEF SyncFetches
  <2>4. Provenance'
    BY <1>2, <2>3 DEF SyncFetches, Provenance, Named
  <2> QED BY <2>1, <2>2, <2>4
<1>3. CASE SyncWrites
  <2>1. TypeOK'
    BY <1>3 DEF SyncWrites, TypeOK
  <2>2. FileFollowsConfig'
    BY <1>3 DEF SyncWrites, Changed, FileFollowsConfig
  <2>3. Provenance'
    BY <1>3 DEF SyncWrites, Provenance, Named
  <2> QED BY <2>1, <2>2, <2>3
<1>4. CASE SyncRenames
  <2>1. TypeOK'
    BY <1>4 DEF SyncRenames, TypeOK
  <2>2. \A k \in KEYS : updated[k] # NONE /\ <<updated[k], updated[k]>> \in CONTAINS
    BY SettingsAssumption DEF SettingsAssumption, TypeOK
  <2>3. FileFollowsConfig'
    BY <1>4, <2>2 DEF SyncRenames, FileFollowsConfig
  <2>4. Provenance'
    BY <1>4, <2>2 DEF SyncRenames, Provenance, Named
  <2> QED BY <2>1, <2>3, <2>4
<1>5. CASE SyncFails
  BY <1>5 DEF SyncFails, TypeOK, FileFollowsConfig, Provenance, Named
<1>6. CASE DispatchLoads
  <2>1. TypeOK'
    BY <1>6, LoadType DEF DispatchLoads, TypeOK
  <2>2. Provenance' /\ FileFollowsConfig'
    BY <1>6 DEF DispatchLoads, Provenance, Named, FileFollowsConfig, Load
  <2> QED BY <2>1, <2>2
<1>7. CASE Writeback
  BY <1>7 DEF Writeback, TypeOK, FileFollowsConfig, Provenance, Named
<1>8. CASE Restart
  <2>1. Boots /\ file' = file /\ durable' = durable /\ token' = token
    BY <1>8 DEF Restart
  <2>2. TypeOK' /\ FileFollowsConfig'
    BY <2>1, BootAgrees DEF TypeOK
  <2>3. Provenance'
    BY <2>1 DEF Boots, Provenance, Named, Load
  <2> QED BY <2>2, <2>3
<1>9. CASE PowerCut
  <2>1. Boots /\ durable' = file'
    BY <1>9 DEF PowerCut
  <2>2. file' \in [KEYS -> VALUES \union {NONE}] /\ token' \in BOOLEAN
    BY <1>9, EmptyType DEF PowerCut, TypeOK
  <2>3. TypeOK' /\ FileFollowsConfig'
    BY <2>1, <2>2, BootAgrees
  <2>4. given' = given /\ \A k \in KEYS : Named(k) \subseteq Named(k)'
    BY <1>9, <2>1 DEF PowerCut, Boots, Named, TypeOK
  <2>5. \A k \in KEYS : IF file'[k] = NONE THEN DEFAULT \in Named(k)' ELSE file'[k] \in given'[k]
    <3>1. CASE file' \in {file, durable} /\ UNCHANGED token
      BY <2>4, <3>1 DEF Provenance
    <3>2. CASE file' = Empty /\ token' = FALSE
      BY <3>2 DEF Empty, Named
    <3> QED BY <1>9, <3>1, <3>2 DEF PowerCut
  <2>6. Provenance'
    <3>1. /\ backend' = backend /\ updated' = updated /\ alerted' = alerted
          /\ durable' = file' /\ config' = Load(file')
      BY <2>1 DEF Boots
    <3>2. \A k \in KEYS : config'[k] \in Named(k)'
      BY <2>5, <3>1 DEF Load, Named
    <3>3. \A k \in KEYS : /\ backend'[k] # NONE => backend'[k] \in given'[k]
                          /\ updated'[k] \in given'[k]
                          /\ alerted'[k] \in Named(k)'
      BY <2>4, <3>1 DEF Provenance
    <3> QED BY <2>5, <3>1, <3>2, <3>3 DEF Provenance, Named
  <2> QED BY <2>3, <2>6
<1>10. CASE UNCHANGED vars
  BY <1>10 DEF vars, TypeOK, FileFollowsConfig, Provenance, Named
<1> QED
  BY <1>1, <1>2, <1>3, <1>4, <1>5, <1>6, <1>7, <1>8, <1>9, <1>10 DEF Next

(* The invariant: every value held was given or the file was emptied, and file and
   configuration agree up to parts of values. *)
THEOREM InvHolds == Spec => []IInv
<1> QED BY InitInv, NextInv, PTL DEF Spec

(* Every variable keeps its type (ConfigSync as a whole). *)
THEOREM ConfigTypeCorrect == Spec => []TypeOK
<1>1. IInv => TypeOK
  BY DEF IInv
<1> QED BY <1>1, InvHolds, PTL

(* File and configuration agree, but for a value that is a part of the line it
   replaces, through failures and restarts (config_sync.c 261-390, 588-651). *)
THEOREM FileAgrees == Spec => []FileFollowsConfig
<1>1. IInv => FileFollowsConfig
  BY DEF IInv
<1> QED BY <1>1, InvHolds, PTL

(* An alarm that meets a sync, a crash or a power cut calls numbers somebody has
   given, unless a power cut has emptied the file (alert_dispatch.c 358-380,
   config_sync.c 413-436, config.c 129-151). *)
THEOREM AlertsAreAddressed == Spec => []AlertsGoToNamedContacts
<1>1. IInv => AlertsGoToNamedContacts
  BY DEF IInv, Provenance, Named, AlertsGoToNamedContacts
<1> QED BY <1>1, InvHolds, PTL
-----------------------------------------------------------------------------
(* Liveness.  Whether a step is ENABLED is beyond the provers, and so is that a bounded     *)
(* counter stops: that the sync has a way on (SyncCanMove, which repeats the guards of     *)
(* its steps) and that edits, restarts and power cuts end are assumed here.                *)
(*                                                                                         *)
(* Once the owner's last edit is made, the sync it met half way comes to its end (Good),   *)
(* and what is then fetched is what stays.                                                 *)

QuietNext == Next /\ ~OwnerEdits /\ ~Restart /\ ~PowerCut

Current  == config = Parsed
Idle     == sync = "idle"
Writing  == sync = "write"
Renaming == sync = "rename"
Good     == Idle \/ updated = Parsed
Token    == token

LEMMA PhasesMove ==
  ASSUME TypeOK, [QuietNext]_vars
  PROVE  /\ Idle \/ Writing \/ Renaming
         /\ Idle => Idle' \/ Writing'
         /\ Writing => Writing' \/ Renaming' \/ Idle'
         /\ Renaming => Renaming' \/ Idle'
<1>1. Idle \/ Writing \/ Renaming
  BY DEF TypeOK, Idle, Writing, Renaming
<1>2. CASE UNCHANGED vars
  BY <1>1, <1>2 DEF vars, Idle, Writing, Renaming
<1>3. CASE SyncFetches \/ SyncWrites \/ SyncRenames \/ SyncFails \/ DispatchLoads \/ Writeback
  BY <1>1, <1>3 DEF SyncFetches, SyncWrites, SyncRenames, SyncFails, DispatchLoads,
                    Writeback, Idle, Writing, Renaming
<1> QED BY <1>2, <1>3 DEF QuietNext, Next

\* No edit, no change of what the backend answers; no power cut, no loss of the token.
LEMMA AnswerStays == [QuietNext]_vars => Parsed' = Parsed /\ token' = token
  BY DEF QuietNext, Next, vars, Parsed, SyncFetches, SyncWrites, SyncRenames, SyncFails,
         DispatchLoads, Writeback

LEMMA GoodStays ==
  ASSUME Good, [QuietNext]_vars
  PROVE  Good' /\ (Current => Current')
<1>1. Parsed' = Parsed
  BY AnswerStays
<1> HIDE DEF Parsed
<1>2. CASE UNCHANGED vars
  BY <1>1, <1>2 DEF vars, Good, Idle, Current
<1>3. CASE SyncFetches
  BY <1>1, <1>3 DEF SyncFetches, Good, Idle, Current
<1>4. CASE SyncWrites \/ SyncRenames
  BY <1>1, <1>4 DEF SyncWrites, SyncRenames, Good, Idle, Current
<1>5. CASE SyncFails \/ DispatchLoads \/ Writeback
  BY <1>1, <1>5 DEF SyncFails, DispatchLoads, Writeback, Good, Idle, Current
<1> QED BY <1>2, <1>3, <1>4, <1>5 DEF QuietNext, Next

LEMMA SyncBrings ==
  ASSUME [QuietNext]_vars
  PROVE  /\ SyncFetches => Writing'
         /\ SyncWrites => Renaming' \/ Idle'
         /\ Good /\ SyncWrites => Renaming' \/ Current'
         /\ SyncRenames => Idle'
         /\ Good /\ SyncRenames => Current'
<1>1. Parsed' = Parsed
  BY AnswerStays
<1> QED
  BY <1>1 DEF SyncFetches, SyncWrites, SyncRenames, Idle, Writing, Renaming, Good, Current

(* No edit, no restart and no power cut any more. *)
Undisturbed ==
  []TypeOK /\ []SyncCanMove /\ [][QuietNext]_vars /\ Fairness

LEMMA SyncEnds == Undisturbed => <>[]Good
<1>1. Good /\ [QuietNext]_vars => Good'
  BY GoodStays
<1>2. TypeOK /\ [QuietNext]_vars => /\ Idle \/ Writing \/ Renaming
                                    /\ Writing => Writing' \/ Renaming' \/ Idle'
                                    /\ Renaming => Renaming' \/ Idle'
  BY PhasesMove
<1>3. [QuietNext]_vars => /\ <<SyncWrites>>_vars => Renaming' \/ Idle'
                          /\ <<SyncRenames>>_vars => Idle'
  BY SyncBrings
<1>4. (Idle => Good) /\ (Writing => sync = "write") /\ (Renaming => sync = "rename")
  BY DEF Idle, Good, Writing, Renaming
<1> QED
  BY <1>1, <1>2, <1>3, <1>4, PTL DEF Undisturbed, SyncCanMove, Fairness

LEMMA SyncSucceeds == Undisturbed => <>[](Token => Current)
<1>1. Good /\ Current /\ [QuietNext]_vars => Current'
  BY GoodStays
<1>2. TypeOK /\ [QuietNext]_vars => /\ Idle \/ Writing \/ Renaming
                                    /\ Idle => Idle' \/ Writing'
                                    /\ Writing => Writing' \/ Renaming' \/ Idle'
                                    /\ Renaming => Renaming' \/ Idle'
  BY PhasesMove
<1>3. [QuietNext]_vars => /\ <<SyncFetches>>_vars => Writing'
                          /\ Good /\ <<SyncWrites>>_vars => Renaming' \/ Current'
                          /\ Good /\ <<SyncRenames>>_vars => Current'
  BY SyncBrings
<1>4. /\ Idle /\ Token /\ ~Current => sync = "idle" /\ token /\ config # Parsed
      /\ Writing => sync = "write"
      /\ Renaming => sync = "rename"
  BY DEF Idle, Current, Writing, Renaming, Token
<1>5. [QuietNext]_vars => (Token => Token') /\ (~Token => ~Token')
  BY AnswerStays DEF Token
<1> QED
  BY <1>1, <1>2, <1>3, <1>4, <1>5, SyncEnds, PTL DEF Undisturbed, SyncCanMove, Fairness

(* For any settings and values: if the sync has a way on wherever it stands, then after
   the last edit, restart and power cut main comes to have what the backend has, and
   keeps it, unless a power cut has emptied the file (config_sync.c 592-651), through
   any number of failed polls and file operations. *)
THEOREM SettingsReachMain ==
  Spec /\ []SyncCanMove /\ <>[][~OwnerEdits /\ ~Restart /\ ~PowerCut]_vars => SettingsArrive
<1>1. [Next]_vars /\ [~OwnerEdits /\ ~Restart /\ ~PowerCut]_vars => [QuietNext]_vars
  BY DEF QuietNext
<1>2. (Token => Current) => (token => config = Parsed)
  BY DEF Current, Token
<1> DEFINE Running == []TypeOK /\ []SyncCanMove /\ [][Next]_vars /\ Fairness
<1>3. Running /\ [][~OwnerEdits /\ ~Restart /\ ~PowerCut]_vars => Undisturbed
  BY <1>1, PTL DEF Undisturbed
<1>4. Running => []Running
  BY PTL DEF Fairness
<1>5. Spec /\ []SyncCanMove => Running
  BY ConfigTypeCorrect, PTL DEF Spec
<1> HIDE DEF Running
<1>6. Running /\ [][~OwnerEdits /\ ~Restart /\ ~PowerCut]_vars => <>[](Token => Current)
  BY <1>3, SyncSucceeds, PTL
<1> QED
  BY <1>2, <1>4, <1>5, <1>6, PTL DEF SettingsArrive
=============================================================================
