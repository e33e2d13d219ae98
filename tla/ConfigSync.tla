----------------------------- MODULE ConfigSync -----------------------------
(***************************************************************************)
(* The owner's settings - schedule and emergency contacts - on their way   *)
(* from the backend into main's configuration and the configuration file   *)
(* (config_sync.c, config.c), and from the file, which the dispatch worker *)
(* loads for every alarm, to the phones that are called.  The file is      *)
(* renamed into place and never flushed, so that a power cut may bring     *)
(* back an older one or an empty one.                                      *)
(***************************************************************************)
EXTENDS Naturals

CONSTANTS
  KEYS,          \* the settings: SCHEDULE_ARM, ..., ALERT_CONTACT_3
  VALUES,        \* what the owner or the installer may give them
  DEFAULT,       \* the default, the same in hub (config.h) and backend (app.py)
  NONE,          \* no row in the backend, no line in the file
  CONTAINS,      \* <<v, w>>: a line with the value v has w as a part of it
  MAX_EDITS,     \* edits by the owner
  MAX_RESTARTS   \* times the process dies or the power fails

ASSUME SettingsAssumption ==
  /\ DEFAULT \in VALUES /\ NONE \notin VALUES
  /\ CONTAINS \subseteq VALUES \X VALUES
  /\ \A v \in VALUES : <<v, v>> \in CONTAINS
  /\ MAX_EDITS \in Nat /\ MAX_RESTARTS \in Nat

VARIABLES
  backend,     \* the owner's settings in the backend
  file,        \* those in amtech_config.txt
  durable,     \* those the disk is sure to have
  token,       \* DEVICE_CONFIG_TOKEN is in the file, and so in main's copy
  config,      \* main's copy
  sync,        \* where amtech_config_sync_poll is
  updated,     \* its updated_config
  alerted,     \* what the dispatch worker loaded last
  edits, restarts,
  given        \* history: what installer, owner and backend have given each setting

vars == <<backend, file, durable, token, config, sync, updated, alerted, edits, restarts,
          given>>

Empty == [k \in KEYS |-> NONE]

\* amtech_config_load: defaults where the file has no line.
Load(f) == [k \in KEYS |-> IF f[k] = NONE THEN DEFAULT ELSE f[k]]

TypeOK ==
  /\ backend \in [KEYS -> VALUES \union {NONE}]
  /\ file \in [KEYS -> VALUES \union {NONE}]
  /\ durable \in [KEYS -> VALUES \union {NONE}]
  /\ token \in BOOLEAN
  /\ config \in [KEYS -> VALUES]
  /\ sync \in {"idle", "write", "rename"}
  /\ updated \in [KEYS -> VALUES]
  /\ alerted \in [KEYS -> VALUES]
  /\ edits \in 0..MAX_EDITS
  /\ restarts \in 0..MAX_RESTARTS
  /\ given \in [KEYS -> SUBSET VALUES]

\* The installer wrote some lines and the token, the owner has not used the app yet.
Init ==
  /\ backend = Empty
  /\ file \in [KEYS -> VALUES \union {NONE}]
  /\ durable = file
  /\ token = TRUE
  /\ config = Load(file)
  /\ sync = "idle"
  /\ updated = config
  /\ alerted = config
  /\ edits = 0 /\ restarts = 0
  /\ given = [k \in KEYS |-> {config[k]}]
-----------------------------------------------------------------------------
\* PUT device-config: some settings get a value, none loses its row
\* (upsert_device_config).
OwnerEdits ==
  /\ edits < MAX_EDITS
  /\ edits' = edits + 1
  /\ backend' \in [KEYS -> VALUES \union {NONE}]
  /\ \A k \in KEYS : backend'[k] # backend[k] => backend'[k] # NONE
  /\ given' = [k \in KEYS |-> IF backend'[k] = NONE THEN given[k]
                              ELSE given[k] \union {backend'[k]}]
  /\ UNCHANGED <<file, durable, token, config, sync, updated, alerted, restarts>>

\* What a poll is answered and parse_json makes of it: a setting without a row comes
\* with the backend's default, also over what the installer wrote.
Parsed == [k \in KEYS |-> IF backend[k] = NONE THEN DEFAULT ELSE backend[k]]

\* A slip: only the first setting is looked at for a difference.
FetchOneKey ==
  /\ sync = "idle" /\ token
  /\ LET first == CHOOSE k \in KEYS : TRUE IN Parsed[first] # config[first]
  /\ updated' = Parsed
  /\ sync' = "write"
  /\ given' = [k \in KEYS |-> given[k] \union {Parsed[k]}]
  /\ UNCHANGED <<backend, file, durable, token, config, alerted, edits, restarts>>

\* A poll is answered and differs from main's copy; all others leave nothing.  There
\* is no poll without the token.
SyncFetches ==
  /\ sync = "idle" /\ token
  /\ Parsed # config
  /\ updated' = Parsed
  /\ sync' = "write"
  /\ given' = [k \in KEYS |-> given[k] \union {Parsed[k]}]
  /\ UNCHANGED <<backend, file, durable, token, config, alerted, edits, restarts>>

\* The new file differs from the old one as far as strstr tells.
Changed == \E k \in KEYS : file[k] = NONE \/ <<file[k], updated[k]>> \notin CONTAINS

\* A slip: the file is truncated and written, without a temporary file.
WriteInPlace ==
  /\ sync = "write"
  /\ sync' = "rename"
  /\ file' = Empty
  /\ UNCHANGED <<backend, durable, token, config, updated, alerted, edits, restarts, given>>

\* The temporary file is written; the old one is kept if nothing seems to change.
SyncWrites ==
  /\ sync = "write"
  /\ \/ Changed /\ sync' = "rename" /\ UNCHANGED config
     \/ ~Changed /\ sync' = "idle" /\ config' = updated
  /\ UNCHANGED <<backend, file, durable, token, updated, alerted, edits, restarts, given>>

\* A slip: main's copy does not get what the file got.
RenameOnly ==
  /\ sync = "rename"
  /\ file' = updated
  /\ sync' = "idle"
  /\ UNCHANGED <<backend, durable, token, config, updated, alerted, edits, restarts, given>>

\* rename() makes the new file the file in one step, then main's copy follows; the
\* lines that are not synced are copied.
SyncRenames ==
  /\ sync = "rename"
  /\ file' = updated
  /\ config' = updated
  /\ sync' = "idle"
  /\ UNCHANGED <<backend, durable, token, updated, alerted, edits, restarts, given>>

\* Opening, writing or renaming the temporary file fails: the next poll tries again.
SyncFails ==
  /\ sync \in {"write", "rename"}
  /\ sync' = "idle"
  /\ UNCHANGED <<backend, file, durable, token, config, updated, alerted, edits, restarts,
                 given>>

\* The dispatch worker loads the file, at any time.
DispatchLoads ==
  /\ alerted' = Load(file)
  /\ UNCHANGED <<backend, file, durable, token, config, sync, updated, edits, restarts, given>>

\* The kernel writes the file back in its own time.
Writeback ==
  /\ durable # file
  /\ durable' = file
  /\ UNCHANGED <<backend, file, token, config, sync, updated, alerted, edits, restarts, given>>

\* A new process, that finds what is now in the file.
Boots ==
  /\ restarts < MAX_RESTARTS
  /\ restarts' = restarts + 1
  /\ config' = Load(file')
  /\ sync' = "idle"
  /\ UNCHANGED <<backend, updated, alerted, edits, given>>

\* The process dies at any point; the kernel and the file live on.
Restart == UNCHANGED <<file, durable, token>> /\ Boots

\* A power cut at any point.  A file that was never flushed may be as it is, as it
\* was, or empty, and then the token is gone with the settings.
PowerCut ==
  /\ \/ file' \in {file, durable} /\ UNCHANGED token
     \/ durable # file /\ file' = Empty /\ token' = FALSE
  /\ durable' = file'
  /\ Boots

Next ==
  \/ OwnerEdits
  \/ SyncFetches \/ SyncWrites \/ SyncRenames \/ SyncFails
  \/ DispatchLoads
  \/ Writeback \/ Restart \/ PowerCut

\* Main goes on polling; file operations and HTTP succeed now and then.
Fairness == WF_vars(SyncFetches) /\ SF_vars(SyncWrites) /\ SF_vars(SyncRenames)

Spec == Init /\ [][Next]_vars /\ Fairness
-----------------------------------------------------------------------------
(* Properties. *)

\* However a sync ends and whenever the process dies, the file has what main has, but
\* for a value that is a part of the line it replaces: who is called and who may send
\* commands are the same people.
FileFollowsConfig ==
  \A k \in KEYS : IF file[k] = NONE THEN config[k] = DEFAULT
                                    ELSE <<file[k], config[k]>> \in CONTAINS

\* An alarm that meets a sync, a crash or a power cut half way calls somebody the
\* installer, the owner or a completed answer of the backend named, if not always the
\* one named last.  Only when a power cut has emptied the file does it call a default
\* that nobody asked for.
AlertsGoToNamedContacts ==
  \A k \in KEYS : alerted[k] \in given[k] \/ (~token /\ alerted[k] = DEFAULT)

\* A sync that has something to do has a way on: any difference between the answer and
\* main's copy starts one, and what is started can be written and renamed.  This
\* repeats the guards of the three actions; the proofs of SettingsArrive need it as an
\* assumption, because ENABLED is beyond the provers.
SyncCanMove ==
  /\ sync = "idle" /\ token /\ config # Parsed => ENABLED <<SyncFetches>>_vars
  /\ sync = "write" => ENABLED <<SyncWrites>>_vars
  /\ sync = "rename" => ENABLED <<SyncRenames>>_vars

\* What the backend has last reaches main in the end and stays, through failed polls,
\* failed file operations, restarts and power cuts, but for one that empties the file:
\* without its token the hub never asks again (config_sync.c 607-612).
SettingsArrive == <>[](token => config = Parsed)
=============================================================================
