----------------------------- MODULE LogWatcher -----------------------------
(***************************************************************************)
(* The log watcher follows the EverQuest log that was written last, one    *)
(* file for each character, and turns its lines into updates of the local  *)
(* characters and of the SSO; the inventory watcher does so with inventory *)
(* dumps.  Each runs on a watchdog thread beside those of LocalCharacters. *)
(***************************************************************************)
EXTENDS LocalCharacters, CharacterItems

CONSTANTS
  LogLines,       \* the lines a client may write: [kind, value]
  Dumps,          \* the inventories a client may dump
  SsoCharacters,  \* CHARACTERS_CACHED
  AutoAdd,        \* AUTO_ADD_LOCAL_CHARACTERS
  Window,         \* the lines that fit into the last 1000 bytes of a log
  MaxWrites,      \* bound on lines logged and inventories dumped
  MaxEvents       \* bound on these and the clicks, logins and restarts

ASSUME WatcherAssumption ==
  /\ {Window, MaxWrites, MaxEvents} \subseteq Nat
  /\ {"park", "bind", "level", "class"} \cap (BoolItems \cup CountItems) = {}

(* The counts that are compared are those that the files hold. *)
ASSUME InventoriesAssumption ==
  /\ \A s \in Starts : \A c \in DOMAIN s.characters : Recorded(s.characters[c].seen)
  /\ \A file \in Dumps : Recorded(ParsedInventory(file))

VARIABLES
  token,     \* whether USER_API_TOKEN is set; it is not changed here
  logs,      \* external: the log of each character
  writes,    \* external: lines logged and inventories dumped so far
  newest,    \* external: the log that was written last
  modified,  \* the logs with a watchdog event under way
  watcher,   \* LogFileHandler: the log it follows, its position, its step
  zone,      \* _current_zone
  told,      \* what send_update_location was last given for each character
  dump,      \* InventoryFileHandler: its character and its items
  found      \* history: the last seek could see a login marker

fileVars == <<logs, newest, modified, writes>>
watchVars == <<token, fileVars, watcher, zone, told, dump, found>>
logVars == <<accountVars, charVars, threadVars, loginVars, watchVars, ops>>

Welcome == [kind |-> "welcome", value |-> NoAccount]

Welcomes(log) == {i \in DOMAIN log : log[i] = Welcome}

(* The login markers in the last 1000 bytes. *)
Recent(log) == {i \in Welcomes(log) : i > Len(log) - Window}

(* A dropped scan: the position is always the end of the file. *)
SeekPosition_FaultEnd(log) == Len(log)

(* An off-by-one: behind the end. *)
SeekPosition_FaultBehind(log) == Len(log) + 1

(* _seek_to_latest_position: behind the first marker it sees, or to the end. *)
SeekPosition(log) == IF Recent(log) = {} THEN Len(log) ELSE Min(Recent(log))

Following(c) ==
  [log |-> c, position |-> SeekPosition(logs[c]), at |-> "started", fields |-> << >>, more |-> << >>]

(* A handler that starts with no log, or with nothing to track, does not seek. *)
NotFollowing ==
  [log |-> NoAccount, position |-> 0, at |-> "started", fields |-> << >>, more |-> << >>]

IsSso(c) == token /\ c \in SsoCharacters
Tracked(c) == IsSso(c) \/ c \in DOMAIN chars
AnyTracked == token \/ DOMAIN chars # {}

NoDump == [char |-> NoAccount, items |-> << >>]

LogInit ==
  /\ LcInit
  /\ \E s \in Starts : accountFile = s.accounts /\ charFile = s.characters /\ token = s.token
  /\ logs = [c \in Characters |-> << >>]
  /\ writes = 0
  /\ newest = NoAccount
  /\ modified = {}
  /\ watcher = NotFollowing
  /\ zone = << >>
  /\ told = [c \in SsoCharacters |-> << >>]
  /\ dump = NoDump
  /\ found = TRUE

-----------------------------------------------------------------------------

Write == writes < MaxWrites /\ writes' = writes + 1

(* external: a client writes to its log; its first line is the Welcome. *)
ClientLogs(c, line) ==
  /\ Write
  /\ logs[c] = << >> => line = Welcome
  /\ logs' = [logs EXCEPT ![c] = Append(@, line)]
  /\ newest' = c
  /\ modified' = modified \cup {c}
  /\ UNCHANGED <<accountVars, charVars, threadVars, loginVars, token, watcher, zone, told, dump,
                 found, ops>>

(* Where the loop over the lines stands. *)
After(w) == IF w.position < Len(logs[w.log]) THEN "reading" ELSE "idle"

(* on_modified.  The event may be of another log than the newest one. *)
OnModified(c) ==
  /\ watcher.at \in {"started", "idle"}
  /\ c \in modified
  /\ modified' = modified \ {c}
  /\ \/ /\ ~AnyTracked
        /\ UNCHANGED <<watcher, found, chars, timerRef, timers>>
     \/ /\ AnyTracked
        /\ LET next == IF newest = watcher.log THEN watcher ELSE Following(newest)
           IN  watcher' = [next EXCEPT !.at = IF c = newest THEN After(next) ELSE @]
        /\ IF newest = watcher.log
           THEN UNCHANGED <<found, chars, timerRef, timers>>
           ELSE /\ found' = (Recent(logs[newest]) # {})
                /\ IF AutoAdd THEN TryAutoCreate(newest)
                              ELSE UNCHANGED <<chars, timerRef, timers>>
  /\ UNCHANGED <<accountVars, charFile, suspect, ui, loginVars, token, logs, newest, writes, zone,
                 told, dump, ops>>

-----------------------------------------------------------------------------
(* handle_log_line *)

Zones(line) == line.kind \in {"entered", "who_zone"}

(* The fields a line tells of its character; a bind confirmation means the  *)
(* zone the character is known to be in.                                    *)
Observed(c, line) ==
  CASE Zones(line) -> "park" :> line.value
    [] line.kind = "bind_confirm" -> IF c \in DOMAIN zone THEN "bind" :> zone[c] ELSE << >>
    [] line.kind = "charinfo" -> "bind" :> line.value
    [] line.kind = "level_up" -> "level" :> line.value
    [] line.kind \in {"who_self", "who_title"} -> "level" :> line.value
    [] line.kind = "velium" -> "thurg" :> FALSE
    [] OTHER -> << >>

(* The class, unless a title hides it, is a second update.  It is not sent:  *)
(* the SSO knows it better.                                                   *)
Class(line) == IF line.kind = "who_self" THEN "class" :> line.value ELSE << >>

(* One line, up to the lock of apply_update: whether the name is known is    *)
(* asked before.                                                             *)
ReadLine ==
  /\ watcher.at = "reading"
  /\ LET c == watcher.log
         line == logs[c][watcher.position + 1]
         fields == Observed(c, line)
         next == [watcher EXCEPT !.position = @ + 1]
     IN  /\ watcher' = IF fields # << >> /\ c \in DOMAIN chars
                       THEN [next EXCEPT !.at = "applying", !.fields = fields, !.more = Class(line)]
                       ELSE [next EXCEPT !.at = After(next)]
         /\ zone' = IF Tracked(c) /\ Zones(line) THEN (c :> line.value) @@ zone ELSE zone
         /\ told' = IF IsSso(c) THEN [told EXCEPT ![c] = fields @@ @] ELSE told
  /\ UNCHANGED <<accountVars, charVars, threadVars, loginVars, token, fileVars, dump, found, ops>>

ApplyLine ==
  /\ watcher.at = "applying"
  /\ ApplyUpdate(watcher.log, watcher.fields)
  /\ watcher' = [watcher EXCEPT !.at = IF watcher.more # << >> THEN "applying" ELSE After(watcher),
                                !.fields = watcher.more, !.more = << >>]
  /\ UNCHANGED <<accountVars, charFile, suspect, ui, loginVars, token, fileVars, zone, told,
                 dump, found, ops>>

-----------------------------------------------------------------------------
(* InventoryFileHandler, on a thread of its own, up to the lock of            *)
(* apply_update.                                                              *)
InventoryDumped(c, file) ==
  /\ Write
  /\ dump = NoDump
  /\ Tracked(c)
  /\ LET items == ParsedInventory(file)
     IN  /\ told' = IF IsSso(c) THEN [told EXCEPT ![c] = items @@ @] ELSE told
         /\ dump' = IF c \in DOMAIN chars THEN [char |-> c, items |-> items] ELSE dump
  /\ UNCHANGED <<accountVars, charVars, threadVars, loginVars, token, logs, newest, modified, watcher,
                 zone, found, ops>>

DumpApplied ==
  /\ dump # NoDump
  /\ ApplyUpdate(dump.char, dump.items)
  /\ dump' = NoDump
  /\ UNCHANGED <<accountVars, charFile, suspect, ui, loginVars, token, fileVars, watcher, zone,
                 told, found, ops>>

-----------------------------------------------------------------------------

(* LogFileHandler.__init__ after a restart: the newest log, from its end. *)
RestartWatching ==
  /\ Restart
  /\ LET seeks == newest # NoAccount /\ (token \/ DOMAIN chars' # {})
     IN  /\ watcher' = IF seeks THEN Following(newest) ELSE [NotFollowing EXCEPT !.log = newest]
         /\ found' = (seeks => Recent(logs[newest]) # {})
  /\ modified' = {}
  /\ zone' = << >>
  /\ dump' = NoDump
  /\ UNCHANGED <<token, logs, newest, writes, told>>

LogNext ==
  /\ \/ LcNext /\ UNCHANGED watchVars
     \/ \E c \in Characters, line \in LogLines \cup {Welcome} : ClientLogs(c, line)
     \/ \E c \in Characters : OnModified(c)
     \/ ReadLine \/ ApplyLine
     \/ \E c \in Characters, file \in Dumps : InventoryDumped(c, file)
     \/ DumpApplied
     \/ RestartWatching
  /\ ops' + writes' <= MaxEvents

(* What saves: the timer threads, and the UI thread once it has begun to.      *)
Saves ==
  /\ SaveNow \/ UiWritten \/ \E t \in Timers : Flush(t) \/ TimerWritten(t)
  /\ UNCHANGED watchVars

(* A started timer fires and its thread ends; the UI thread finishes what it   *)
(* has begun to save: as long as one of them can go on, one does.  Nothing is  *)
(* assumed of the user or of the client.                                       *)
LogSpec == LogInit /\ [][LogNext]_logVars /\ WF_logVars(Saves)

-----------------------------------------------------------------------------
(* Properties *)

(* Every variable keeps its type, and the watcher a position inside its log.  *)
(* (LogFileHandler, local_characters)                                         *)
LogTypeOK ==
  /\ \A i \in DOMAIN accounts : accounts[i].name \in Accounts
  /\ pendingAcct \in Accounts \cup {NoAccount}
  /\ DOMAIN chars \cup DOMAIN charFile \subseteq Characters
  /\ timerRef \in Timers \cup {0}
  /\ \A t \in Timers : timers[t].at \in {"idle", "armed", "writing"}
  /\ ui.at \in {"idle", "editing", "toSave", "writing"}
  /\ modified \subseteq Characters
  /\ watcher.at \in {"started", "idle", "reading", "applying"}
  /\ watcher.log \in Characters => watcher.position \in 0 .. Len(logs[watcher.log])
  /\ ops \in 0 .. MaxOps

(* When no save is scheduled or under way, the file holds what is in memory;  *)
(* excepted are a save that failed and one that overlapped with another.      *)
(* (_schedule_save, _flush, save_now)                                         *)
QuietMeansSaved ==
  /\ ui.at \in {"idle", "editing"}
  /\ \A t \in Timers : timers[t].at = "idle"
  /\ ~suspect
  => charFile = chars

(* A name that may log in belongs to the account it leads to, unless the load *)
(* replaced the row it stood in; and a name that never stood twice leads to   *)
(* its account.  The names are those of memory: one typed with a capital      *)
(* letter can log in after the next load.  (load_local_accounts,              *)
(* on_edit_local_account, on_delete_local_account)                            *)
NameMapExact ==
  /\ \A n \in DOMAIN nameMap \ orphans :
       \E i \in DOMAIN accounts : accounts[i].name = nameMap[n] /\ n \in Names(accounts[i])
  /\ Without(nameMap, shared \cup orphans) = Without(MapOf(accounts), shared \cup orphans)

(* The newest log has been read to its end when no event is under way; if a   *)
(* login marker was in sight at the seek, the SSO knows the zone of the last  *)
(* zone line since the last login.  (on_modified, _seek_to_latest_position,   *)
(* handle_log_line)                                                           *)
CaughtUp ==
  token /\ modified = {} /\ watcher.at = "idle" =>
    LET c == newest
        log == logs[c]
        since == {i \in DOMAIN log : Zones(log[i]) /\ \A w \in Welcomes(log) : w < i}
    IN  /\ watcher.log = c /\ watcher.position = Len(log)
        /\ found /\ since # {} /\ IsSso(c) =>
             /\ c \in DOMAIN zone /\ zone[c] = log[Max(since)].value
             /\ "park" \in DOMAIN told[c] /\ told[c]["park"] = log[Max(since)].value

(* What the watcher adds: a character that comes without a click.             *)
Created == IF modified' # modified /\ ops' = ops THEN DOMAIN chars' \ DOMAIN chars ELSE {}

(* A character that the watcher adds is given the account of the last login   *)
(* that was noted, in lower case, and only if that was a login to a local     *)
(* account and one of the name still exists.  (note_login, try_auto_create)   *)
CreatedSoundly ==
  \A c \in Created :
    /\ decided.method \in {"local", "local_char"}
    /\ chars'[c].account = Lower[decided.account]
    /\ chars'[c].account \in AccountNames

AutoCreateSound == [][CreatedSoundly]_logVars

(* The docstring of note_login, local_characters.py:189-190: a stale local    *)
(* login cannot be paired with a later session that is not local.             *)
(* (_async_auth_and_forward, note_login, try_auto_create)                     *)
NeverMispaired == [][\A c \in Created : ~decided.unnoted]_logVars

(* Getting more of an item never makes a character look less ready, although *)
(* the sub-checks are rolled up by two rules (the worst counts, but a green   *)
(* one lifts it) and one of them may be blank; and what dumps and lines leave *)
(* in a character's record is always one of the inventories this is said of.  *)
(* (readiness_cleric, readiness_magician, _readiness_roll_up, apply_update)   *)
ReadinessMonotone ==
  /\ \A c \in DOMAIN chars : Recorded(chars[c].seen)
  /\ MoreIsNoLessReady

(* What changes is saved in the end, unless a save fails or overlaps with     *)
(* another.  (_schedule_save, _flush)                                         *)
ChangesSaved == <>[](suspect \/ charFile = chars)

=============================================================================
