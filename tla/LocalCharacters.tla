--------------------------- MODULE LocalCharacters ---------------------------
(***************************************************************************)
(* The player's own accounts and characters: the tables in memory, the two *)
(* CSV files they are saved to, and the threads that change them.  The UI  *)
(* thread edits both, the login proxy tells which account was logged in,   *)
(* the log watcher (module LogWatcher) adds and updates characters, and    *)
(* timer threads save them.  What local_characters.py does under its lock  *)
(* is one action; what it does outside is not.                             *)
(***************************************************************************)
EXTENDS Naturals, Sequences, FiniteSetsExt, Tables

CONSTANTS
  Accounts,      \* account names, in every spelling the user may give them
  Aliases,       \* the sets of aliases the user may give an account
  Lower,         \* str.lower: the lower-case spelling of every name
  Characters,    \* character names
  Usernames,     \* what players type into the login screen
  SsoNames,      \* the names the SSO knows: ALL_CACHED_NAMES
  SkipNames,     \* SKIP_SSO_ACCOUNTS
  NoAccount,     \* no account: "" and None
  Starts,        \* how the program may be found: [accounts, characters, token]
  Timers,        \* timer threads
  MaxOps         \* bound on clicks, logins and restarts

ASSUME LocalAssumption ==
  /\ Timers \subseteq Nat \ {0}
  /\ MaxOps \in Nat
  /\ NoAccount \notin Accounts

(* What is in lower case stays as it is, and no account is still none.        *)
ASSUME LowerAssumption ==
  /\ Accounts \cup Usernames \cup {"", NoAccount} \cup (UNION Aliases) \subseteq DOMAIN Lower
  /\ \A n \in DOMAIN Lower : Lower[n] \in DOMAIN Lower /\ Lower[Lower[n]] = Lower[n]
  /\ \A a \in Accounts : Lower[a] \in Accounts
  /\ Lower[NoAccount] = NoAccount

(* An account in local_accounts.csv; an empty cell is read as the alias "".   *)
AccountRows == [name : Accounts, aliases : SUBSET DOMAIN Lower]

(* A table of characters with, for each, the account and what is known.       *)
CharacterTable(t) ==
  /\ DOMAIN t \subseteq Characters
  /\ t = [c \in DOMAIN t |-> t[c]]

(* The files are as an earlier run of the program has left them.              *)
ASSUME StartsAssumption ==
  \A s \in Starts : s.accounts \in Seq(AccountRows) /\ CharacterTable(s.characters)

VARIABLES
  accounts,     \* LOCAL_ACCOUNTS in dict order: [name, aliases] at each position
  nameMap,      \* LOCAL_ACCOUNT_NAME_MAP
  accountFile,  \* local_accounts.csv
  shared,       \* history: names that have stood twice in the accounts since the load
  orphans,      \* history: aliases of the rows that a later row replaced at the load
  chars,        \* LOCAL_CHARACTERS; its keys are LOCAL_CHARACTER_NAMES
  charFile,     \* local_characters.csv
  pendingAcct,  \* _pending_local_account
  decided,      \* history: the last note_login, and whether a login went by unnoted since
  timerRef,     \* the thread of _save_timer, 0 for None
  timers,       \* where each timer thread is, and its snapshot
  ui,           \* where the UI thread is, with its dialog and its snapshot
  suspect,      \* history: the last save overlapped with another, or failed
  ops           \* clicks, logins and restarts so far

accountVars == <<accounts, nameMap, accountFile, shared, orphans>>
charVars == <<chars, charFile, suspect>>
threadVars == <<timerRef, timers, ui>>
loginVars == <<pendingAcct, decided>>

Op == ops < MaxOps /\ ops' = ops + 1

-----------------------------------------------------------------------------
(* Accounts *)

Names(account) == {account.name} \cup account.aliases

(* The CSV joins the aliases with "|": no aliases are written as "", and an *)
(* empty cell is read as one alias, "".                                     *)
AliasCell(aliases) == IF aliases = {} THEN {""} ELSE aliases

Saved(accts) == [i \in DOMAIN accts |-> [accts[i] EXCEPT !.aliases = AliasCell(@)]]

(* The load puts names and aliases in lower case; the window keeps them as    *)
(* they are typed.                                                            *)
Lowered(rows) ==
  [i \in DOMAIN rows |-> [name |-> Lower[rows[i].name], aliases |-> {Lower[x] : x \in rows[i].aliases}]]

(* A name that stands in several rows belongs to the last. *)
MapOf(rows) ==
  [n \in UNION {Names(rows[i]) : i \in DOMAIN rows} |->
     rows[CHOOSE i \in DOMAIN rows :
            n \in Names(rows[i]) /\ \A j \in DOMAIN rows : n \in Names(rows[j]) => j <= i].name]

(* A row takes the place of the first one of the same account.                *)
Replaced(rows) == {i \in DOMAIN rows : \E j \in DOMAIN rows : i < j /\ rows[j].name = rows[i].name}

First(rows) == {i \in DOMAIN rows : \A j \in DOMAIN rows : rows[j].name = rows[i].name => i <= j}

Merged(rows) ==
  [i \in First(rows) |-> rows[CHOOSE j \in DOMAIN rows \ Replaced(rows) : rows[j].name = rows[i].name]]

(* The names that stand twice: in two accounts, or as an account's name and  *)
(* its alias. The map keeps one entry of them.                               *)
Shared(rows) ==
  {n \in UNION {Names(rows[i]) : i \in DOMAIN rows} :
     \E i, j \in DOMAIN rows :
       /\ n \in Names(rows[i]) \cap Names(rows[j])
       /\ i = j => n = rows[i].name /\ n \in rows[i].aliases}

(* The map keeps the aliases of a replaced row, which no account has any more. *)
Orphans(rows) == UNION {rows[i].aliases : i \in Replaced(rows)}

IndexOf(a) == CHOOSE i \in DOMAIN accounts : accounts[i].name = a

AccountNames == {accounts[i].name : i \in DOMAIN accounts}

(* A new account comes last; the position of a deleted one stays free.        *)
Added(accts, row) == (Max(DOMAIN accts \cup {0}) + 1) :> row @@ accts

Given(names, a) == [n \in names |-> a]

(* load_local_accounts. *)
Load(file) ==
  LET rows == Lowered(file)
  IN  /\ accounts' = Merged(rows)
      /\ nameMap' = MapOf(rows)
      /\ shared' = Shared(rows)
      /\ orphans' = Orphans(rows)

-----------------------------------------------------------------------------
(* Characters: "seen" holds the fields that are known, "account" is in lower  *)
(* case.                                                                      *)

Entry(account, seen) == [account |-> account, seen |-> seen]

Idle == [at |-> "idle", rows |-> << >>]

Busy(state) == state.at = "writing"

Writing == (\E t \in Timers : Busy(timers[t])) \/ Busy(ui)

LcInit ==
  /\ \E s \in Starts : accountFile = s.accounts /\ charFile = s.characters
  /\ LET rows == Lowered(accountFile)
     IN  /\ accounts = Merged(rows)
         /\ nameMap = MapOf(rows)
         /\ shared = Shared(rows)
         /\ orphans = Orphans(rows)
  /\ chars = charFile
  /\ pendingAcct = NoAccount
  /\ decided = [method |-> "none", account |-> NoAccount, unnoted |-> FALSE]
  /\ timerRef = 0
  /\ timers = [t \in Timers |-> Idle]
  /\ ui = [at |-> "idle", rows |-> << >>, char |-> NoAccount, copy |-> << >>]
  /\ suspect = FALSE
  /\ ops = 0

(* _schedule_save: one timer at a time. *)
ScheduleSave ==
  \/ timerRef # 0 /\ UNCHANGED <<timerRef, timers>>
  \/ /\ timerRef = 0
     /\ \E t \in Timers :
          /\ timers[t].at = "idle"
          /\ \A s \in Timers : timers[s].at = "idle" => t <= s
          /\ timerRef' = t
          /\ timers' = [timers EXCEPT ![t].at = "armed"]

(* A dropped step: a change of a known field is not saved. *)
ApplyUpdate_FaultUnsaved(c, fields) ==
  LET old == IF c \in DOMAIN chars THEN chars[c] ELSE Entry(NoAccount, << >>)
      new == [old EXCEPT !.seen = fields @@ @]
  IN  /\ chars' = (c :> new) @@ chars
      /\ IF DOMAIN new.seen # DOMAIN old.seen THEN ScheduleSave
                                              ELSE UNCHANGED <<timerRef, timers>>

(* apply_update under the lock: _ensure_entry creates what is not there any  *)
(* more, and what changes nothing is not saved.                              *)
ApplyUpdate(c, fields) ==
  LET old == IF c \in DOMAIN chars THEN chars[c] ELSE Entry(NoAccount, << >>)
      new == [old EXCEPT !.seen = fields @@ @]
  IN  /\ chars' = (c :> new) @@ chars
      /\ IF new # old THEN ScheduleSave ELSE UNCHANGED <<timerRef, timers>>

TryAutoCreate(c) ==
  IF pendingAcct \in AccountNames /\ c \notin DOMAIN chars
  THEN chars' = (c :> Entry(pendingAcct, << >>)) @@ chars /\ ScheduleSave
  ELSE UNCHANGED <<chars, timerRef, timers>>

-----------------------------------------------------------------------------
(* The login proxy *)

(* _needs_sso and _try_sync_rewrite: the way a username takes. *)
Route(u) ==
  IF u \in SkipNames THEN [method |-> "skip_sso", account |-> u]
  ELSE IF u \in DOMAIN nameMap THEN [method |-> "local", account |-> nameMap[u]]
  ELSE IF u \in DOMAIN chars
       THEN IF chars[u].account \in AccountNames
            THEN [method |-> "local_char", account |-> chars[u].account]
            ELSE [method |-> "passthrough", account |-> u]
  ELSE IF u \in SsoNames THEN [method |-> "sso", account |-> u]
  ELSE [method |-> "passthrough", account |-> u]

Noted(login) == [method |-> login.method, account |-> login.account, unnoted |-> FALSE]

(* A missing reset: a login that is not local leaves the account pending. *)
NoteLogin_FaultKept(login) ==
  /\ decided' = Noted(login)
  /\ pendingAcct' = IF login.method \in {"local", "local_char"} THEN Lower[login.account]
                    ELSE pendingAcct

(* Any method that is not local clears the pending account. *)
NoteLogin(login) ==
  /\ decided' = Noted(login)
  /\ pendingAcct' = IF login.method \in {"local", "local_char"} THEN Lower[login.account]
                    ELSE NoAccount

(* A login that the SSO refuses, or that there is no token for, is forwarded  *)
(* as it is, and note_login is not called.                                    *)
Unnoted == decided' = [decided EXCEPT !.unnoted = TRUE] /\ UNCHANGED pendingAcct

(* LOCAL_ACCOUNTS has no account for the name in the map: the KeyError ends    *)
(* the handler and the Login is lost.                                         *)
Unknown(login) == login.method = "local" /\ login.account \notin AccountNames

Login(u) ==
  /\ Op
  /\ LET login == Route(Lower[u])
     IN  \/ ~Unknown(login) /\ NoteLogin(login)
         \/ login.method = "sso" /\ Unnoted
         \/ Unknown(login) /\ UNCHANGED loginVars
  /\ UNCHANGED <<accountVars, charVars, threadVars>>

-----------------------------------------------------------------------------
(* The UI thread: accounts *)

Click == Op /\ ui.at = "idle"

(* A file that cannot be written to the end keeps its old rows or the first   *)
(* of the new ones; the user is told, the tables in memory stand.             *)
SaveAccounts(accts) ==
  /\ accounts' = accts
  /\ shared' = shared \cup Shared(accts)
  /\ accountFile' \in {accountFile} \cup {Without(Saved(accts), {i \in DOMAIN accts : i > k}) :
                                             k \in {0} \cup DOMAIN accts}
  /\ UNCHANGED <<orphans, charVars, threadVars, loginVars>>

AddAccount(a, aliases) ==
  /\ Click
  /\ a \notin AccountNames
  /\ nameMap' = Given(aliases, a) @@ (a :> a) @@ nameMap
  /\ SaveAccounts(Added(accounts, [name |-> a, aliases |-> aliases]))

(* A dropped step: the old aliases stay in the map. *)
EditAccount_FaultOldAliases(a, aliases) ==
  /\ Click
  /\ a \in AccountNames
  /\ nameMap' = Given(aliases, a) @@ nameMap
  /\ SaveAccounts([accounts EXCEPT ![IndexOf(a)].aliases = aliases])

EditAccount(a, aliases) ==
  /\ Click
  /\ a \in AccountNames
  /\ nameMap' = Given(aliases, a) @@ Without(nameMap, accounts[IndexOf(a)].aliases)
  /\ SaveAccounts([accounts EXCEPT ![IndexOf(a)].aliases = aliases])

DeleteAccount(a) ==
  /\ Click
  /\ a \in AccountNames
  /\ nameMap' = Without(nameMap, Names(accounts[IndexOf(a)]))
  /\ SaveAccounts(Without(accounts, {IndexOf(a)}))

(* on_refresh_account_cache reads the file again. *)
ReloadAccounts ==
  /\ Click
  /\ Load(accountFile)
  /\ UNCHANGED <<accountFile, charVars, threadVars, loginVars>>

-----------------------------------------------------------------------------
(* The UI thread: characters.  set_entry schedules nothing, save_now follows. *)

AddCharacter(c, account) ==
  /\ Click
  /\ c \notin DOMAIN chars
  /\ chars' = (c :> Entry(Lower[account], << >>)) @@ chars
  /\ ui' = [ui EXCEPT !.at = "toSave"]
  /\ UNCHANGED <<charFile, suspect, timerRef, timers, accountVars, loginVars>>

(* The dialog shows a copy; the watcher goes on meanwhile. *)
EditOpens(c) ==
  /\ Click
  /\ c \in DOMAIN chars
  /\ ui' = [ui EXCEPT !.at = "editing", !.char = c, !.copy = chars[c].seen]
  /\ UNCHANGED <<charVars, timerRef, timers, accountVars, loginVars>>

EditSaves(account) ==
  /\ ui.at = "editing"
  /\ chars' = (ui.char :> Entry(Lower[account], ui.copy)) @@ chars
  /\ ui' = [ui EXCEPT !.at = "toSave", !.char = NoAccount, !.copy = << >>]
  /\ UNCHANGED <<charFile, suspect, timerRef, timers, accountVars, loginVars, ops>>

EditCancelled ==
  /\ ui.at = "editing"
  /\ ui' = [ui EXCEPT !.at = "idle", !.char = NoAccount, !.copy = << >>]
  /\ UNCHANGED <<charVars, timerRef, timers, accountVars, loginVars, ops>>

DeleteCharacter(c) ==
  /\ Click
  /\ c \in DOMAIN chars
  /\ chars' = Without(chars, {c})
  /\ ui' = [ui EXCEPT !.at = "toSave"]
  /\ UNCHANGED <<charFile, suspect, timerRef, timers, accountVars, loginVars>>

(* save_now under the lock: the timer is cancelled, or it has just fired and  *)
(* waits for the lock.                                                        *)
SaveNow ==
  /\ ui.at = "toSave"
  /\ timers' \in {timers, [t \in Timers |-> IF t = timerRef THEN Idle ELSE timers[t]]}
  /\ timerRef' = 0
  /\ ui' = [ui EXCEPT !.at = "writing", !.rows = chars]
  /\ suspect' = Writing
  /\ UNCHANGED <<chars, charFile, accountVars, loginVars, ops>>

-----------------------------------------------------------------------------
(* Timer threads *)

(* A swapped order: the timer is forgotten when the file has been written. *)
Flush_FaultTimerKept(t) ==
  /\ timers[t].at = "armed"
  /\ timers' = [timers EXCEPT ![t] = [at |-> "writing", rows |-> chars]]
  /\ suspect' = Writing
  /\ UNCHANGED <<chars, charFile, timerRef, ui, accountVars, loginVars, ops>>

(* The timer fires: _flush under the lock. *)
Flush(t) ==
  /\ timers[t].at = "armed"
  /\ timerRef' = 0
  /\ timers' = [timers EXCEPT ![t] = [at |-> "writing", rows |-> chars]]
  /\ suspect' = Writing
  /\ UNCHANGED <<chars, charFile, ui, accountVars, loginVars, ops>>

(* A file that was not written to the end. *)
Torn(rows) == {Without(rows, lost) : lost \in SUBSET DOMAIN rows}

(* save_local_characters outside the lock; it may fail, which is logged or   *)
(* shown and not tried again.                                                *)
Written(rows) ==
  \/ charFile' = rows /\ UNCHANGED suspect
  \/ charFile' \in {charFile} \cup Torn(rows) /\ suspect' = TRUE

UiWritten ==
  /\ Busy(ui)
  /\ Written(ui.rows)
  /\ ui' = [ui EXCEPT !.at = "idle", !.rows = << >>]
  /\ UNCHANGED <<chars, timerRef, timers, accountVars, loginVars, ops>>

TimerWritten(t) ==
  /\ Busy(timers[t])
  /\ Written(timers[t].rows)
  /\ timers' = [timers EXCEPT ![t] = Idle]
  /\ UNCHANGED <<chars, timerRef, ui, accountVars, loginVars, ops>>

-----------------------------------------------------------------------------
(* The process ends, at a crash or on exit: no save is waited for.  It starts *)
(* again from the two files.                                                  *)
Restart ==
  /\ Op
  /\ charFile' \in {charFile} \cup (IF Busy(ui) THEN Torn(ui.rows) ELSE {})
                            \cup UNION {Torn(timers[t].rows) : t \in {s \in Timers : Busy(timers[s])}}
  /\ chars' = charFile'
  /\ Load(accountFile)
  /\ pendingAcct' = NoAccount
  /\ timerRef' = 0
  /\ timers' = [t \in Timers |-> Idle]
  /\ ui' = [at |-> "idle", rows |-> << >>, char |-> NoAccount, copy |-> << >>]
  /\ suspect' = FALSE
  /\ UNCHANGED <<accountFile, decided>>

LcNext ==
  \/ \E u \in Usernames : Login(u)
  \/ \E a \in Accounts, s \in Aliases : AddAccount(a, s) \/ EditAccount(a, s)
  \/ \E a \in Accounts : DeleteAccount(a)
  \/ ReloadAccounts
  \/ \E c \in Characters, a \in Accounts \cup {NoAccount} : AddCharacter(c, a)
  \/ \E c \in Characters : EditOpens(c) \/ DeleteCharacter(c)
  \/ \E a \in Accounts \cup {NoAccount} : EditSaves(a)
  \/ EditCancelled \/ SaveNow \/ UiWritten
  \/ \E t \in Timers : Flush(t) \/ TimerWritten(t)

=============================================================================
