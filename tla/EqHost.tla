------------------------------- MODULE EqHost -------------------------------
(***************************************************************************)
(* eqhost.txt names the login servers an EverQuest client talks to.  The   *)
(* proxy replaces it by a file that names the proxy alone, and keeps the   *)
(* player's own file as eqhost.txt.bak.  A file stands for the set of the  *)
(* hosts that its active lines name; each is replaced by an atomic rename. *)
(***************************************************************************)
EXTENDS FiniteSets, Naturals

CONSTANTS
  Dirs,         \* the EverQuest installations
  NoDir,        \* no installation
  Detected,     \* the one find_eq_directory finds by itself, or NoDir
  Hosts,        \* the addresses an eqhost.txt may name
  Proxy,        \* DEFAULT_PROXY_ADDRESS
  Default,      \* DEFAULT_LOGIN_SERVER
  NoFile,       \* a file that does not exist
  HostFiles,    \* external: what the player, the patcher or the game writes
  StartHosts    \* external: the files that may be there when the proxy is installed

Files == {NoFile} \cup SUBSET Hosts

ASSUME EqHostAssumption ==
  /\ NoDir \notin Dirs
  /\ Detected \in Dirs \cup {NoDir}
  /\ {Proxy, Default} \subseteq Hosts /\ Proxy # Default /\ {Default} # NoFile
  /\ HostFiles \subseteq SUBSET Hosts /\ {Proxy} \notin HostFiles
  /\ StartHosts \subseteq [Dirs -> Files]

VARIABLES
  host,     \* eqhost.txt of each installation
  backup,   \* eqhost.txt.bak of each installation
  own,      \* history: the player's file as of before the proxy, NoFile if unknown
  dir       \* _cache["eq_directory"]

eqVars == <<host, backup, own, dir>>

(* _has_active_non_proxy_host *)
Direct(file) == file # NoFile /\ file \ {Proxy} # {}

OwnOf(file) == IF Direct(file) THEN file ELSE NoFile

EqInit ==
  /\ host \in StartHosts
  /\ backup = [d \in Dirs |-> NoFile]
  /\ own = [d \in Dirs |-> OwnOf(host[d])]
  /\ dir = NoDir

(* find_eq_directory: the cached installation, the configured one, or the one *)
(* that is found.                                                             *)
FindEqDirectory(cached, configured) ==
  CASE cached # NoDir -> cached
    [] cached = NoDir /\ configured \in Dirs -> configured
    [] OTHER -> Detected

(* get_eqhost_path finds the file. *)
Found(d) == d # NoDir /\ host[d] # NoFile

(* is_using_proxy *)
UsingProxy(d) == Found(d) /\ host[d] = {Proxy}

-----------------------------------------------------------------------------
(* The outcomes of the operations on an installation: [host, backup, ok]. *)

Outcome(h, b, ok) == [host |-> h, backup |-> b, ok |-> ok]
Untouched(d, ok) == Outcome(host[d], backup[d], ok)

(* A dropped check: the file is saved whatever it names. *)
Snapshot_FaultVerbatim(file) == file

(* What enable_proxy saves: a restore must lead to a login server. *)
Snapshot(file) == IF Direct(file) THEN file ELSE {Default}

(* A dropped test: the backup is taken each time. *)
BackupFor_FaultAgain(d) == Snapshot(host[d])

BackupFor(d) == IF backup[d] = NoFile THEN Snapshot(host[d]) ELSE backup[d]

EnableProxy(d) ==
  IF ~Found(d) THEN {Untouched(d, FALSE)}
  ELSE {Untouched(d, FALSE), Outcome(host[d], BackupFor(d), FALSE), Outcome({Proxy}, BackupFor(d), TRUE)}

DisableProxy(d) ==
  IF ~Found(d) THEN {Untouched(d, FALSE)}
  ELSE {Untouched(d, FALSE),
        Outcome(IF backup[d] = NoFile THEN {Default} ELSE backup[d], NoFile, TRUE)}

RestoreBackup(d) ==
  IF ~Found(d) \/ backup[d] = NoFile THEN {Untouched(d, FALSE)}
  ELSE {Untouched(d, FALSE), Outcome(backup[d], NoFile, TRUE)}

Put(d, outcome) ==
  /\ host' = [host EXCEPT ![d] = outcome.host]
  /\ backup' = [backup EXCEPT ![d] = outcome.backup]
  /\ UNCHANGED own

(* external: the player, the patcher or the game writes eqhost.txt.  While a *)
(* backup exists, the proxy does not promise to keep the new file.           *)
HostFileWritten(d, file) ==
  /\ host[d] # file
  /\ host' = [host EXCEPT ![d] = file]
  /\ own' = [own EXCEPT ![d] = IF backup[d] = NoFile THEN OwnOf(file) ELSE NoFile]
  /\ UNCHANGED <<backup, dir>>

=============================================================================
