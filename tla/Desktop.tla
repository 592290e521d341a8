------------------------------- MODULE Desktop ------------------------------
(***************************************************************************)
(* The desktop program from its start to its end: settings, eqhost.txt and *)
(* updates, as the handlers of the window use them.  It may end by Exit,   *)
(* by being killed, or by starting its own update, and be started again.   *)
(***************************************************************************)
EXTENDS Settings, EqHost, Updater

CONSTANTS
  MaxOps,      \* bound on clicks, answers, kills and files written by others
  MaxFaults    \* bound on file operations that fail

ASSUME DesktopAssumption == {MaxOps, MaxFaults} \subseteq Nat /\ Dirs \subseteq Text

VARIABLES
  shown,    \* proxy_mode_choice: 0 SSO, 1 proxy only, 2 disabled
  ended,    \* history: how the last run ended
  ops,
  faults

desktopVars == <<settingsVars, eqVars, updateVars, shown, ended, ops, faults>>

DesktopInit ==
  /\ SettingsInit
  /\ EqInit
  /\ UpdaterInit
  /\ shown = 2
  /\ ended = "never"
  /\ ops = 0
  /\ faults = 0

Op == running # "none" /\ frames = << >> /\ ops < MaxOps /\ ops' = ops + 1

Spend(fails) == faults' = faults + (IF fails THEN 1 ELSE 0) /\ faults' <= MaxFaults

IsOn(c, key) == Setting(c, key) = "True"

(* update_eq_status *)
Status(h, d, c) ==
  CASE d = NoDir \/ h[d] # {Proxy} -> 2
    [] OTHER -> IF IsOn(c, "proxy_only") THEN 1 ELSE 0

-----------------------------------------------------------------------------
(* The start: the settings, eqhost.txt if the proxy is enabled, the window. *)
Start(name, ok) ==
  /\ running = "none"
  /\ Runs(name)
  /\ LoadSettings(ok)
  /\ dir' = FindEqDirectory(NoDir, Setting(config', "eq_directory"))
  /\ IF IsOn(config', "proxy_enabled") /\ dir' # NoDir
     THEN \E o \in EnableProxy(dir') : Put(dir', o) /\ Spend(~ok \/ (~o.ok /\ Found(dir')))
     ELSE UNCHANGED <<host, backup, own>> /\ Spend(~ok)
  /\ shown' = Status(host', dir', config')
  /\ ended' = "running"
  /\ UNCHANGED ops

(* A start that fails on the settings; without a repair it changes nothing. *)
StartBreaks ==
  /\ running = "none"
  /\ \E name \in {"stable", "backup"} : disk[name] \in Versions
  /\ LoadBreaks
  /\ Spend(TRUE)
  /\ UNCHANGED <<eqVars, updateVars, shown, ended, ops>>

(* close_application; a tray menu's Exit during an update is left out. *)
Exit ==
  /\ frames = << >>
  /\ Ends(FALSE)
  /\ IF UsingProxy(dir)
     THEN \E o \in DisableProxy(dir) :
            /\ Put(dir, o)
            /\ Spend(~o.ok)
            /\ ended' = IF o.ok THEN "clean" ELSE "failed"
     ELSE UNCHANGED <<host, backup, own, faults>> /\ ended' = "clean"
  /\ ForgetSettings
  /\ UNCHANGED <<dir, shown, ops>>

(* The process dies, also between the two writes of enable_proxy, or ends    *)
(* because its port is taken, which leaves eqhost.txt as it is.              *)
Dies ==
  /\ ops < MaxOps /\ ops' = ops + 1
  /\ Ends(frames # << >>)
  /\ \/ UNCHANGED <<host, backup, own>>
     \/ Found(dir) /\ backup[dir] = NoFile /\ Put(dir, Outcome(host[dir], BackupFor(dir), FALSE))
  /\ ended' = "killed"
  /\ ForgetSettings
  /\ UNCHANGED <<dir, shown, faults>>

(* os._exit, past close_application, once the new program is started. *)
Relaunches ==
  /\ frames # << >> /\ Inner.step = "launching"
  /\ Ends(FALSE)
  /\ ended' = "updated"
  /\ ForgetSettings
  /\ UNCHANGED <<host, backup, own, dir, shown, ops, faults>>

-----------------------------------------------------------------------------
(* on_proxy_mode_changed.  When eqhost.txt cannot be written, the choice is  *)
(* set to the mode the file is in, and that selection is handled first.      *)

Modes(mode) ==
  UNION {SetConfig(o, "proxy_enabled", Bool(mode # 2)) :
           o \in SetConfig(Unchanged, "proxy_only", Bool(mode = 1))}

(* The operation on the file, and the mode whose settings are then stored. *)
Selected(mode) ==
  CASE mode # 2 /\ ~UsingProxy(dir) ->
         {<<o, IF o.ok THEN mode ELSE 2>> : o \in EnableProxy(dir)}
    [] mode = 2 /\ UsingProxy(dir) ->
         {<<o, IF o.ok THEN 2 ELSE IF IsOn(config, "proxy_only") THEN 1 ELSE 0>> : o \in DisableProxy(dir)}
    [] OTHER -> {<<Untouched(dir, TRUE), mode>>}

ModeChosen(mode) ==
  /\ Op
  /\ mode # shown
  /\ dir # NoDir
  /\ \E s \in Selected(mode) : \E o \in Modes(s[2]) :
       /\ Put(dir, s[1])
       /\ Save(o)
       /\ shown' = IF o.done THEN Status(host', dir, config') ELSE s[2]
       /\ Spend((~s[1].ok /\ Found(dir)) \/ ~o.done)
  /\ UNCHANGED <<dir, updateVars, ended>>

(* Without an installation nothing but the setting changes. *)
ModeWithoutGame(mode) ==
  /\ Op
  /\ mode # shown
  /\ dir = NoDir
  /\ \E o \in Modes(2) : Save(o) /\ Spend(~o.done)
  /\ shown' = 2
  /\ UNCHANGED <<eqVars, updateVars, ended>>

(* on_browse_eq_directory.  The installation that was in use stays as it is. *)
Browse(d, ok) ==
  /\ Op
  /\ config' = WithSetting(config, "eq_directory", d)
  /\ Write(config', ok)
  /\ dir' = IF ok THEN d ELSE dir
  /\ shown' = IF ok THEN Status(host, d, config) ELSE shown
  /\ Spend(~ok)
  /\ UNCHANGED <<active, field, host, backup, own, updateVars, ended>>

(* on_restore_backup; the settings stay, and the next start enables again. *)
RestoreClicked ==
  /\ Op
  /\ dir # NoDir
  /\ \E o \in RestoreBackup(dir) :
       Put(dir, o) /\ Spend(~o.ok /\ Found(dir) /\ backup[dir] # NoFile)
  /\ shown' = Status(host', dir, config)
  /\ UNCHANGED <<settingsVars, dir, updateVars, ended>>

ApiChosen(b, ok, ok2) ==
  /\ Op
  /\ SsoApiChosen(b, ok, ok2)
  /\ ok \/ ok2
  /\ Spend(~ok \/ ~ok2)
  /\ UNCHANGED <<eqVars, updateVars, shown, ended>>

TokenEntered(token, ok) ==
  /\ Op
  /\ TokenTyped(token, ok)
  /\ Spend(~ok)
  /\ UNCHANGED <<eqVars, updateVars, shown, ended>>

FileWritten(d, file) ==
  /\ ops < MaxOps /\ ops' = ops + 1
  /\ HostFileWritten(d, file)
  /\ UNCHANGED <<settingsVars, updateVars, shown, ended, faults>>

CheckAnswers ==
  /\ UpdateFound
  /\ ops < MaxOps /\ ops' = ops + 1
  /\ UNCHANGED <<settingsVars, eqVars, shown, ended, faults>>

UpdateStep ==
  /\ \/ UpdateDeclined \/ UpdateAccepted
     \/ DownloadEnds \/ DownloadBreaks
     \/ RenameToStableFails \/ LaunchFails
     \/ \E asset \in AssetNames : UpdateUnpacked(asset)
  /\ UNCHANGED <<settingsVars, eqVars, shown, ended, ops, faults>>

DesktopNext ==
  \/ \E name \in {"stable", "backup"}, ok \in BOOLEAN : Start(name, ok)
  \/ StartBreaks \/ Exit \/ Dies \/ Relaunches
  \/ \E mode \in 0..2 : ModeChosen(mode) \/ ModeWithoutGame(mode)
  \/ \E d \in Dirs, ok \in BOOLEAN : Browse(d, ok)
  \/ RestoreClicked
  \/ \E b \in Backends, ok \in BOOLEAN, ok2 \in BOOLEAN : ApiChosen(b, ok, ok2)
  \/ \E token \in Tokens, ok \in BOOLEAN : TokenEntered(token, ok)
  \/ \E d \in Dirs, file \in HostFiles : FileWritten(d, file)
  \/ CheckAnswers
  \/ UpdateStep

DesktopSpec == DesktopInit /\ [][DesktopNext]_desktopVars

-----------------------------------------------------------------------------
(* Properties *)

DesktopTypeOK ==
  /\ DOMAIN stored = {"defaults", "tokens"} /\ DOMAIN config = {"defaults", "tokens"}
  /\ active.name \in Text /\ field \in Text
  /\ {host, backup, own} \subseteq [Dirs -> Files]
  /\ \A d \in Dirs : backup[d] # NoFile => Direct(backup[d])
  /\ dir \in Dirs \cup {NoDir}
  /\ running \in Versions \cup {"none"} /\ Len(frames) <= MaxChecks
  /\ shown \in 0..2 /\ ops \in 0..MaxOps /\ faults \in 0..MaxFaults

(* The player's own eqhost.txt is never lost: it is the file itself or its   *)
(* backup, whatever fails, dies, restarts or is updated between the backup,  *)
(* the proxy's file and the restore.  (enable_proxy, disable_proxy,          *)
(* restore_backup)                                                           *)
OwnFileKept == \A d \in Dirs : own[d] # NoFile => own[d] \in {host[d], backup[d]}

(* After an Exit whose restore did not fail, the installation in use does    *)
(* not point at a proxy that is gone, also when the file was the proxy's     *)
(* before the first start, or a killed run left it.  (close_application,     *)
(* enable_proxy)                                                             *)
ExitIsDirect == ended = "clean" /\ Found(dir) => host[dir] # {Proxy}

(* A restart finds what the running program works with: the same name of the *)
(* backend, the same token, and the same token for every other backend,      *)
(* whenever the last write went through.  The URL is not compared: SSO_API   *)
(* keeps the value from before a migration until the next start.             *)
(* (set_sso_api, set_api_token_for_backend against config_repair and the     *)
(* migration of the old backend name)                                        *)
RestartSame ==
  running # "none" /\ Saved /\ active.name # "" =>
    LET loaded == LoadedConfig(stored)
        backend == LoadedBackend(stored)
    IN  /\ backend.name = active.name /\ backend.token = active.token
        /\ \A b \in Backends : GetApiToken(loaded, b) = GetApiToken(config, b)

(* No handler changes the token of a backend that is not active after it.    *)
(* (set_sso_api swaps the backend before the field's signal stores the       *)
(* token)                                                                    *)
OtherTokensKept ==
  [][running # "none" /\ running' # "none" =>
       \A b \in Backends \ {active'.name} : GetApiToken(config', b) = GetApiToken(config, b)]_desktopVars

(* One repair is enough: what it writes needs none, unless the backend is    *)
(* an unknown custom one, or a key without a name or with the URL of an      *)
(* unknown one is left.  (repair_sections, config_text_needs_repair)         *)
RepairSettles ==
  LET repaired == RepairSections(stored)
      tokens == repaired.tokens
  IN  running = "none" /\ NeedsRepair(Written(repaired)) =>
        \/ DefaultOf(repaired.defaults, "sso_api_name") \in DOMAIN LabelUrl
        \/ "" \in DOMAIN tokens
        \/ "Custom" \in DOMAIN tokens /\ tokens["Custom"] \in Urls \ DOMAIN UrlName

(* A token that the file holds for a backend, under whichever of the names   *)
(* it was written, is not blanked by the repair.  (_repair_api_tokens)       *)
RepairKeepsTokens ==
  running = "none" => \A i \in DOMAIN stored.tokens :
    LET entry == stored.tokens[i]
    IN  Collapsed(entry.values) # "" /\ SafeName(entry) \notin Unsafe \cup {OldName} =>
          GetApiToken(RepairSections(stored), SafeName(entry)) # ""

(* No update leaves the player without a program: whatever step fails, a     *)
(* whole executable is on disk, under one of its names.                      *)
(* (_prompt_and_apply_update)                                                *)
ProgramOnDisk == \E name \in DOMAIN disk : disk[name] \in Versions

(* An update that is declined, cancelled or finds no zip leaves the program  *)
(* under its stable name, also when another check was answered in the middle *)
(* of it.  (_prompt_and_apply_update)                                        *)
StableKept == frames = << >> /\ ~broken => disk.stable \in Versions

=============================================================================
