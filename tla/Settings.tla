------------------------------ MODULE Settings ------------------------------
(***************************************************************************)
(* The settings: proxyconfig.ini, the parser that holds it in memory, and  *)
(* the globals of the active SSO backend, with one API token per backend.  *)
(* The whole parser is written after every change, and a write may fail.   *)
(***************************************************************************)
EXTENDS ConfigRepair

CONSTANTS
  Backends,      \* the names in SSO_API_OPTIONS
  BackendUrl,    \* their URLs
  Tokens,        \* what a user may type as a token, "" included
  ConfigFiles    \* the files that older versions and users leave

Texts(section) == section = [key \in DOMAIN section |-> section[key]]
                  /\ \A key \in DOMAIN section : section[key] \in Text

ASSUME SettingsAssumption ==
  /\ Heirs \subseteq Backends
  /\ Backends \subseteq Text \ (Unsafe \cup {"", OldName, "Custom"})
  /\ BackendUrl \in [Backends -> Text]
  /\ Tokens \subseteq Text

(* A file is a table of lists and a list of keys, whoever has written it.     *)
FileShape(file) ==
  /\ file = [defaults |-> file.defaults, tokens |-> file.tokens]
  /\ \A key \in DOMAIN file.defaults : file.defaults[key] \in Seq(Text)
  /\ file.tokens \in Seq([name : Text, values : Seq(Text)])

ASSUME FilesAssumption == \A file \in ConfigFiles : FileShape(file)

(* The URL in the name of the backend in use is the URL that is used.         *)
OwnUrl(defaults) ==
  LET name == DefaultOf(defaults, "sso_api_name")
  IN  name \in DOMAIN JoinedUrl /\ JoinedUrl[name] # "" =>
        DefaultOf(defaults, "sso_api") \in {"", JoinedUrl[name]}

(* Nobody types the URL of a backend as a token, or gives a backend's name    *)
(* with one URL another URL: a later start would take it for another backend. *)
ASSUME RestartAssumption ==
  /\ Tokens \cap DOMAIN UrlName = {}
  /\ \A file \in ConfigFiles : OwnUrl(CollapsedDefaults(file))

VARIABLES
  stored,   \* proxyconfig.ini
  config,   \* CONFIG; nothing while the program is not running
  active,   \* SSO_API_NAME, SSO_API, USER_API_TOKEN
  field     \* the text of the token field

settingsVars == <<stored, config, active, field>>

NoConfig == [defaults |-> << >>, tokens |-> << >>]
NoBackend == [name |-> "", api |-> "", token |-> ""]

SettingsInit ==
  /\ stored \in ConfigFiles
  /\ config = NoConfig
  /\ active = NoBackend
  /\ field = ""

Fallback(key) ==
  CASE key = "proxy_only" -> "False"
    [] key = "proxy_enabled" -> "True"
    [] OTHER -> ""

Setting(c, key) == IF key \in DOMAIN c.defaults THEN c.defaults[key] ELSE Fallback(key)
WithSetting(c, key, value) == [c EXCEPT !.defaults = key :> value @@ @]
Bool(b) == IF b THEN "True" ELSE "False"

GetApiToken(c, backend) == IF backend \in DOMAIN c.tokens THEN c.tokens[backend] ELSE ""
Legacy(c) == Setting(c, "user_api_token")
OwnOrLegacy(c, backend) == IF GetApiToken(c, backend) # "" THEN GetApiToken(c, backend) ELSE Legacy(c)

(* _write_config *)
Write(c, ok) == stored' = IF ok THEN Written(c) ELSE stored

-----------------------------------------------------------------------------
(* The start of the program. *)

StartName(c) ==
  LET api == Setting(c, "sso_api")
  IN  ResolveBackendName(IF "sso_api_name" \in DOMAIN c.defaults THEN Setting(c, "sso_api_name")
                         ELSE NameOfUrl(api, ""), api)

Migrates(c) == StartName(c) = OldName \/ (StartName(c) = "" /\ Legacy(c) # "")

(* One backend has become two: both get its token. *)
Migrated(c) ==
  LET token == IF OldName \in DOMAIN c.tokens THEN c.tokens[OldName] ELSE Legacy(c)
      seeded == IF token = "" THEN c.tokens ELSE [h \in Heirs |-> token] @@ c.tokens
      named == WithSetting(c, "sso_api_name", "Good Guys")
  IN  [WithSetting(named, "sso_api", BackendUrl["Good Guys"])
         EXCEPT !.tokens = [n \in DOMAIN seeded \ {OldName} |-> seeded[n]]]

LoadedConfig(file) ==
  LET c == LoadConfigParser(file) IN IF Migrates(c) THEN Migrated(c) ELSE c

(* SSO_API keeps the value from before the migration. *)
LoadedBackend(file) ==
  LET c == LoadConfigParser(file)
      name == IF Migrates(c) THEN "Good Guys" ELSE StartName(c)
  IN  [name |-> name, api |-> Setting(c, "sso_api"),
       token |-> IF name = "" THEN Legacy(c) ELSE OwnOrLegacy(LoadedConfig(file), name)]

(* A repair that cannot be written is kept in memory; a migration that cannot *)
(* be written ends the program.  The writes are one step, as only the last is *)
(* left in the file; config.py 119-123 writes nothing, for a name that is     *)
(* read has been resolved by the repair.                                      *)
LoadSettings(ok) ==
  LET migrates == Migrates(LoadConfigParser(stored))
  IN  /\ ok \/ (NeedsRepair(stored) /\ ~migrates)
      /\ config' = LoadedConfig(stored)
      /\ active' = LoadedBackend(stored)
      /\ field' = active'.token
      /\ IF NeedsRepair(stored) \/ migrates THEN Write(config', ok) ELSE UNCHANGED stored

(* The program ends at the migration's write, with the repair in the file. *)
LoadBreaks ==
  /\ NeedsRepair(stored)
  /\ Migrates(LoadConfigParser(stored))
  /\ stored' = Written(RepairSections(stored))
  /\ UNCHANGED <<config, active, field>>

(* Whether the file says what the parser holds. *)
Saved == stored = Written(config) \/ LoadedConfig(stored) = config

ForgetSettings ==
  /\ config' = NoConfig
  /\ active' = NoBackend
  /\ field' = ""
  /\ UNCHANGED stored

-----------------------------------------------------------------------------
(* set_api_token_for_backend for the active backend b. *)

(* A dropped assignment: the legacy token of the active backend is not kept. *)
WithToken_FaultLegacy(c, b, token) ==
  [c EXCEPT !.tokens = ResolveBackendName(b.name, b.api) :> token @@ @]

WithToken(c, b, token) ==
  LET safe == ResolveBackendName(b.name, b.api)
      kept == [c EXCEPT !.tokens = safe :> token @@ @]
  IN  IF safe = b.name THEN WithSetting(kept, "user_api_token", token) ELSE kept

TokenTyped(token, ok) ==
  /\ token # field
  /\ field' = token
  /\ config' = WithToken(config, active, token)
  /\ active' = [active EXCEPT !.token = token]
  /\ Write(config', ok)

-----------------------------------------------------------------------------
(* set_sso_api, then the new token is put into the field, whose signal stores *)
(* it once more when the text changes.  A write that fails ends the handler.  *)

Chosen(backend) ==
  LET token == OwnOrLegacy(config, backend)
  IN  [name |-> backend, api |-> BackendUrl[backend], token |-> token]

WithBackend(c, b) ==
  WithSetting(WithSetting(WithSetting(c, "sso_api", b.api), "sso_api_name", b.name),
              "user_api_token", b.token)

(* A changed order: the field is set while the old backend is still active. *)
SsoApiChosen_FaultOrder(backend, ok, ok2) ==
  LET b == Chosen(backend)
      old == WithToken(config, active, b.token)
  IN  /\ active.name # backend
      /\ active' = b
      /\ field' = b.token
      /\ config' = WithBackend(old, b)
      /\ Write(WithBackend(old, b), ok)

SsoApiChosen(backend, ok, ok2) ==
  LET b == Chosen(backend)
      switched == WithBackend(config, b)
      stores == ok /\ b.token # field
      c == IF stores THEN WithToken(switched, b, b.token) ELSE switched
  IN  /\ active.name # backend
      /\ active' = b
      /\ field' = IF ok THEN b.token ELSE field
      /\ config' = c
      /\ stored' = CASE ~ok -> stored
                     [] ok /\ stores /\ ok2 -> Written(c)
                     [] OTHER -> Written(switched)

-----------------------------------------------------------------------------
(* _set_config after another change, only when the value is another one.  The *)
(* parser keeps what cannot be written, and the handler ends.                 *)
SetConfig(before, key, value) ==
  LET c == WithSetting(before.config, key, value)
  IN  IF ~before.done \/ Setting(before.config, key) = value THEN {before}
      ELSE {[config |-> c, stored |-> Written(c), done |-> TRUE],
            [config |-> c, stored |-> before.stored, done |-> FALSE]}

Unchanged == [config |-> config, stored |-> stored, done |-> TRUE]

Save(outcome) ==
  /\ config' = outcome.config
  /\ stored' = outcome.stored
  /\ UNCHANGED <<active, field>>

=============================================================================
