---------------------------- MODULE ConfigRepair ----------------------------
(***************************************************************************)
(* Reading proxyconfig.ini.  Older versions wrote backend names such as    *)
(* "Custom: https://..." as keys, which an INI parser splits at the first  *)
(* ":" or "=": the file is repaired before it is parsed.                   *)
(*                                                                         *)
(* A file is [defaults, tokens].  In the file, defaults maps a key to the  *)
(* sequence of its values, and tokens is the sequence of [name, values] in *)
(* the order of the lines; parsed, both map a key to one value.            *)
(***************************************************************************)
EXTENDS Naturals, Sequences, FiniteSetsExt, Tables

CONSTANTS
  Text,        \* what a line of the file may hold
  LabelUrl,    \* the names "Custom: <url>", with their URL
  JoinedUrl,   \* the other names with a ":" or "=", with the URL in them or ""
  UrlName,     \* url_to_name
  Urls         \* the values that are a URL

Unsafe == DOMAIN LabelUrl \cup DOMAIN JoinedUrl

OldName == "P99 Login Proxy"
Heirs == {"Good Guys", "Marginal Threat"}

ASSUME TextAssumption == {"", "True", "False", OldName} \cup Heirs \subseteq Text

(* A backend is known by a name without ":" or "=", and not by the old one.   *)
ASSUME NamesAssumption ==
  /\ {"", OldName, "Custom"} \cap Unsafe = {}
  /\ DOMAIN LabelUrl \cap DOMAIN JoinedUrl = {}
  /\ "" \notin DOMAIN UrlName
  /\ \A url \in DOMAIN UrlName : UrlName[url] \in Text \ (Unsafe \cup {"", OldName, "Custom"})

(* The last value that is not one of these. *)
LastOtherThan(values, these, default) ==
  LET others == {i \in DOMAIN values : values[i] \notin these}
  IN  IF others = {} THEN default ELSE values[Max(others)]

(* _collapse_values *)
Collapsed(values) == LastOtherThan(values, {""}, "")

(* _pick_token: a URL only when there is nothing else. *)
PickToken(values) == LastOtherThan(values, {""} \cup Urls, Collapsed(values))

UrlIn(values) == IF Collapsed(values) \in Urls THEN Collapsed(values) ELSE ""

NameOfUrl(url, default) == IF url \in DOMAIN UrlName THEN UrlName[url] ELSE default

ResolveBackendName(name, hint) ==
  CASE name \in DOMAIN LabelUrl -> NameOfUrl(LabelUrl[name], name)
    [] name \in DOMAIN JoinedUrl -> NameOfUrl(IF hint # "" THEN hint ELSE JoinedUrl[name], name)
    [] OTHER -> name

SafeName(entry) ==
  IF entry.name = "Custom" THEN NameOfUrl(UrlIn(entry.values), "Custom")
  ELSE ResolveBackendName(entry.name, UrlIn(entry.values))

(* A changed case: the last entry of a name wins, blank or not. *)
TokenFor_FaultBlank(entries, name) ==
  PickToken(entries[Max({i \in DOMAIN entries : SafeName(entries[i]) = name})].values)

(* The last token that a name has in the file; a blank one replaces none. *)
TokenFor(entries, name) ==
  LET given == {i \in DOMAIN entries :
                  SafeName(entries[i]) = name /\ PickToken(entries[i].values) # ""}
  IN  IF given = {} THEN "" ELSE PickToken(entries[Max(given)].values)

SafeNames(entries) == {SafeName(entries[i]) : i \in DOMAIN entries} \ Unsafe

(* A dropped case: the old name stays beside the two it was split into. *)
RepairApiTokens_FaultOldKept(entries) == [name \in SafeNames(entries) |-> TokenFor(entries, name)]

RepairApiTokens(entries) ==
  LET names == SafeNames(entries)
      kept == IF Heirs \cap names = {} THEN names ELSE names \ {OldName}
  IN  [name \in kept |-> TokenFor(entries, name)]

CollapsedDefaults(file) == [key \in DOMAIN file.defaults |-> Collapsed(file.defaults[key])]

DefaultOf(defaults, key) == IF key \in DOMAIN defaults THEN defaults[key] ELSE ""

RepairDefaults(file) ==
  LET defaults == CollapsedDefaults(file)
      name == DefaultOf(defaults, "sso_api_name")
  IN  IF name = "" THEN defaults
      ELSE [defaults EXCEPT !["sso_api_name"] =
              ResolveBackendName(name, DefaultOf(defaults, "sso_api"))]

RepairSections(file) == [defaults |-> RepairDefaults(file), tokens |-> RepairApiTokens(file.tokens)]

TokenNames(file) == {file.tokens[i].name : i \in DOMAIN file.tokens}

Repeated(file) ==
  \/ \E key \in DOMAIN file.defaults : Len(file.defaults[key]) > 1
  \/ \E i \in DOMAIN file.tokens : Len(file.tokens[i].values) > 1

(* config_text_needs_repair (no other token changes), or a parser that     *)
(* raises: it does so on a line without a key.                             *)
NeedsRepair(file) ==
  LET names == TokenNames(file)
  IN  \/ RepairDefaults(file) # CollapsedDefaults(file)
      \/ DefaultOf(CollapsedDefaults(file), "sso_api_name") \in DOMAIN LabelUrl
      \/ names \cap Unsafe # {}
      \/ \E i \in DOMAIN file.tokens :
           file.tokens[i].name = "Custom" /\ UrlIn(file.tokens[i].values) # ""
      \/ Repeated(file)
      \/ OldName \in names /\ Heirs \cap names # {}
      \/ "" \in names

(* What the parser reads from a file that needs no repair. *)
Parsed(file) ==
  [defaults |-> CollapsedDefaults(file),
   tokens |-> [name \in TokenNames(file) |->
     Collapsed(file.tokens[CHOOSE i \in DOMAIN file.tokens : file.tokens[i].name = name].values)]]

LoadConfigParser(file) == IF NeedsRepair(file) THEN RepairSections(file) ELSE Parsed(file)

(* The names in the order they are written in, which is of no account. *)
Listed(names) ==
  CHOOSE list \in [1 .. Cardinality(names) -> names] : \A n \in names : \E i \in DOMAIN list : list[i] = n

(* CONFIG.write, write_repaired_config *)
Written(config) ==
  LET list == Listed(DOMAIN config.tokens)
  IN  [defaults |-> [key \in DOMAIN config.defaults |-> <<config.defaults[key]>>],
       tokens |-> [i \in DOMAIN list |-> [name |-> list[i], values |-> <<config.tokens[list[i]]>>]]]

=============================================================================
