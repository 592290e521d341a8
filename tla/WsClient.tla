------------------------------ MODULE WsClient ------------------------------
(***************************************************************************)
(* The SSO WebSocket client: the reconnect loop of _run, the account cache *)
(* it keeps, the authentication requests and location updates that other   *)
(* coroutines send over its connection, and the settings the user changes  *)
(* under it.  One asyncio thread runs every coroutine; an action is what   *)
(* runs between two awaits.  The UI thread only stores settings and sets   *)
(* the reconnect event.                                                    *)
(***************************************************************************)
EXTENDS Naturals, Sequences, FiniteSets, Tables

CONSTANTS
  Settings,       \* the settings the user chooses from: [url, key]
  NoKey,          \* the empty API token
  Accepted,       \* the <<url, key>> pairs the SSO accepts
  TlsSettings,    \* the TLS settings the program may be started with
  Entries,        \* the account records the SSO may have
  Accounts,       \* account names
  DynamicNames,   \* the names a full state adds for dynamic tags
  Requests,       \* the authentication requests, numbered as they are asked
  Updates,        \* the field sets a location update may carry
  ReconnectMin, ReconnectMax,   \* RECONNECT_MIN, RECONNECT_MAX
  MaxInbox,       \* bound on the messages under way to the client
  MaxEvents       \* bound on requests, updates, pushes, failures and clicks

ASSUME WsAssumption ==
  /\ ReconnectMin \in Nat \ {0}
  /\ ReconnectMax \in Nat
  /\ ReconnectMin <= ReconnectMax
  /\ {MaxInbox, MaxEvents} \cup Requests \subseteq Nat

(* An account in the list: its aliases, its tags, and a table of characters.  *)
AccountRecord(e) ==
  e = [aliases |-> e.aliases, tags |-> e.tags,
       characters |-> [c \in DOMAIN e.characters |-> e.characters[c]]]

ASSUME EntriesAssumption == \A e \in Entries : AccountRecord(e)

VARIABLES
  setting,     \* config.SSO_API and config.USER_API_TOKEN
  tls,         \* config.SSO_CA_BUNDLE and sso_verify_tls: read once, at start
  uiTimer,     \* _ws_reconnect_timer is running
  reconnect,   \* the reconnect event is set
  client,      \* where _run is, its delay, and what it took from the settings
  connected,   \* _connected
  cache,       \* ACCOUNTS_CACHED, ALL_CACHED_NAMES, CHARACTERS_CACHED
  pending,     \* the keys of _pending_auth
  future,      \* the future of each request, with the connection it was sent on
  outbox,      \* the coroutines suspended in ws.send, oldest first
  lastSent,    \* _last_sent_location of the character played
  overlapped,  \* an update of this connection began while another was being sent
  outcome,     \* what request_login_auth has returned
  verdict,     \* external: what the SSO has decided
  sso,         \* external: its accounts, what it was asked and told
  inbox,       \* external: its messages under way on this connection
  events       \* the events so far

loopVars == <<client, connected, cache, tls>>
authVars == <<pending, future, outcome, verdict>>
sendVars == <<outbox, lastSent, overlapped>>
userVars == <<setting, uiTimer, reconnect>>
ssoVars  == <<sso, inbox>>
wsVars == <<loopVars, authVars, sendVars, userVars, ssoVars, events>>

-----------------------------------------------------------------------------
(* The settings of the connection *)

(* The store that certificates are verified against, or the custom file. *)
CaMode(ca) ==
  CASE ca \in {"unset", "", "true"} -> "certifi"
    [] ca \in {"system", "false"}   -> "system"
    [] OTHER                        -> "custom"

(* _get_ssl_context raises, outside every handler of _run, on a custom bundle *)
(* that cannot be read; a plaintext URL or no verification never reads it.    *)
TlsRaises(url) ==
  /\ url.tls
  /\ tls.verify
  /\ CaMode(tls.ca) = "custom"
  /\ ~tls.readable

-----------------------------------------------------------------------------
(* The account cache *)

NamesOf(tree) ==
  DOMAIN tree \cup UNION {tree[a].aliases \cup tree[a].tags
                            \cup DOMAIN tree[a].characters : a \in DOMAIN tree}

CharactersOf(tree) == UNION {DOMAIN tree[a].characters : a \in DOMAIN tree}

Rebuilt(tree, dynamic) ==
  [tree |-> tree, names |-> NamesOf(tree) \cup dynamic,
   characters |-> CharactersOf(tree)]

NoAccounts == << >>
EmptyCache == Rebuilt(NoAccounts, {})

(* A dropped step: a character the SSO has removed stays in the cache. *)
Patched_FaultNoRemoval(entry, fields) ==
  [aliases    |-> (entry.aliases \cup fields.aliases.add) \ fields.aliases.remove,
   tags       |-> (entry.tags \cup fields.tags.add) \ fields.tags.remove,
   characters |-> fields.characters.update @@ fields.characters.add @@ entry.characters]

Patched(entry, fields) ==
  [aliases    |-> (entry.aliases \cup fields.aliases.add) \ fields.aliases.remove,
   tags       |-> (entry.tags \cup fields.tags.add) \ fields.tags.remove,
   characters |-> fields.characters.update
                    @@ Without(fields.characters.add @@ entry.characters,
                               fields.characters.remove)]

BlankEntry == [aliases |-> {}, tags |-> {}, characters |-> << >>]

ApplyChange(tree, change) ==
  LET a == change.account
  IN  CASE change.action = "add"    -> (a :> change.data) @@ tree
        [] change.action = "remove" -> Without(tree, {a})
        [] change.action = "update" ->
             (a :> Patched(IF a \in DOMAIN tree THEN tree[a] ELSE BlankEntry,
                           change.fields)) @@ tree

(* The dynamic names are not rebuilt: they are gone after the first delta. *)
ApplyDelta(change) == Rebuilt(ApplyChange(cache.tree, change), {})

(* The SSO's side: the change that leads from one record to another. *)
Difference(old, new) ==
  LET added   == DOMAIN new.characters \ DOMAIN old.characters
      changed == {c \in DOMAIN new.characters \cap DOMAIN old.characters :
                    new.characters[c] # old.characters[c]}
      Diff(field) == [add |-> new[field] \ old[field], remove |-> old[field] \ new[field]]
  IN  [aliases |-> Diff("aliases"), tags |-> Diff("tags"),
       characters |->
         [add    |-> [c \in added |-> new.characters[c]],
          remove |-> DOMAIN old.characters \ DOMAIN new.characters,
          update |-> [c \in changed |-> new.characters[c]]]]

-----------------------------------------------------------------------------

WsUp == client.phase \in {"open", "closing"}

NoFuture == [state |-> "none", link |-> 0]

WsInit ==
  /\ setting \in Settings
  /\ tls \in TlsSettings
  /\ uiTimer = FALSE
  /\ reconnect = FALSE
  /\ client = [phase |-> "top", delay |-> ReconnectMin, link |-> 0, url |-> setting.url,
               key |-> NoKey, error |-> FALSE, authFailed |-> FALSE]
  /\ connected = FALSE
  /\ cache = EmptyCache
  /\ pending = {}
  /\ future = [r \in Requests |-> NoFuture]
  /\ outbox = << >>
  /\ lastSent = << >>
  /\ overlapped = FALSE
  /\ outcome = [r \in Requests |-> "idle"]
  /\ verdict = [r \in Requests |-> "none"]
  /\ \E a \in Accounts :
       sso = [auth |-> "none", tree |-> a :> BlankEntry, asked |-> {}, location |-> << >>]
  /\ inbox = << >>
  /\ events = 0

Event == events < MaxEvents /\ events' = events + 1

(* The user *)

(* on_sso_api_changed: the token kept for the backend comes with it, and when *)
(* it is another one, the signal of the token field asks for a second         *)
(* reconnect.                                                                 *)
BackendChosen ==
  /\ Event
  /\ setting' \in {s \in Settings : s.url # setting.url}
  /\ uiTimer' = (uiTimer \/ setting'.key # setting.key)
  /\ reconnect' = TRUE
  /\ UNCHANGED <<loopVars, authVars, sendVars, ssoVars>>

(* on_api_token_changed: the reconnect waits until the user has stopped typing. *)
TokenEdited ==
  /\ Event
  /\ setting' \in {s \in Settings : s.url = setting.url /\ s.key # setting.key}
  /\ uiTimer' = TRUE
  /\ UNCHANGED <<loopVars, authVars, sendVars, ssoVars, reconnect>>

TimerFires ==
  /\ uiTimer
  /\ uiTimer' = FALSE
  /\ reconnect' = TRUE
  /\ UNCHANGED <<loopVars, authVars, sendVars, ssoVars, setting, events>>

RefreshClicked ==
  /\ Event
  /\ reconnect' = TRUE
  /\ UNCHANGED <<loopVars, authVars, sendVars, ssoVars, setting, uiTimer>>

-----------------------------------------------------------------------------
(* _run *)

LoopTop ==
  /\ client.phase = "top"
  /\ reconnect' = FALSE
  /\ client' = [client EXCEPT
       !.phase = IF setting.key = NoKey THEN "parked"
                 ELSE IF TlsRaises(setting.url) THEN "dead" ELSE "connecting",
       !.url = setting.url, !.error = FALSE, !.authFailed = FALSE]
  /\ UNCHANGED <<connected, cache, tls, authVars, sendVars, ssoVars, setting, uiTimer, events>>

ParkedWakes ==
  /\ client.phase \in {"parked", "authParked"}
  /\ reconnect
  /\ client' = [client EXCEPT !.phase = "top",
                              !.delay = IF client.phase = "authParked"
                                        THEN ReconnectMin ELSE @]
  /\ UNCHANGED <<connected, cache, tls, authVars, sendVars, userVars, ssoVars, events>>

(* A swapped order: a request that comes while the client connects is lost. *)
Connects_FaultLateClear ==
  /\ client.phase = "connecting"
  /\ client' = [client EXCEPT !.phase = "open", !.link = @ + 1, !.key = setting.key]
  /\ sso' = [sso EXCEPT !.auth = "due"]
  /\ reconnect' = FALSE
  /\ UNCHANGED <<connected, cache, tls, authVars, sendVars, setting, uiTimer, inbox, events>>

(* The URL is the one read at the top of the loop, the token is read now. *)
Connects ==
  /\ client.phase = "connecting"
  /\ client' = [client EXCEPT !.phase = "open", !.link = @ + 1, !.key = setting.key]
  /\ sso' = [sso EXCEPT !.auth = "due"]
  /\ UNCHANGED <<connected, cache, tls, authVars, sendVars, userVars, inbox, events>>

(* A dropped step: _cancel_pending_auth empties the table and cancels nothing. *)
Finally_FaultNotCancelled ==
  /\ connected' = FALSE
  /\ pending' = {}
  /\ lastSent' = << >>
  /\ overlapped' = FALSE
  /\ cache' = EmptyCache
  /\ UNCHANGED <<tls, future>>

(* The finally block of _run runs without an await. *)
Finally ==
  /\ connected' = FALSE
  /\ future' = [r \in Requests |->
       IF r \in pending /\ future[r].state = "open"
       THEN [future[r] EXCEPT !.state = "cancelled"] ELSE future[r]]
  /\ pending' = {}
  /\ lastSent' = << >>
  /\ overlapped' = FALSE
  /\ cache' = EmptyCache
  /\ UNCHANGED tls

ConnectFails ==
  /\ Event
  /\ client.phase = "connecting"
  /\ client' = [client EXCEPT !.phase = "backoff"]
  /\ Finally
  /\ UNCHANGED <<outbox, outcome, verdict, userVars, ssoVars>>

(* The connection is lost, or a message cannot be read; until the coroutine *)
(* has left the connection's context, the others still see it.              *)
LinkFails ==
  /\ Event
  /\ client.phase = "open"
  /\ client' = [client EXCEPT !.phase = "closing"]
  /\ UNCHANGED <<connected, cache, tls, authVars, sendVars, userVars, ssoVars>>

ReconnectSeen ==
  /\ client.phase = "open"
  /\ reconnect
  /\ client' = [client EXCEPT !.phase = "closing"]
  /\ UNCHANGED <<connected, cache, tls, authVars, sendVars, userVars, ssoVars, events>>

Closes ==
  /\ client.phase = "closing"
  /\ Finally
  /\ client' = [client EXCEPT !.phase = IF client.error THEN "authParked" ELSE "backoff",
                              !.authFailed = client.error]
  /\ sso' = [sso EXCEPT !.auth = "none", !.asked = {}]
  /\ inbox' = << >>
  /\ UNCHANGED <<outbox, outcome, verdict, userVars, events>>

(* A dropped min: the delay grows past RECONNECT_MAX. *)
BackoffEnds_FaultUncapped ==
  /\ client.phase = "backoff"
  /\ client' = [client EXCEPT !.phase = "top", !.delay = 2 * @]
  /\ UNCHANGED <<connected, cache, tls, authVars, sendVars, userVars, ssoVars, events>>

BackoffEnds ==
  /\ client.phase = "backoff"
  /\ client' = [client EXCEPT !.phase = "top",
                              !.delay = IF 2 * @ > ReconnectMax THEN ReconnectMax ELSE 2 * @]
  /\ UNCHANGED <<connected, cache, tls, authVars, sendVars, userVars, ssoVars, events>>

(* A swapped lookup: the answer goes to whichever request is waiting. *)
ResolveLoginAuthResponse_FaultAny(msg) ==
  \/ \E r \in pending : /\ future[r].state = "open"
                        /\ future' = [future EXCEPT ![r].state = msg.verdict]
  \/ (\A r \in pending : future[r].state # "open") /\ UNCHANGED future

ResolveLoginAuthResponse(msg) ==
  LET r == msg.id
  IN  future' = IF r \in pending /\ future[r].state = "open"
                THEN [future EXCEPT ![r].state = msg.verdict] ELSE future

Receive ==
  /\ client.phase = "open"
  /\ inbox # << >>
  /\ inbox' = Tail(inbox)
  /\ LET msg == Head(inbox)
     IN  \/ /\ msg.type = "full_state"
            /\ connected' = TRUE
            /\ client' = [client EXCEPT !.delay = ReconnectMin]
            /\ cache' = Rebuilt(msg.tree, DynamicNames)
            /\ UNCHANGED future
         \/ /\ msg.type = "delta"
            /\ cache' = ApplyDelta(msg.change)
            /\ UNCHANGED <<connected, client, future>>
         \/ /\ msg.type = "login_auth_response"
            /\ ResolveLoginAuthResponse(msg)
            /\ UNCHANGED <<connected, client, cache>>
         \/ /\ msg.type = "error"
            /\ client' = [client EXCEPT !.phase = "closing", !.error = TRUE]
            /\ UNCHANGED <<connected, cache, future>>
  /\ UNCHANGED <<tls, pending, outcome, verdict, sendVars, userVars, sso, events>>

-----------------------------------------------------------------------------
(* The coroutines that send *)

(* request_login_auth up to its first await; without a connection it returns. *)
RequestAsked(r) ==
  /\ Event
  /\ outcome[r] = "idle"
  /\ \A q \in Requests : q < r => outcome[q] # "idle"
  /\ \/ /\ ~(WsUp /\ connected)
        /\ outcome' = [outcome EXCEPT ![r] = "failed"]
        /\ UNCHANGED <<pending, future, outbox>>
     \/ /\ WsUp /\ connected
        /\ outcome' = [outcome EXCEPT ![r] = "asked"]
        /\ pending' = pending \cup {r}
        /\ future' = [future EXCEPT ![r] = [state |-> "open", link |-> client.link]]
        /\ outbox' = Append(outbox, [kind |-> "auth", id |-> r, link |-> client.link])
  /\ UNCHANGED <<loopVars, verdict, lastSent, overlapped, userVars, ssoVars>>

Sending(r) == \E i \in DOMAIN outbox : outbox[i].kind = "auth" /\ outbox[i].id = r

(* request_login_auth's return, with its finally. *)
Return(r, result) ==
  /\ outcome' = [outcome EXCEPT ![r] = result]
  /\ pending' = pending \ {r}
  /\ UNCHANGED <<future, verdict>>

(* send_update_location up to its await.  Fields that change nothing in what *)
(* was last sent are not sent, and nothing changes.                          *)
UpdateSent(fields) ==
  LET tentative == fields @@ lastSent
  IN  /\ Event
      /\ WsUp /\ connected
      /\ fields = << >> \/ tentative # lastSent
      /\ outbox' = Append(outbox, [kind |-> "update", fields |-> fields,
                                   tentative |-> tentative, link |-> client.link])
      /\ overlapped' = (overlapped \/ \E i \in DOMAIN outbox : outbox[i].kind = "update")
      /\ UNCHANGED <<loopVars, authVars, lastSent, userVars, ssoVars>>

Alive(entry) == client.phase = "open" /\ entry.link = client.link

SendCompletes ==
  /\ outbox # << >>
  /\ Alive(Head(outbox))
  /\ outbox' = Tail(outbox)
  /\ LET entry == Head(outbox)
     IN  \/ /\ entry.kind = "auth"
            /\ sso' = [sso EXCEPT !.asked = @ \cup {entry.id}]
            /\ UNCHANGED lastSent
         \/ /\ entry.kind = "update"
            /\ sso' = [sso EXCEPT !.location = entry.fields @@ @]
            /\ lastSent' = entry.tentative
  /\ UNCHANGED <<loopVars, authVars, overlapped, userVars, inbox, events>>

(* A swapped order: what is sent is recorded whether or not send raises. *)
SendFails_FaultRecorded ==
  /\ outbox # << >>
  /\ ~Alive(Head(outbox))
  /\ outbox' = Tail(outbox)
  /\ LET entry == Head(outbox)
     IN  \/ entry.kind = "auth" /\ Return(entry.id, "failed") /\ UNCHANGED lastSent
         \/ entry.kind = "update" /\ lastSent' = entry.tentative /\ UNCHANGED authVars
  /\ UNCHANGED <<loopVars, overlapped, userVars, ssoVars, events>>

(* send raises: the request fails, the update is forgotten. *)
SendFails ==
  /\ outbox # << >>
  /\ ~Alive(Head(outbox))
  /\ outbox' = Tail(outbox)
  /\ LET entry == Head(outbox)
     IN  \/ entry.kind = "auth" /\ Return(entry.id, "failed")
         \/ entry.kind = "update" /\ UNCHANGED authVars
  /\ UNCHANGED <<loopVars, lastSent, overlapped, userVars, ssoVars, events>>

(* The future has its result, or was cancelled: the CancelledError passes the *)
(* handlers of request_login_auth and of its caller.                          *)
RequestResumes(r) ==
  /\ outcome[r] = "asked" /\ ~Sending(r)
  /\ future[r].state # "open"
  /\ Return(r, IF future[r].state = "cancelled" THEN "failed" ELSE future[r].state)
  /\ UNCHANGED <<loopVars, sendVars, userVars, ssoVars, events>>

(* SSO_TIMEOUT: wait_for gives up, also when the answer has just come in. *)
RequestTimesOut(r) ==
  /\ outcome[r] = "asked" /\ ~Sending(r)
  /\ Return(r, "failed")
  /\ UNCHANGED <<loopVars, sendVars, userVars, ssoVars, events>>

-----------------------------------------------------------------------------
(* The SSO *)

Push(msg) == Len(inbox) < MaxInbox /\ inbox' = Append(inbox, msg)

SsoAnswersAuth ==
  /\ client.phase = "open" /\ sso.auth = "due"
  /\ IF <<client.url, client.key>> \in Accepted
     THEN /\ sso' = [sso EXCEPT !.auth = "live"]
          /\ Push([type |-> "full_state", tree |-> sso.tree])
     ELSE /\ sso' = [sso EXCEPT !.auth = "refused"]
          /\ Push([type |-> "error"])
  /\ UNCHANGED <<loopVars, authVars, sendVars, userVars, events>>

SsoChanges(a) ==
  LET old == sso.tree
      Told(change) == IF sso.auth = "live" THEN Push([type |-> "delta", change |-> change])
                      ELSE UNCHANGED inbox
  IN  /\ Event
      /\ \/ \E e \in Entries :
              /\ a \notin DOMAIN old
              /\ sso' = [sso EXCEPT !.tree = (a :> e) @@ old]
              /\ Told([action |-> "add", account |-> a, data |-> e])
         \/ \E e \in Entries :
              /\ a \in DOMAIN old /\ old[a] # e
              /\ sso' = [sso EXCEPT !.tree[a] = e]
              /\ Told([action |-> "update", account |-> a, fields |-> Difference(old[a], e)])
         \/ /\ a \in DOMAIN old
            /\ sso' = [sso EXCEPT !.tree = Without(old, {a})]
            /\ Told([action |-> "remove", account |-> a])
      /\ UNCHANGED <<loopVars, authVars, sendVars, userVars>>

(* The SSO decides and answers; an answer may be lost with the connection. *)
SsoDecides(r) ==
  /\ r \in sso.asked
  /\ sso' = [sso EXCEPT !.asked = @ \ {r}]
  /\ \E v \in {"granted", "denied"} :
       /\ verdict' = [verdict EXCEPT ![r] = v]
       /\ Push([type |-> "login_auth_response", id |-> r, verdict |-> v])
  /\ UNCHANGED <<loopVars, pending, future, outcome, sendVars, userVars, events>>

(* The key is revoked while the connection is live. *)
SsoRevokes ==
  /\ Event
  /\ sso.auth = "live"
  /\ sso' = [sso EXCEPT !.auth = "refused", !.asked = {}]
  /\ Push([type |-> "error"])
  /\ UNCHANGED <<loopVars, authVars, sendVars, userVars>>

-----------------------------------------------------------------------------

User == BackendChosen \/ TokenEdited \/ RefreshClicked

Run == LoopTop \/ ParkedWakes \/ Connects \/ ReconnectSeen \/ Closes \/ BackoffEnds \/ Receive

Outside ==
  \/ ConnectFails \/ LinkFails \/ SsoRevokes
  \/ \E a \in Accounts : SsoChanges(a)

WsNext ==
  \/ User \/ TimerFires \/ Run \/ Outside
  \/ \E r \in Requests : RequestAsked(r) \/ RequestResumes(r) \/ RequestTimesOut(r) \/ SsoDecides(r)
  \/ \E f \in Updates : UpdateSent(f)
  \/ SendCompletes \/ SendFails \/ SsoAnswersAuth

(* The coroutines run when they can, timers fire, a send ends or raises, and  *)
(* the SSO answers an authentication.  Nothing is assumed of the user, and of *)
(* failures only that there are finitely many (MaxEvents).                    *)
WsSpec ==
  /\ WsInit /\ [][WsNext]_wsVars
  /\ WF_wsVars(TimerFires) /\ WF_wsVars(Run)
  /\ WF_wsVars(SendCompletes \/ SendFails) /\ WF_wsVars(SsoAnswersAuth)
  /\ \A r \in Requests : WF_wsVars(RequestResumes(r) \/ RequestTimesOut(r))

-----------------------------------------------------------------------------
(* Properties *)

(* Every variable keeps its type; the delay stays between its bounds.  (_run, *)
(* request_login_auth, _rebuild_cache)                                        *)
WsTypeOK ==
  /\ setting \in Settings /\ tls \in TlsSettings
  /\ {uiTimer, reconnect, connected, overlapped} \subseteq BOOLEAN
  /\ client.phase \in {"top", "parked", "authParked", "dead", "connecting", "open",
                       "closing", "backoff"}
  /\ client.delay \in ReconnectMin .. ReconnectMax
  /\ client.link \in Nat
  /\ DOMAIN cache.tree \subseteq Accounts
  /\ pending \subseteq Requests
  /\ future \in [Requests -> [state : {"none", "open", "cancelled", "granted", "denied"},
                              link : Nat]]
  /\ events \in 0 .. MaxEvents

(* A caller that still waits can be answered: its request was sent on the     *)
(* connection that is up and is in the table of that connection.  Nobody is   *)
(* left waiting for an answer that cannot come.  (_cancel_pending_auth)       *)
WaitsOnThisLink ==
  \A r \in Requests :
    outcome[r] = "asked" /\ future[r].state = "open" =>
      WsUp /\ connected /\ future[r].link = client.link /\ r \in pending

(* When the messages of a live connection have been applied, the cache is the *)
(* SSO's own list, whatever deltas led there; without a connection there is   *)
(* none, and no login is taken for one of the SSO's.  (_apply_delta)          *)
CacheMirrorsSso ==
  /\ ~connected => cache = EmptyCache
  /\ connected /\ sso.auth = "live" /\ inbox = << >> =>
       cache.tree = sso.tree /\ cache.characters = CharactersOf(sso.tree)

(* What is believed sent, and therefore withheld, is what the SSO was last    *)
(* sent, as long as no update began while another was being sent.             *)
(* (send_update_location)                                                     *)
LastSentIsTrue ==
  ~overlapped => \A f \in DOMAIN lastSent :
                    f \in DOMAIN sso.location /\ sso.location[f] = lastSent[f]

(* A request ends, with the SSO's verdict on it or with a failure.            *)
(* (request_login_auth)                                                       *)
Promise == INSTANCE AuthRequests
AuthKeepsPromise == Promise!Spec

(* Once the user leaves the settings alone the client runs with the last      *)
(* ones: connected with them, refused with them, or parked without a token.   *)
(* The exception is an unreadable CA bundle, which ends _run.  (_run,         *)
(* request_reconnect, on_sso_api_changed, on_api_token_changed)               *)
LatestSettingUsed ==
  <>[](\/ client.phase = "dead"
       \/ setting.key = NoKey /\ client.phase = "parked"
       \/ /\ [url |-> client.url, key |-> client.key] = setting
          /\ connected \/ client.phase = "authParked")

=============================================================================
