# P99 login proxy: specification and proofs

The program sits on the player's machine between the EverQuest client and the
Project 1999 login server. It forwards UDP datagrams both ways and changes three
things in passing: it puts other credentials into the client's Login (its own
accounts, or an account that a single sign-on service, the SSO, encrypts for it),
it reassembles and filters the fragmented server list, and, when the server
rejects the password the SSO supplied, it withholds that rejection and replays the
Login as the player typed it. Each of these makes the sequence numbers of the two
sides differ, and almost everything that can go wrong here is a disagreement about
a sequence number or about which Login is meant.

## The system

| component | state | operations | models |
|---|---|---|---|
| `server.py` `LoginProxy` | `in_session`, `last_recv_time`, `_auth_in_flight`, the three retry fields | `handle_client_packet`, `_async_auth_and_forward`, `handle_server_packet`, `_fire_sso_retry` | `LoginProxy`, promise: `LoginRelay` |
| `session.py` `ProxySessionState` | `seq_to_client`, `seq_from_server`, `cs_offset`, pending opcode | the rewriting of Acks and packets, `recv_fragment`, `note_*` | `ProxySession` |
| `soe_protocol.py` | `FragmentAssembler`: first sequence, length, fragments | `add`, `reset`; splitting of Combined datagrams | `FragmentAssembler`, `FragmentDelivery` |
| `login_protocol.py` | none | recognise a Login, splice credentials, tell a rejection | by what it does, in `LoginProxy` |
| `ws_client.py` | connection, pending authentications, last location sent, account cache | connect and reconnect loop, `request_login_auth`, `send_update_location`, full state and deltas | `WsClient`, promise: `AuthRequests` |
| `local_characters.py`, the account and character handlers of `ui.py`, the CSV files of `utils.py` | accounts and their names, characters, save timer, pending local account, two files | `apply_update`, `set_entry`, `delete_entry`, `note_login`, `try_auto_create`, saving, loading | `LocalCharacters` |
| `log_handler.py` | log followed, position, current zone | `on_modified`, `handle_log_line`, the inventory handler | `LogWatcher` |
| `inventory_parser.py`, `count_display.py`, `readiness_by_class.py` | none | inventory, tiers, readiness | `CharacterItems` |
| `config_repair.py` | none | repair of a damaged `proxyconfig.ini` | `ConfigRepair` |
| `config.py` | settings, active backend, a token per backend, the file | load and migrate, `set_sso_api`, `set_api_token_for_backend`, other setters | `Settings` |
| `eq_config.py` | `eqhost.txt`, its backup, the installation in use | `enable_proxy`, `disable_proxy`, `restore_backup`, `find_eq_directory` | `EqHost` |
| `updater.py`, `update_scheduler.py` | the executable under its two names, the open dialogs | check, download, renames, launch | `Updater` |
| `cmd.py`, `ui.py` | the mode shown, how the program ends | start, exit, the handlers of mode, directory, backend and token | `Desktop` |
| translation tables, `theme.py`, the rest of `ui.py` and `ui_classes/`, website, packaging | presentation, constants | | not modelled |

How they interact: `datagram_received` hands every datagram to one of the two
handlers of `LoginProxy`, which run to completion on one asyncio thread. A Login
that needs the SSO starts a task that awaits `ws_client.request_login_auth`; while
it waits, any other datagram is handled. `LoginProxy` tells `local_characters`
which account was logged in (`note_login`); the log watcher's thread asks it for
that account when a new character log appears, and sends locations through
`ws_client`. The save timer of `local_characters` is a third thread. The UI thread
calls `eq_config`, `config` and the updater.

What is hard, and what makes each part correct, is in `PROJECT.json` under
"hazards", line by line. In short: authentication across sessions (one retry, of
the right Login, in the session it belongs to); the two number spaces (no hole, no
repeat, no Ack of what was not received or not sent); the server list (each once
and whole); requests that outlive the connection they were sent on, and settings
that change while the client connects; two files written by two threads; a crash
between a backup and the file it is the backup of; a file damaged by an older
version; an update that stops half-way.

## Modules

**`FragmentAssembler`** and **`ProxySession`** are operators on records: the state of
`FragmentAssembler` and `ProxySessionState`, and one operator for each method,
returning the new record. The bytes of a response are abstracted to *chunks*, one
per fragment, numbered by the sender, and lengths count chunks; the one thing the
code does to the bytes that matters here, the cutting of the four length bytes off
the fragment it takes for the first, is kept: a chunk cut where it should not be,
or not cut where it should, is `Mangled`. What the code reads as a length from a
fragment that is not the first is any of `GarbageTotals`.

**`FragmentDelivery`** sends one list after another through `recv_fragment`, from
every starting sequence, with repeats and reordering.

**`LoginProxy`** is the proxy with its environment.

| variable | in the code |
|---|---|
| `inSession`, `session` | `in_session`, `session` |
| `retry` | `_sso_original_login` (`<<>>` for `None`), `_sso_retry_armed`, `_sso_retry_fired` |
| `auth` | `_auth_in_flight` with the `data` of the running `_async_auth_and_forward` |
| `stale` | `recv_time - last_recv_time > 60` |
| `client`, `shown` | external: the EQ client, and what it was sent in this session |
| `server`, `toServer`, `arrived` | external: the login server, what was forwarded to it, and which of its packets have reached the proxy |

| action | in the code |
|---|---|
| `ClientIssues`, `ClientRepeats`, `ClientAcks` | a packet, its retransmission, an Ack, each with the whole of `handle_client_packet` (`HandleClientData`: lapse of the session, rewriting, then `DropLogin`, `StartAuth` or `ForwardClientData`) |
| `ClientConnects`, `ClientDisconnects`, `ClientKeepsAlive` | SessionRequest, SessionDisconnect, any other datagram |
| `ClientIdles` | 60 seconds pass |
| `AuthSucceeds`, `AuthFails` | the rest of `_async_auth_and_forward` once the SSO has answered; `AuthFails` is the rejection, the timeout, the disconnect (a `CancelledError` that only the `finally` sees) and any exception |
| `ServerSendsPacket`, `ServerSendsAck` | `handle_server_packet` on a packet, an Ack, or a Combined of two (`HandleServerData`: interception, `PassOn` or `SuppressRejection` with `FireSsoRetry`) |
| `ServerSendsFragment` | `handle_server_packet` on a fragment |
| `ServerResponds` | SessionResponse |
| `ServerReceives` | external: the server takes the packet it expects and answers |

**`LoginRelay`** is what the proxy promises a client, with no sequence number, Ack or
credential in it: the server's answers in order, once each, the fragments of a list
as one packet, a withheld rejection not at all. An answer is taken alone or, as the
two of a Combined, with the next (`TakeOne`, `TakeTwo`); `Seen` is what it adds to what
the client is shown. `RelayFaithful` states that `LoginProxy` implements it, with the
server's answers, the number of them that have arrived, and the items shown as the
refinement mapping.

**`WsClient`** is the SSO client with its environment. One asyncio thread runs every
coroutine, so an action is what runs between two awaits; the UI thread only stores
settings and sets the event.

| variable | in the code |
|---|---|
| `client` | where `_run` stands (`phase`), its back-off, the URL and token it took, the number of its connection |
| `connected`, `cache` | `_connected`; `config.ACCOUNTS_CACHED`, `ALL_CACHED_NAMES`, `CHARACTERS_CACHED` |
| `pending`, `future` | `_pending_auth` and the futures in it |
| `outbox` | the coroutines suspended in `ws.send` |
| `lastSent` | `_last_sent_location` |
| `setting`, `tls`, `uiTimer`, `reconnect` | `config.SSO_API` and `USER_API_TOKEN`, the TLS settings, `_ws_reconnect_timer`, the event |
| `sso`, `inbox`, `verdict` | external: the service, what it has sent on this connection, what it has decided |
| `outcome`, `overlapped` | history: what a request has returned; two updates were under way together |

`LoopTop`, `ParkedWakes`, `Connects`, `ReconnectSeen`, `Receive`, `ConnectFails`,
`LinkFails`, `Closes` (with `Finally`) and `BackoffEnds` are `_run`; `RequestAsked`,
`RequestResumes` and `RequestTimesOut` are `request_login_auth`; `UpdateSent` with
`SendCompletes` or `SendFails` is `send_update_location`; `BackendChosen`,
`TokenEdited`, `RefreshClicked` and `TimerFires` are the window. **`AuthRequests`** is
the promise to a caller: an authentication that was asked for ends, with the verdict
the SSO reached on that very request or with a failure. `AuthKeepsPromise` states that
`WsClient` implements it, liveness included.

**`LocalCharacters`** has `accounts` and `nameMap` (`LOCAL_ACCOUNTS`,
`LOCAL_ACCOUNT_NAME_MAP`; `Lower` is `str.lower`: the load puts names and aliases in lower
case and lets a later row of an account take the place of an earlier one (`Load`), a login
is looked up in lower case, and the window keeps what is typed), `chars` (`LOCAL_CHARACTERS`), the two files, `timerRef`
(`_save_timer`) with the threads it has started, `pendingAcct`
(`_pending_local_account`) and the UI thread. What `local_characters.py` does under its
lock is one action, what it does outside is not: `Flush` and `SaveNow` take a snapshot,
`TimerWritten` and `UiWritten` write it, and a write may fail or leave half a file.
**`LogWatcher`** extends it with the logs, the file position and the dumps:
`OnModified` (with the switch to another log, its seek and `try_auto_create`),
`ReadLine` (the test of the name before the lock), `ApplyLine` (`apply_update` under
it, twice for a line that tells level and class), and the same two steps for an inventory. `Restart` ends the process anywhere, and
starts it from the files. **`CharacterItems`** holds the pure part as operators:
the parsed inventory, tiers, and the readiness of a class. **`Tables`** has Python's
dictionaries: the operators of the module `TLC`, with definitions that a proof can
expand.

**`ConfigRepair`** models what an INI parser makes of keys that contain `:` or `=`: a
file is a table of defaults and a sequence of token entries, each a name with every
value it was given. **`Settings`** loads it (repair, then the migration of the old
backend name), and holds `stored` (the file), `config` (`CONFIG`), `active` (the
backend's globals) and `field` (the text of the token field). **`EqHost`** has
`eqhost.txt` and its backup for each installation, as the set of login hosts it
names, and the history variable `own`, the player's own file. An operation returns its
possible outcomes; the write of the backup and that of the file are two outcomes, so
that one of them may be missing. **`Updater`** has the executable under its two
names, the image that runs, and the stack of update dialogs: they run an event loop
of their own, in which another check may be answered. **`Desktop`** composes the three:
`Start`, `StartBreaks` (the repair is written, the migration is not), `Exit`, `Dies` and
`Relaunches` for the process, and the window's handlers
between them.

`MCLoginProxy`, `MCFragmentDelivery`, `MCWsClient`, `MCLogWatcher` and `MCDesktop` are
the modules TLC runs. Operators named `..._Fault...` are faulty variants of the operator
after them (a missing reset, a dropped clamp, a swapped order): for every property of a
passing run there is one under which TLC finds the property violated.

### What the abstraction leaves out

* CRC stripping and appending, and the negotiation of its key.
* A Combined carries at most two sub-packets and no Fragment. A Login always comes
  as `Combined(Ack, Packet)`, the only form `LoginPacket.parse` recognises.
* The client reaches the proxy over the loopback interface: its datagrams arrive
  once and in order, so sending and handling one is a single step. Its
  retransmissions are actions of their own.
* Datagrams of a session that has ended are not delivered into the next one.
* What the proxy sends to the server is not lost. The server answers only the packet
  it expects next, so order and repeats make no difference on that side.
* Sequence numbers are unbounded where the code does not reduce them
  (`seq_to_client`) and modulo `SeqMod` where it does.
* `is_bad_password_login_result` as its verdict; the filter on server names.
* `WsClient`: heartbeats, first-to-engage and death messages, which change no state of
  the program; one character's location; `stop`, which nothing calls. Each entry of the
  cache is an account with aliases, tags and characters.
* `LogWatcher`: one installation; a log is a sequence of lines and is not truncated; the
  1000 bytes before its end are `Window` lines.
* `Settings`: the section of custom backends and the setters of display and launch
  options. `find_eq_directory`'s search is the constant `Detected`.
* `Updater`: a release is newer than the program; its changelog is text.

## Runs

Bounds are the constants `Max...`; each is a guard, and the number of lists,
fragments and sessions is chosen so that the case named happens with one to spare.
No run checks deadlock: the player may stop at any time.

| run | environment and bounds | what it shows |
|---|---|---|
| `LoginReliable` | 2 sessions, all three routes of a Login, up to two lists of two fragments after the login, one replay and a spare; nothing lost | `AcksAreTruthful`, `ServerStreamExact`, `RetryAtMostOnce`, `SsoRejectionWithheld`, `RetryWithinSession`, `NothingLeftUnacked`; with fairness `RelayFaithful`, `LoginGetsAnswer`, `ListGetsAnswer` |
| `LoginLossy` | 1 session; the server's datagrams are lost, repeated, reordered; up to 6 packets shown | `ClientStreamContiguous`, `AckedWasIssued`, `AcksAreOfSentPackets` |
| `LoginChaos` | 2 sessions; retransmissions, an impatient client, idle gaps, repeated SessionResponses | `RetryConsistent`, `TypeOK` |
| `FragmentWrap` | sequence space of 8, lists of 4, three lists, every start | `ListsIntact`, `ListForwarded` |
| `SsoClient` | 3 settings (two backends with one token, and one without), 2 TLS settings, 1 account that comes, changes and goes, 2 requests, 2 updates, 4 events of user, network and SSO, back-off 1 to 2 | `WsTypeOK`, `WaitsOnThisLink`, `CacheMirrorsSso`, `LastSentIsTrue`; with fairness `AuthKeepsPromise`, `LatestSettingUsed` |
| `LocalData` | 2 accounts whose names differ in a capital letter and that can share an alias, 2 characters, 2 timer threads, 2 clicks, logins or restarts, 3 lines or dumps, both within 4; a tidy file of accounts and one with two rows of one account | `LogTypeOK`, `QuietMeansSaved`, `NameMapExact`, `CaughtUp`, `AutoCreateSound`, `ReadinessMonotone`; with fairness `ChangesSaved` |
| `Desktop` | 2 installations in two states, 6 files of settings (four of them old or damaged, one with a URL that is no backend's, one that is repaired and migrated), 3 operations, one failing write, two update checks one inside the other | `DesktopTypeOK`, `OwnFileKept`, `ExitIsDirect`, `RestartSame`, `RepairSettles`, `RepairKeepsTokens`, `ProgramOnDisk`, `StableKept`, `OtherTokensKept` |

Why these bounds are enough: two requests are the fewest that can be confused, and four
events are a connection, a change, a failure and a change after it. Two timer threads
and the UI thread are as many writers as can overlap, and one more line than the window
of the seek puts a login marker out of sight. Two clicks are a name that is typed and the load
that puts it in lower case. The lines of `LocalData` are two that tell a zone, one that
takes the zone for a bind, and one of level and class. Three operations on the desktop are an
enable, a change of the file from outside and a restart, with the kill or the failing
write that must fall between them.

Runs that TLC must find violated, each a disagreement between the code and what its
comments, docstrings or tests say (quoted in `PROJECT.json`, "findings"):

| run | what happens |
|---|---|
| `LoginStaleAuth` | the Login of a new session is dropped because the authentication of the session before still runs |
| `LoginSecondRetry` | the client repeats its Login after it was forwarded; a second authentication arms a second replay |
| `LoginRepeatedRejection` | the withheld rejection arrives once more after the replay and is shown |
| `FragmentHeadLate` | a fragment that overtakes the first one costs the whole list |
| `LocalStalePairing` | after a login to a local account, a login that the SSO does not authenticate goes by unnoted; the character of the next log is given the local account |

**Fairness.** `FairSpec` assumes weak fairness of the end of an authentication
(`request_login_auth` waits at most `sso_timeout`), of the delivery of the server's
packets and its SessionResponse, and of the server's taking a packet it expects (SOE
peers repeat what is not acknowledged; in the fair run nothing is lost). Nothing is
assumed of the client: the player may stop at any point, and the liveness
properties end when the client leaves.

`WsSpec` assumes weak fairness of the program's own steps: `_run`, its timers, the end
of a send (the library raises on a connection that has gone), the end of a request
(`wait_for` bounds it), and of the SSO's answer to the `auth` message of an open
connection. Nothing is assumed of the user, of the SSO's verdicts, or of the network,
which fails a bounded number of times. `LogSpec` assumes that while a started timer, a
thread that writes or a save begun by the UI thread can go on, one of them does: the
code has nothing that would keep them from it.

## What the properties except

Where the code itself leaves a gap, the property names it and says no more than the code
does; these gaps are worth a reader's attention:

* A save by a timer can overlap with `save_now`, and the older snapshot can win
  (`suspect` in `QuietMeansSaved` and `ChangesSaved`); a change of the last seconds
  before an exit is not flushed.
* `note_login` is not called when an SSO authentication fails, so the account of an
  earlier local login stays pending, which the docstring (`local_characters.py:189`)
  rules out: the run `LocalStalePairing`. `AutoCreateSound` speaks of the last login that
  was noted.
* An account or alias that is typed with a capital letter is kept so in memory, where a
  login, looked up in lower case (`server.py:101`), does not find it: it can log in after
  the next load (`utils.py:86`, `92`). `NameMapExact` speaks of the names in memory.
* Two spellings of one account are two accounts until the next load, which keeps the
  later row; the map keeps the aliases of the earlier one too (`utils.py:86-94`), and
  gives them to the later one's account: if that is then deleted they stay, and a login
  with one of them ends in a `KeyError` (`server.py:124`; `orphans` in `NameMapExact`,
  `Unknown` in `Login`). A character whose login was to "Foo" is given "foo".
* Datagrams: a fragment ahead of a missing packet moves `seq_from_server` past the gap, and
  the next Ack covers what has not arrived (`AcksAreTruthful` is for a link that does
  not reorder).
* `_rebuild_cache` after a delta has no dynamic tags: their names stop authenticating
  until the next full state (`CacheMirrorsSso` covers the tree and the characters).
* Two location updates under way together may leave `_last_sent_location` older than
  what was sent (`overlapped`).
* `_get_ssl_context` raises outside the loop's `try` when the CA bundle cannot be read,
  and the client never runs again (the phase `dead` in `LatestSettingUsed`).
* Deleting or editing an account drops its aliases from the map although another account
  has them too; so does editing one whose alias is its own name, which then cannot log in
  until the accounts are loaded again (`shared` in `NameMapExact`). An account saved without
  aliases comes back with the empty alias.
* The edit dialog writes back its copy over what the watcher has changed meanwhile.
* `_seek_to_latest_position` looks for a login marker in the last 1000 bytes and takes
  the first of them.
* `set_sso_api` gives a backend without a token the token of the one before it, and the
  field's signal stores it; `SSO_API` keeps its old value in the run that migrates, so that `RestartSame` compares
  names and tokens and no URL; the repair can take a URL for a token, and a file whose key `Custom` holds a URL that is no
  backend's is repaired again at every start (`RepairSettles`).
* A token that is the URL of a known backend, stored under `Custom`, is taken for that
  backend by the next start, and so is a name with a URL in it whose `sso_api` is another
  URL (`config_repair.py:142`, `109`): `RestartSame` does not hold of them, and
  `RestartAssumption` leaves them out.
* A backup is restored although the player has since written another file; choosing
  another installation leaves the first one pointing at the proxy; a start that finds its
  port taken exits with `eqhost.txt` enabled.
* An update whose download raises leaves the program under its backup name only,
  although the log says "Continuing with existing version" (`broken` in `StableKept`).

## Proofs

The four modules about the login proxy extend one another: `LoginProxy_proofs`,
`LoginNumbers_proofs`, `LoginReliable_proofs`, `LoginRelay_proofs`. They hold for every
value of the constants that `SeqModAssumption` and `ProxyAssumption` allow: any number of
sessions, packets, fragments and replays, any sequence space. What a theorem assumes
beyond that is in its ASSUME, and is a switch of the environment that the run of the
property sets too.

`LoginProxy_proofs`:

* **`TypeCorrect`**: `TypeOK` is inductive by itself. The lemmas before it state what
  each operator of `ProxySession` and `FragmentAssembler` returns and preserves; the
  other proofs use them too.
* **`RetrySafe`**: `RetryConsistent` needs no assumption on client or network. It is
  not inductive: `AuthSucceeds` copies the datagram under authentication into the
  retry, so the invariant `RetryInv` adds that this datagram is a Login as the client
  typed it (`AuthIsLogin`), which `StartAuth` establishes and the rewriting of
  sequences preserves. One consequence: the branch of `_fire_sso_retry` without a
  captured Login cannot be reached.
* **`RetryStaysInSession`**, assuming `~Impatient`: `SessionInv` adds that an open client
  has a session and an authentication an open client. Without the assumption it is
  false (the authentication ends after the disconnect and arms the retry).
* **`StreamContiguous`**, assuming `~IdleGaps` and `~RepeatedResponses`: `StreamInv` adds
  that `seq_to_client` counts what an open client was shown, that its session cannot
  lapse, and that a server without a session sends nothing. Both assumptions are
  needed: either event resets `seq_to_client` while the client goes on counting.

`LoginNumbers_proofs` is about the two number spaces, the client's and the server's, and
the one number by which a replay moves them apart.

* **`OneReplay`**, assuming `~Impatient` and `~ClientRetransmits`: `RetryAtMostOnce` on any
  link, through lapses and repeated responses. `OnceInv` says why the replay cannot come
  again: only a Login starts an authentication, it is issued once, and after the replay
  nothing is being authenticated and nothing armed. With retransmissions it is false
  (`LoginSecondRetry`).
* **`NoAckAhead`**, assuming only `~Impatient`: no Ack is ahead of what the server has
  sent (`AcksAreOfSentPackets`). `AckInv` says it of every place an Ack waits in: what was
  forwarded, the datagram under authentication, `seq_from_server` and the numbers the
  client was shown; and that a client that has left has left nothing behind (`Apart`).
* **`NumbersAreExact`** and **`NoForeignAck`**, assuming `~Impatient`, `~ClientRetransmits`,
  `~IdleGaps`, `~RepeatedResponses` and `MaxClient < SeqMod` (the session is shorter than the
  sequence space; a login uses a handful of the 65536): the server sees one stream of
  numbers without hole or repeat, and the client is acknowledged only what it issued. Both
  rest on the order of a login, which `NumbersInv` states: Ready and Login take the first
  two numbers (`Numbering`); until the Login is accepted the client asks for nothing, so
  that an armed or fired retry finds exactly one packet behind it (`RetryPhase`); and the
  server has answered each packet by one until then (`Answered`).

`LoginReliable_proofs` assumes `ReliableSession`, the switches of `LoginReliable.cfg`:
nothing is lost or repeated on the link to the server, the client is patient, nothing
lapses, and the session is shorter than the sequence space in both directions.

* **`NothingAckedUnseen`** (`AcksAreTruthful`) and **`AllAcknowledged`**
  (`NothingLeftUnacked`) are one fact once `seq_from_server` is known to count what has
  arrived, swallowed fragments and the withheld rejection included (`CountedInv`). It stays
  so because an intercepted answer is the last thing the server has sent: counting it
  passes over no packet.
* **`RejectionStaysInProxy`** (`SsoRejectionWithheld`): `WithheldInv` follows the SSO's
  password. It goes out once, with number 1; until its answer has come the retry is armed;
  so there is never a rejection of it that the proxy is not waiting for.

`LoginRelay_proofs` adds `NFrags <= SeqMod \div 2` (a list fits into half the sequence space,
where `seq_cmp` can order its fragments).

* **`RelayIsFaithful`** is the safety part of `RelayFaithful`: `LoginProxy` starts as
  `LoginRelay` does, and each of its steps is one of `LoginRelay`'s or none. Two invariants
  join those above. `SsoAnswered`: while the retry is armed the Login that the server has,
  or will take, is the SSO's, so that what is intercepted is never the player's own
  rejection, which the relay must show. `FragInv`: fragments come in whole lists
  (`Shaped`), and when the packet counted last is a fragment that does not end its list the
  assembler holds the list's fragments up to it, and is idle otherwise (`Assembly`); so
  the last fragment of each list, and no other, makes the proxy forward it.

`FragmentDelivery_proofs` holds for every sequence space, list length, start and fragment
whose content reads as a length. It assumes `HeadFirst` and `~LateRepeats`, as `FragmentWrap`
does; without the first the theorems are false (`FragmentHeadLate`).

* **`ListsArriveWhole`** (`ListsIntact`) and **`ListsArriveOnce`** (`ListForwarded`):
  `DeliveryInv` says that the assembler is idle before the head and after the last fragment,
  and holds exactly the fragments that have come in between, at the distances from the
  head at which `seq_cmp` finds them, across the wrap too.

`Desktop_proofs` holds for any installations, hosts, settings, updates and bounds that
`EqHostAssumption` allows: the proxy and the default server are different hosts, and
nobody but the program writes a file that names the proxy alone.

* **`OwnFileSafe`**: `OwnFileKept`, that the player's file is in place or in the backup,
  is not inductive: if it were in place beside a backup of something else, the next
  enable would lose it. `OwnInv` says where it is: in place while there is no backup,
  in the backup as soon as there is one. Each operation of `EqHost` is shown to have only
  outcomes that keep this (`Keeps`), and each action of `Desktop` to use them on one
  installation. `disable_proxy` alone would not: that it is only called on a file that
  is the proxy's is part of the argument.
* **`ExitSafe`**: `ExitInv` adds that every backup names a login server that is not the
  proxy (so restoring one never leads back to it) and that a running program has not
  ended cleanly.

The two theorems about the updates need no assumption on the constants: any number of
checks may be answered inside one another.

* **`ProgramKept`**: that some whole executable is on disk (`ProgramOnDisk`) says nothing
  of which. `DiskInv` names it: the file the running program was started from is there
  and whole. A rename takes it along (`image`), and neither an unpacked file nor the
  clean-up of an old backup touches the file of a running program.
* **`StableNameKept`**: while a backed-up download is under way the stable name is free,
  and other checks may come and go above it. `StableInv` says that this is the only
  case: the stable name holds a program, or a downloading, backed-up dialog has nothing
  but questions above it (`Renamed`), or a step has failed for good (`broken`).

The theorems about the settings hold for any table of backends, any tokens, any list of
keys and values in the file of a user or an older version (`FileShape`) and any failing
writes. `Text` stands for the strings; `NamesAssumption` and `SettingsAssumption` say that
a known backend has a name without ":" or "=", which is not "Custom", empty or the name
that was split. `SettingsInv` gives the file, the parser and the active backend their
shapes, and says that the active backend's name is one that resolves to itself.

* **`RepairIsEnough`** (`RepairSettles`) and **`RepairKeeps`** (`RepairKeepsTokens`) are about
  every file of that shape: a name that has been resolved is resolved to itself, so the
  second reading finds nothing to do. The third exception of `RepairSettles` (the key
  `Custom`) was found by this proof; the run now has such a file.
* **`TokensApart`** (`OtherTokensKept`): each handler that stores a token stores it under
  the name that is active after it; a name resolves to itself once it is active.
* **`RestartFinds`** (`RestartSame`) is what the repair, the migration and the setters have
  to keep together. `BackendInv` says what each of them leaves: the parser holds the active
  backend under the name and with the token that a start would choose, no key that a
  repair would take for another one (`KeysResolved`), and no name whose URL is not the one in
  use (`OwnUrl`). What is written by such a parser reads back as it was, with a repair or
  without. It needs `RestartAssumption` (see above): without it the theorem is false.
* **`DesktopTypes`** (`DesktopTypeOK`): `CountInv` bounds the counters and the stack of dialogs;
  that a backup names a login server is from `ExitInv`.

`WsClient_proofs` holds for any requests, settings, accounts, names and failures, and any
order of sends, answers, timeouts and disconnects. It assumes of the SSO only that an
account record is one (`EntriesAssumption`). `AnswerInv` carries the first two theorems,
`WsInv`, of which it is a part, the others.

* **`NobodyWaitsInVain`**: `WaitsOnThisLink` is inductive once `connected` implies that the
  connection is up and answers only carry verdicts. The cancellation in the `finally` of
  `_run` is where it would break.
* **`AnswersAreVerdicts`** is the safety part of the refinement `AuthKeepsPromise`: the
  initial states are those of `AuthRequests`, and every step is one of its steps or a
  stutter. A request that waits in the outbox or at the SSO is undecided, and is there
  once (`OutboxUndecided`, `AskedUndecided`), so that it is decided once; an answer under
  way or in a future is the verdict on the request it names (`InboxTrue`, `FuturesTrue`).
* **`TypesKept`** (`WsTypeOK`): `TypeInv` bounds the back-off, which doubles up to a cap, and
  ties `client` to the settings it was given.
* **`CacheIsExact`** (`CacheMirrorsSso`) says nothing while messages are under way, so it is
  not inductive. `CacheInv` says where they lead: `Feed` is a sequence of lists, the first
  the cache, the last the SSO's, each made from the one before by the next message; so a
  push extends it at one end and `_apply_delta` shortens it at the other. That a delta is
  exact rests on the lemma `PatchIsExact` (a record patched with its difference from
  another becomes the other), and that none is applied to an empty cache on the first
  message of a connection being a full state or an error. `LinkInv` ties the two ends of
  a connection together.
* **`WithheldWasSent`** (`LastSentIsTrue`): `SentInv` says that at most one update is being sent
  on the connection that is up, and that what it will record is what it says on top of
  what is recorded now (`Prepared`); one left over from an earlier connection fails and
  records nothing.

`LogWatcher_proofs` holds for any names, aliases, lines, dumps and threads. Five assumptions
on the constants are used: what is in lower case stays so (`LowerAssumption`); the program finds a table of accounts and one of characters
(`StartsAssumption`); the tracked flags and counts are disjoint, as in
`inventory_parser.py`, and there is a flag (`ItemsAssumption`); no item is called "park"
(`WatcherAssumption`); the counts that are compared are those of the files
(`InventoriesAssumption`, which `CountValues = Nat` satisfies). `LogInv` has one
part for each kind of state, and all parts are checked by TLC on the instance of `LocalData`
as well.

* **`MapIsExact`** (`NameMapExact`): `Maps` says which names the map may have, which it must
  have, and that names that stand twice now are among those that ever did. The accounts in
  memory are a table and no list (`AccountTable`): a deleted one leaves its position free,
  and rows that the load merges leave theirs. A load makes the map from every row, so that
  what it has too much are the aliases of the rows it replaced (`orphans`); every other
  name has the last row it stands in, which is one that stays. So an edit,
  which takes the old aliases out and puts the new ones in, cannot take away a name of
  another account that the property speaks of. To prove it the exception had to be stated
  exactly: an account whose alias is its own name loses both.
* **`LogTypes`** (`LogTypeOK`): `ThreadInv` says where each thread may stand (`_save_timer` is
  a timer that waits to fire), `FileInv` that the watcher reads only where there is a line
  and applies only what says something.
* **`SavedWhenQuiet`** (`QuietMeansSaved`) says nothing while a save is under way. `SaveInv` does:
  unless a save failed or overlapped, one thread at most is writing, and when no save is
  pending it writes the characters as they are. Hence every change must leave a save
  pending, also the one `apply_update` makes after another thread has deleted the entry.
* **`CreationIsSound`** (`AutoCreateSound`): `PairInv` ties the pending account to the login
  noted last, in lower case. A step that adds a character and is not a click is `on_modified`.
* **`WatcherCatchesUp`** (`CaughtUp`): `ReadInv` says it at every line and not at the end of the
  log only: what was read since the last login marker is known (`KnowsLast`), and the log
  followed is the newest one as soon as its event is handled. The seek goes to the first
  marker in sight, behind which nothing has been read (`SinceSeek`).

* **`MoreNeverHurts`** (`ReadinessMonotone`): each sub-check gets a better rank or keeps it, and
  an unknown one stays unknown (`Better`); that the roll-up keeps this order although a
  green rank lifts the others is a lemma about three ranks (`ThreeImprove`). `CarriedInv`
  follows the items through every place a record is copied to: the tables, the file,
  the snapshots of the threads, the copy in the dialog, and what the watchers hold.

### Only model-checked

Liveness: the fairness parts of `RelayFaithful` and `AuthKeepsPromise`, `LoginGetsAnswer`,
`ListGetsAnswer`, `LatestSettingUsed` and `ChangesSaved`. TLAPS does not reason about
fairness or ENABLED.

Every invariant and every action property of the runs that pass is also a theorem; the
refinements `RelayFaithful` and `AuthKeepsPromise` are proved for their safety part.

## Plan

1. *Done*: every module of the table above, its run, and 34 theorems: each safety property
   of the runs; the liveness is under "Only model-checked".
2. A second installation's log handler, and a truncated log.
3. A liveness run of `LoginProxy` under loss on the link to the server.

## Not modelled

The class and zone tables, `theme.py`, the tables, tray icon and notifications of the
window, the website, the icons and the packaging hold no state that a property could
speak of. CRC, DES and the byte layout of the login protocol are data transformations
that a test covers better. `eqclient.ini`, the Rustle scan and the launch of the game
are single reads or writes of a file.
