----------------------------- MODULE LoginProxy -----------------------------
(***************************************************************************)
(* One LoginProxy of server.py between an EQ client and the login server:  *)
(* the datagram handlers, the asynchronous SSO authentication, and the     *)
(* replay of the client's own Login when the server rejects the SSO        *)
(* password.                                                               *)
(*                                                                         *)
(* The client and the server are external. The client reaches the proxy    *)
(* over the local machine: a datagram is handled in the order it was sent, *)
(* and one action is both the sending and handle_client_packet. The server *)
(* is across the Internet: what the proxy sends it is a set from which the *)
(* server takes what it expects next, and what the server sends is handed  *)
(* to handle_server_packet once each and in order, or, with                *)
(* LossyServerLink, any of it at any time and any number of times.         *)
(***************************************************************************)
EXTENDS ProxySession, Sequences, FiniteSets

CONSTANTS
  Routes,             \* what may become of a Login: "sso", "local", "pass"
  NFrags,             \* fragments of a server list
  GarbageTotals,      \* what may be read as a length from a fragment's payload
  LossyServerLink,    \* the server's datagrams are lost, repeated, reordered
  ClientRetransmits,  \* the client repeats what is not acknowledged yet
  Impatient,          \* the client leaves or reconnects during authentication
  IdleGaps,           \* the client can be silent for 60 seconds
  RepeatedResponses,  \* a SessionResponse can arrive again within the session
  MaxSessions,        \* bound: sessions the client opens
  MaxClient,          \* bound: packets the client issues in a session
  MaxStream,          \* bound: packets the server answers in a session
  MaxShown,           \* bound: packets shown to the client in a session
  MaxRetries          \* bound: replays in a session

ASSUME ProxyAssumption ==
  /\ Routes \subseteq {"sso", "local", "pass"}
  /\ NFrags \in Nat /\ NFrags > 1
  /\ GarbageTotals \subseteq Nat
  /\ {LossyServerLink, ClientRetransmits, Impatient, IdleGaps, RepeatedResponses}
       \subseteq BOOLEAN
  /\ {MaxSessions, MaxClient, MaxStream, MaxShown, MaxRetries} \subseteq Nat

VARIABLES
  \* the proxy
  inSession,  \* in_session
  session,    \* session: the ProxySessionState
  retry,      \* _sso_original_login, _sso_retry_armed, _sso_retry_fired
  auth,       \* the Login of the running _async_auth_and_forward, <<>> if none
  stale,      \* more than 60 seconds since last_recv_time
  \* the EQ client
  client,     \* its session, next sequence number, last Ack received, route
  shown,      \* the packets it was sent in this session
  \* the login server
  server,     \* its session, the sequence it expects, what it answered
  toServer,   \* every Ack and packet forwarded to it in this session
  arrived     \* sequences of its packets that reached the proxy

proxyVars  == <<inSession, session, retry, auth, stale>>
clientVars == <<client, shown>>
serverVars == <<server, toServer, arrived>>
vars == <<proxyVars, clientVars, serverVars>>

----------------------------------------------------------------------------
(* Datagrams *)

Kinds == {"none", "Ready", "Login", "ListReq"}
Creds == {"none", "typed", "local", "sso"}

ClientSubs ==
  [op : {"Ack", "Packet"}, seq : Nat, kind : Kinds, cred : Creds, sess : Nat]

FragmentItems == {"Head", "Body", "Tail", "Stub"}
Rejections    == {"SsoRejected", "Rejected"}
LoginAnswers  == {"Good"} \cup Rejections
ServerItems   == {"Hello"} \cup LoginAnswers \cup FragmentItems

(* The EQ client's packets, in the order it issues them: ready, Login, then *)
(* requests for the server list.                                            *)
Kind(n) == IF n = 0 THEN "Ready" ELSE IF n = 1 THEN "Login" ELSE "ListReq"

ClientPacket(n) ==
  [op |-> "Packet", seq |-> n, kind |-> Kind(n),
   cred |-> IF n = 1 THEN "typed" ELSE "none", sess |-> client.sess]

Ack(n) ==
  [op |-> "Ack", seq |-> n, kind |-> "none", cred |-> "none", sess |-> client.sess]

ClientAck == Ack(Len(shown) - 1)

(* How packet n may travel: a Login always with an Ack before it. *)
ClientDatagrams(n) ==
  {d \in {<<ClientAck, ClientPacket(n)>>, <<ClientPacket(n)>>} :
     IF Len(d) = 2 THEN shown # <<>> ELSE Kind(n) # "Login"}

ServerPacket(i) == [op |-> "Packet", seq |-> i - 1, item |-> server.stream[i]]
ServerFragment(i, total) ==
  [seq |-> (i - 1) % SeqMod, head |-> server.stream[i] = "Head", total |-> total,
   short |-> server.stream[i] = "Stub", chunk |-> i]
ServerAck(n) == [op |-> "Ack", seq |-> n, item |-> "none"]

WithCredentials(d, c) ==
  [i \in DOMAIN d |-> IF d[i].kind = "Login" THEN [d[i] EXCEPT !.cred = c] ELSE d[i]]

SubsOf(d) == {d[i] : i \in DOMAIN d}

----------------------------------------------------------------------------
(* Initial state *)

NoRetry  == [original |-> <<>>, armed |-> FALSE, fired |-> FALSE]
NoServer == [up |-> FALSE, opening |-> FALSE, expect |-> 0, stream |-> <<>>]

Init ==
  /\ inSession = FALSE
  /\ session = NewSession
  /\ retry = NoRetry
  /\ auth = <<>>
  /\ stale = TRUE     \* last_recv_time is 0.0
  /\ client = [open |-> FALSE, sess |-> 0, next |-> 0, acked |-> -1, route |-> "pass"]
  /\ shown = <<>>
  /\ server = NoServer
  /\ toServer = {}
  /\ arrived = {}

----------------------------------------------------------------------------
(* Client -> login server: handle_client_packet *)

(* The test at the top of the handler; every client datagram passes it. *)
Lapsed == ~inSession \/ stale
CurrentSession == IF Lapsed THEN NewSession ELSE session
CurrentRetry_FaultKept == retry

CurrentRetry   == IF Lapsed THEN NoRetry ELSE retry

NeedsSso(d) == client.route = "sso" /\ Len(d) = 2 /\ d[2].kind = "Login"

SyncRewrite(d) == IF client.route = "local" THEN WithCredentials(d, "local") ELSE d

SendToLoginServer(d) == toServer' = toServer \cup SubsOf(d)

(* A Login that needs the SSO while one is being authenticated. *)
DropLogin(d) ==
  /\ NeedsSso(d) /\ auth # <<>>
  /\ stale' = FALSE
  /\ UNCHANGED <<auth, toServer>>

(* last_recv_time is left alone until the authentication ends. *)
StartAuth(d) ==
  /\ NeedsSso(d) /\ auth = <<>>
  /\ auth' = Adjust(CurrentSession, d)
  /\ UNCHANGED <<stale, toServer>>

ForwardClientData(d) ==
  /\ ~NeedsSso(d)
  /\ SendToLoginServer(SyncRewrite(Adjust(CurrentSession, d)))
  /\ stale' = FALSE
  /\ UNCHANGED auth

HandleClientData(d) ==
  /\ session' = CurrentSession
  /\ retry' = CurrentRetry
  /\ \/ DropLogin(d)
     \/ StartAuth(d)
     \/ ForwardClientData(d)
  /\ UNCHANGED <<inSession, server, arrived>>

WasShown(item) == \E i \in DOMAIN shown : shown[i].item = item

(* The client asks for the next thing only when it has the answer before. *)
MayIssue(n) ==
  /\ n < MaxClient
  /\ n = 1 => WasShown("Hello")
  /\ n > 1 => /\ WasShown("Good")
              /\ n - 2 <= Cardinality({i \in DOMAIN shown : shown[i].item = "List"})

ClientIssues ==
  /\ client.open /\ MayIssue(client.next)
  /\ \E d \in ClientDatagrams(client.next) : HandleClientData(d)
  /\ client' = [client EXCEPT !.next = @ + 1]
  /\ UNCHANGED shown

ClientRepeats ==
  /\ ClientRetransmits
  /\ client.open
  /\ \E n \in (client.acked + 1) .. (client.next - 1) :
       \E d \in ClientDatagrams(n) : HandleClientData(d)
  /\ UNCHANGED clientVars

ClientAcks ==
  /\ client.open /\ shown # <<>>
  /\ HandleClientData(<<ClientAck>>)
  /\ UNCHANGED clientVars

(* A datagram of any other type is forwarded as it is. *)
ClientKeepsAlive ==
  /\ client.open
  /\ session' = CurrentSession
  /\ retry' = CurrentRetry
  /\ stale' = FALSE
  /\ UNCHANGED <<inSession, auth, clientVars, serverVars>>

(* SessionRequest, also from a client that never said SessionDisconnect. *)
ClientConnects ==
  /\ client.sess < MaxSessions
  /\ Impatient \/ ~client.open
  /\ Impatient \/ auth = <<>>
  /\ \E r \in Routes :
       client' = [open |-> FALSE, sess |-> client.sess + 1, next |-> 0,
                  acked |-> -1, route |-> r]
  /\ session' = CurrentSession
  /\ retry' = CurrentRetry
  /\ stale' = FALSE
  /\ shown' = <<>>
  /\ server' = [NoServer EXCEPT !.opening = TRUE]
  /\ toServer' = {}
  /\ arrived' = {}
  /\ UNCHANGED <<inSession, auth>>

ClientDisconnects_FaultStaysArmed ==
  /\ client.open
  /\ Impatient \/ auth = <<>>
  /\ inSession' = FALSE
  /\ session' = NewSession
  /\ stale' = FALSE
  /\ client' = [client EXCEPT !.open = FALSE]
  /\ shown' = <<>>
  /\ server' = NoServer
  /\ toServer' = {}
  /\ arrived' = {}
  /\ UNCHANGED <<auth, retry>>

ClientDisconnects ==
  /\ client.open
  /\ Impatient \/ auth = <<>>
  /\ inSession' = FALSE
  /\ session' = NewSession
  /\ retry' = NoRetry
  /\ stale' = FALSE
  /\ client' = [client EXCEPT !.open = FALSE]
  /\ shown' = <<>>
  /\ server' = NoServer
  /\ toServer' = {}
  /\ arrived' = {}
  /\ UNCHANGED auth

(* The clock: 60 seconds without a client datagram. An authentication ends  *)
(* within sso_timeout (10 seconds), so none is running by then.             *)
ClientIdles ==
  /\ IdleGaps /\ client.open /\ auth = <<>>
  /\ stale' = TRUE
  /\ UNCHANGED <<inSession, session, retry, auth, clientVars, serverVars>>

----------------------------------------------------------------------------
(* _async_auth_and_forward, from the answer of the SSO on *)

(* The SSO supplied an account: its credentials go out, and the client's    *)
(* own Login is kept for the replay.                                        *)
AuthSucceeds ==
  /\ auth # <<>>
  /\ retry' = [original |-> auth, armed |-> TRUE, fired |-> FALSE]
  /\ SendToLoginServer(WithCredentials(auth, "sso"))
  /\ auth' = <<>>
  /\ stale' = FALSE
  /\ UNCHANGED <<inSession, session, clientVars, server, arrived>>

(* Rejected, timed out, disconnected or failed: the Login goes out as typed. *)
AuthFails ==
  /\ auth # <<>>
  /\ SendToLoginServer(auth)
  /\ auth' = <<>>
  /\ stale' = FALSE
  /\ UNCHANGED <<inSession, session, retry, clientVars, server, arrived>>

----------------------------------------------------------------------------
(* Login server -> client: handle_server_packet *)

(* What the forwarding of sub-packets to the client changes. *)
Relayed(st, sub) ==
  IF sub.op = "Ack"
    THEN [st EXCEPT !.acked = Larger(@, AdjustServerAck(st.session, sub.seq))]
    ELSE [st EXCEPT !.session = RewriteServerPacket(@, sub.seq),
                    !.shown = Append(@, [seq |-> st.session.seqToClient,
                                         item |-> sub.item])]

(* At most two sub-packets travel in one datagram. *)
RelayedAll(st, d) ==
  CASE Len(d) = 0 -> st
    [] Len(d) = 1 -> Relayed(st, d[1])
    [] OTHER      -> Relayed(Relayed(st, d[1]), d[2])

Unrelayed == [session |-> session, shown |-> shown, acked |-> client.acked]

Forwarded(st) ==
  /\ shown' = st.shown
  /\ client' = [client EXCEPT !.acked = st.acked]

AnswerIn_FaultFirstOnly(d) == IF d[1].item \in LoginAnswers THEN 1 ELSE 0

(* The first LoginAccepted among the sub-packets, 0 if there is none. *)
AnswerIn(d) ==
  IF d[1].item \in LoginAnswers THEN 1
  ELSE IF Len(d) = 2 /\ d[2].item \in LoginAnswers THEN 2 ELSE 0

Intercepts(d) == retry.armed /\ ~retry.fired /\ AnswerIn(d) # 0

PassOn(d) ==
  /\ Forwarded(RelayedAll(Unrelayed, d))
  /\ session' = RelayedAll(Unrelayed, d).session
  /\ retry' = [retry EXCEPT !.armed = @ /\ ~Intercepts(d)]
  /\ UNCHANGED toServer

FireSsoRetry_FaultStaysArmed(s, n) ==
  LET shifted == NoteInjectedClientPacket(NoteSuppressedServerPacket(s, n))
  IN  /\ session' = shifted
      /\ SendToLoginServer(<<Ack(n)>> \o Adjust(shifted, retry.original))
      /\ UNCHANGED retry

FireSsoRetry_FaultOnlyAcks(s, n) ==
  /\ session' = NoteInjectedClientPacket(NoteSuppressedServerPacket(s, n))
  /\ SendToLoginServer(<<Ack(n)>>)
  /\ retry' = [retry EXCEPT !.armed = FALSE, !.fired = TRUE]

(* _fire_sso_retry: acknowledge the rejection, count it as received, count  *)
(* the replay as issued, and replay the client's Login.                     *)
FireSsoRetry(s, n) ==
  IF retry.original = <<>>
    THEN /\ retry' = [retry EXCEPT !.armed = TRUE]
         /\ session' = s
         /\ UNCHANGED toServer
    ELSE LET shifted ==
               NoteInjectedClientPacket(NoteSuppressedServerPacket(s, n))
         IN  /\ session' = shifted
             /\ SendToLoginServer(<<Ack(n)>> \o Adjust(shifted, retry.original))
             /\ retry' = [retry EXCEPT !.armed = FALSE, !.fired = TRUE]

WithoutAnswer(d) == IF Len(d) = 1 THEN <<>> ELSE <<d[3 - AnswerIn(d)]>>

(* The other sub-packets are forwarded first, the rejection never. *)
SuppressRejection(d) ==
  LET st == RelayedAll(Unrelayed, WithoutAnswer(d))
  IN  /\ Forwarded(st)
      /\ FireSsoRetry(st.session, d[AnswerIn(d)].seq)
      /\ session.csOffset < MaxRetries

HandleServerData(d) ==
  /\ \/ /\ Intercepts(d) /\ d[AnswerIn(d)].item \in Rejections
        /\ SuppressRejection(d)
     \/ /\ Intercepts(d) => d[AnswerIn(d)].item = "Good"
        /\ PassOn(d)
  /\ UNCHANGED <<inSession, auth, stale, server>>

HandleFragment(f) ==
  /\ session' = RecvFragment(session, f)
  /\ shown' = IF CompletesList(session, f)
                THEN Append(shown, [seq |-> session.seqToClient, item |-> "List"])
                ELSE shown
  /\ UNCHANGED <<inSession, retry, auth, stale, client, server, toServer>>

(* Packet i of the server's answers may reach the proxy now. *)
MayArrive(i) ==
  /\ i \in DOMAIN server.stream
  /\ Len(shown) + 1 < MaxShown
  /\ LossyServerLink \/ i = Cardinality(arrived) + 1

Sequenced(i) == MayArrive(i) /\ server.stream[i] \notin FragmentItems

ServerAcks == {ServerAck(n) : n \in 0 .. (server.expect - 1)}

(* Packet i alone, behind an Ack, or in front of the packet after it. *)
ServerSendsPacket(i) ==
  /\ Sequenced(i)
  /\ \/ /\ \/ HandleServerData(<<ServerPacket(i)>>)
           \/ \E a \in ServerAcks : HandleServerData(<<a, ServerPacket(i)>>)
        /\ arrived' = arrived \cup {i - 1}
     \/ /\ i + 1 \in DOMAIN server.stream
        /\ server.stream[i + 1] \notin FragmentItems
        /\ HandleServerData(<<ServerPacket(i), ServerPacket(i + 1)>>)
        /\ arrived' = arrived \cup {i - 1, i}

ServerSendsFragment(i) ==
  /\ MayArrive(i)
  /\ server.stream[i] \in FragmentItems
  /\ \E total \in IF server.stream[i] = "Head" THEN {NFrags} ELSE GarbageTotals :
       HandleFragment(ServerFragment(i, total))
  /\ arrived' = arrived \cup {i - 1}

ServerSendsAck ==
  /\ \E a \in ServerAcks : HandleServerData(<<a>>)
  /\ UNCHANGED arrived

(* SessionResponse. *)
ServerResponds ==
  /\ server.opening \/ (RepeatedResponses /\ server.up /\ client.open)
  /\ inSession' = TRUE
  /\ session' = NewSession
  /\ retry' = NoRetry
  /\ client' = [client EXCEPT !.open = TRUE]
  /\ server' = [server EXCEPT !.up = TRUE, !.opening = FALSE]
  /\ UNCHANGED <<auth, stale, shown, toServer, arrived>>

----------------------------------------------------------------------------
(* The login server takes the packet it expects and answers it. *)

ListFragments(last) ==
  [k \in 1 .. NFrags |-> IF k = 1 THEN "Head" ELSE IF k < NFrags THEN "Body" ELSE last]

Answers(m) ==
  CASE m.kind = "Ready" -> {<<"Hello">>}
    [] m.kind = "Login" ->
         {<<"Good">>, <<IF m.cred = "sso" THEN "SsoRejected" ELSE "Rejected">>}
    [] OTHER -> {ListFragments("Tail"), ListFragments("Stub")}

ServerReceives ==
  /\ server.up
  /\ \E m \in toServer :
       /\ m.op = "Packet" /\ m.seq = server.expect
       /\ \E answer \in Answers(m) :
            /\ Len(server.stream) + Len(answer) <= MaxStream
            /\ server' = [server EXCEPT !.expect = @ + 1, !.stream = @ \o answer]
  /\ UNCHANGED <<proxyVars, clientVars, toServer, arrived>>

----------------------------------------------------------------------------
ClientStep ==
  \/ ClientIssues \/ ClientRepeats \/ ClientAcks \/ ClientKeepsAlive
  \/ ClientConnects \/ ClientDisconnects \/ ClientIdles

AuthEnds == AuthSucceeds \/ AuthFails

ServerSends ==
  \E i \in DOMAIN server.stream : ServerSendsPacket(i) \/ ServerSendsFragment(i)

Next ==
  \/ ClientStep
  \/ AuthEnds
  \/ ServerSends
  \/ ServerSendsAck
  \/ ServerResponds
  \/ ServerReceives

Spec == Init /\ [][Next]_vars

(* The SSO request is bounded by its timeout, and both ends of an SOE       *)
(* session repeat what is not acknowledged: nothing that is due is put off  *)
(* for ever. The player may do nothing at any point.                        *)
FairSpec ==
  /\ Spec
  /\ WF_vars(AuthEnds)
  /\ WF_vars(ServerSends)
  /\ WF_vars(ServerResponds)
  /\ WF_vars(ServerReceives)

----------------------------------------------------------------------------
(* Type invariant: the program's state stays within its declared types. *)

Datagrams == Seq(ClientSubs)

Assemblers ==
  [active : BOOLEAN, first : Nat, total : Nat,
   frags : SUBSET [seq : Nat, chunk : Nat]]

Sessions ==
  [seqToClient : Nat, seqFromServer : Nat, csOffset : Nat,
   asm : Assemblers, pendingList : BOOLEAN]

TypeOK ==
  /\ inSession \in BOOLEAN
  /\ session \in Sessions
  /\ retry \in [original : Datagrams, armed : BOOLEAN, fired : BOOLEAN]
  /\ auth \in Datagrams
  /\ stale \in BOOLEAN
  /\ client \in [open : BOOLEAN, sess : Nat, next : Nat, acked : Nat \cup {-1},
                 route : {"sso", "local", "pass"}]
  /\ shown \in Seq([seq : Nat, item : ServerItems \cup {"List"}])
  /\ server \in [up : BOOLEAN, opening : BOOLEAN, expect : Nat, stream : Seq(ServerItems)]
  /\ toServer \in SUBSET ClientSubs
  /\ arrived \in SUBSET Nat

----------------------------------------------------------------------------
(* Safety *)

(* The three fields of the retry stay in step in every interleaving of the   *)
(* authentication task with disconnects, reconnects and resets. While the    *)
(* proxy waits for the answer to an SSO login it holds the Login the client  *)
(* typed, so the branch of _fire_sso_retry that finds nothing captured is    *)
(* unreachable; a replay that was fired is counted in cs_offset and is not   *)
(* armed again without another authentication.                               *)
RetryConsistent ==
  /\ retry.armed \/ retry.fired =>
       /\ Len(retry.original) = 2
       /\ retry.original[2].kind = "Login" /\ retry.original[2].cred = "typed"
  /\ retry.fired => ~retry.armed /\ session.csOffset > 0

(* The packets handed to the client carry the sequences 0, 1, 2, ... with no *)
(* hole and no repeat, whatever was suppressed, reassembled, split out of a  *)
(* Combined, repeated or reordered on the server side.                       *)
ClientStreamContiguous == \A i \in DOMAIN shown : shown[i].seq = i - 1

(* adjust_server_ack: the client sees Acks only for sequences it issued, also *)
(* when an Ack older than a replay arrives after it.                          *)
AckedWasIssued == client.acked < client.next

(* What the proxy acknowledges to the server, for the client or on its own, *)
(* has reached the proxy, and so has all before it.                         *)
AcksAreTruthful ==
  \A m \in toServer : m.op = "Ack" => 0 .. m.seq \subseteq arrived

(* The server is never told of a packet it has not sent. *)
AcksAreOfSentPackets ==
  \A m \in toServer : m.op = "Ack" => m.seq < Len(server.stream)

ForwardedPackets == {m \in toServer : m.op = "Packet"}

(* The client's packets and the replay share the server's number space       *)
(* exactly: every number up to the last is used once, and none twice. The    *)
(* only one missing is that of a Login under authentication.                 *)
ServerStreamExact ==
  LET used == {m.seq : m \in ForwardedPackets}
      due  == IF auth = <<>> THEN {} ELSE {auth[2].seq}
  IN  client.open =>
        /\ used \cup due = 0 .. (client.next + session.csOffset - 1)
        /\ Cardinality(ForwardedPackets) = Cardinality(used)
        /\ used \cap due = {}

(* One rejected SSO password is replayed once in a session. *)
RetryAtMostOnce == session.csOffset <= 1

(* The rejection of a password the player never typed stays in the proxy. *)
SsoRejectionWithheld == ~WasShown("SsoRejected")

(* A Login is set aside only as the repetition of the one that is being      *)
(* authenticated: once the client has issued the Login of its session, the   *)
(* one in flight is that one, not the Login of a session before.             *)
DroppedIsRepetition ==
  auth # <<>> /\ client.next > 1 => auth[2].sess = client.sess

(* Outside a session there is nothing to retry. *)
RetryWithinSession == retry.armed => inSession

(* An Ack of the client acknowledges everything that has arrived, the        *)
(* suppressed rejection and the fragments included: the server is left with  *)
(* nothing to repeat.                                                        *)
NothingLeftUnacked ==
  client.open => session.seqFromServer = Cardinality(arrived)

----------------------------------------------------------------------------
(* What the client is promised *)

ItemsShown == [i \in DOMAIN shown |-> shown[i].item]

Relay ==
  INSTANCE LoginRelay
    WITH source <- server.stream,
         taken  <- Cardinality(arrived),
         shown  <- ItemsShown

(* The proxy implements the relay: what the client is shown is the server's *)
(* answers, in order and once each, without the withheld ones.              *)
RelayFaithful == Relay!Spec

LoginAnswered == WasShown("Good") \/ WasShown("Rejected")

(* A player who logs in learns the result, through the SSO, its failure or   *)
(* the replay, unless the client leaves.                                     *)
LoginGetsAnswer == (client.open /\ client.next > 1) ~> (LoginAnswered \/ ~client.open)

(* A player who asks for the server list gets it. *)
ListGetsAnswer == (client.open /\ client.next > 2) ~> (WasShown("List") \/ ~client.open)

=============================================================================
