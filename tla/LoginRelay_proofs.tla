-------------------------- MODULE LoginRelay_proofs --------------------------
(***************************************************************************)
(* LoginProxy implements LoginRelay on a reliable link, for every value of *)
(* its constants: what the client is shown is what the server answered, in *)
(* order, once each, without the withheld ones and with a list for its     *)
(* fragments. This is the safety part of RelayFaithful.                    *)
(***************************************************************************)
EXTENDS LoginReliable_proofs

----------------------------------------------------------------------------
(* What an armed retry intercepts *)

(* While the retry waits, the Login the server has, or will take, is the one *)
(* with the SSO's password: what is intercepted is never the rejection of    *)
(* the player's own.                                                         *)
SsoAnswered ==
  client.open /\ retry.armed =>
    /\ \A m \in ForwardedPackets : m.seq = 1 => m.cred = "sso"
    /\ \A i \in DOMAIN server.stream : server.stream[i] # "Rejected"

LEMMA IssueUnarmed ==
  ASSUME TypeOK, AckInv, NumbersInv, ClientIssues
  PROVE  ~retry.armed
<1> SUFFICES ASSUME retry.armed PROVE FALSE
  OBVIOUS
<1>1. client.open /\ MayIssue(client.next) /\ RetryPhase
  BY DEF ClientIssues, NumbersInv
<1>2. client.next = 2 /\ Unseen(Unrelayed, "Good")
  BY <1>1 DEF RetryPhase
<1>3. QED
  BY <1>1, <1>2 DEF MayIssue, WasShown, Unseen, Unrelayed

LEMMA QuietAnswered ==
  ASSUME SsoAnswered, client'.open => client.open, retry'.armed => retry.armed,
         ForwardedPackets' = ForwardedPackets, server'.stream = server.stream
  PROVE  SsoAnswered'
  BY DEF SsoAnswered

LEMMA AuthAnswered ==
  ASSUME TypeOK, RetryInv, AckInv, NumbersInv, AuthEnds
  PROVE  SsoAnswered'
<1>1. auth # <<>> /\ UNCHANGED <<session, client, shown, server>>
  BY DEF AuthEnds, AuthSucceeds, AuthFails, clientVars
<1>2. client.open /\ Numbering /\ RetryPhase /\ Answered
  BY <1>1 DEF AckInv, Apart, NumbersInv
<1>3. Replayable(auth) /\ client.next = 2 /\ ~retry.armed /\ server.expect <= 1
  BY <1>1, <1>2 DEF RetryPhase
<1>4. CASE AuthSucceeds
  <2>1. toServer' = toServer \cup SubsOf(WithCredentials(auth, "sso"))
    BY <1>4 DEF AuthSucceeds, SendToLoginServer
  <2>2. \A m \in ForwardedPackets : m.seq # 1
    BY <1>1, <1>2 DEF Numbering, Exact, Due
  <2>3. auth \in Datagrams /\ "sso" \in Creds /\ TypedLogin(auth)
    BY <1>1 DEF TypeOK, Creds, RetryInv, AuthIsLogin
  <2>4. \A i \in DOMAIN auth : i = 1 \/ i = 2
    BY <1>3, <2>3 DEF Datagrams, Replayable
  <2>5. \A i \in DOMAIN WithCredentials(auth, "sso") :
          WithCredentials(auth, "sso")[i].op = "Packet" =>
            WithCredentials(auth, "sso")[i].cred = "sso"
    <3>1. DOMAIN WithCredentials(auth, "sso") = DOMAIN auth
      BY DEF WithCredentials
    <3>2. auth[1].op = "Ack" /\ auth[2].kind = "Login"
      BY <1>3, <2>3 DEF Replayable, TypedLogin
    <3>3. \A i \in DOMAIN auth : WithCredentials(auth, "sso")[i].op = auth[i].op
      BY <2>3, CredentialSubs
    <3>4. 2 \in DOMAIN auth => WithCredentials(auth, "sso")[2].cred = "sso"
      <4>1. ASSUME 2 \in DOMAIN auth
            PROVE  WithCredentials(auth, "sso")[2] = [auth[2] EXCEPT !.cred = "sso"]
        BY <3>2, <4>1 DEF WithCredentials
      <4>2. 2 \in DOMAIN auth => auth[2] \in ClientSubs
        BY <2>3 DEF Datagrams
      <4>3. QED
        BY <4>1, <4>2 DEF ClientSubs
    <3>5. QED
      BY <2>4, <3>1, <3>2, <3>3, <3>4
  <2>6. \A m \in ForwardedPackets' : m.seq = 1 => m.cred = "sso"
    BY <2>1, <2>2, <2>5 DEF ForwardedPackets, SubsOf
  <2>7. \A i \in DOMAIN server.stream : server.stream[i] # "Rejected"
    <3>1. PICK m \in Nat : Len(server.stream) = m /\ DOMAIN server.stream = 1 .. m
      BY StreamDomain
    <3>2. m <= 1
      BY <1>2, <1>3, <3>1 DEF Answered, TypeOK
    <3>3. QED
      BY <1>2, <3>1, <3>2 DEF Answered
  <2>8. QED
    BY <1>1, <2>6, <2>7 DEF SsoAnswered
<1>5. CASE AuthFails
  <2>1. retry' = retry
    BY <1>5 DEF AuthFails
  <2>2. QED
    BY <1>3, <2>1 DEF SsoAnswered
<1>6. QED
  BY <1>4, <1>5 DEF AuthEnds

LEMMA ReceivesAnswered ==
  ASSUME TypeOK, AckInv, NumbersInv, SsoAnswered, ServerReceives
  PROVE  SsoAnswered'
<1>1. UNCHANGED <<session, retry, client, shown, toServer>> /\ client.open
  BY DEF ServerReceives, proxyVars, clientVars, AckInv, Apart
<1> SUFFICES ASSUME retry.armed PROVE SsoAnswered'
  BY <1>1 DEF SsoAnswered
<1>2. Numbering /\ RetryPhase
  BY <1>1 DEF NumbersInv
<1>3. PICK m \in toServer : \E answer \in Answers(m) :
        /\ m.op = "Packet" /\ answer \in Seq(ServerItems) /\ Len(answer) > 0
        /\ server'.stream = server.stream \o answer
  BY ReceivesEffect
<1>4. PICK answer \in Answers(m) :
        /\ answer \in Seq(ServerItems) /\ Len(answer) > 0
        /\ server'.stream = server.stream \o answer
  BY <1>3
<1>5. m.kind = "Login" => m.cred = "sso"
  <2>1. Last = 2 /\ m \in ForwardedPackets
    BY <1>2, <1>3 DEF RetryPhase, Last, ForwardedPackets
  <2>2. m.seq \in 0 .. 1
    BY <1>2, <2>1 DEF Numbering, Exact
  <2>3. m.seq = 0 => m.kind = "Ready"
    BY <1>2, <2>1 DEF Numbering
  <2>4. m.seq = 1 => m.cred = "sso"
    BY <1>1, <2>1 DEF SsoAnswered
  <2>5. QED
    BY <2>2, <2>3, <2>4
<1>6. \A j \in DOMAIN answer : answer[j] # "Rejected"
  <2>1. CASE m.kind = "Ready"
    BY <1>4, <2>1 DEF Answers
  <2>2. CASE m.kind = "Login"
    BY <1>4, <1>5, <2>2 DEF Answers
  <2>3. CASE m.kind # "Ready" /\ m.kind # "Login"
    <3>1. PICK last \in {"Tail", "Stub"} : answer = ListFragments(last)
      BY <1>4, <2>3 DEF Answers
    <3>2. QED
      BY <3>1 DEF ListFragments
  <2>4. QED
    BY <2>1, <2>2, <2>3
<1>7. \A j \in DOMAIN server'.stream : server'.stream[j] # "Rejected"
  <2>1. PICK n \in Nat, k \in Nat : /\ Len(server.stream) = n /\ DOMAIN server.stream = 1 .. n
                                    /\ k = Len(answer) /\ DOMAIN answer = 1 .. k
    BY <1>4, StreamDomain
  <2>2. SUFFICES ASSUME NEW j \in DOMAIN server'.stream PROVE server'.stream[j] # "Rejected"
    OBVIOUS
  <2>3. \/ j \in 1 .. n /\ server'.stream[j] = server.stream[j]
        \/ \E i \in 1 .. k : server'.stream[j] = answer[i]
    <3>0. server.stream \in Seq(ServerItems)
      BY DEF TypeOK
    <3>1. j \in Nat
      BY <1>4, <2>2, <3>0
    <3>2. j \in 1 .. n \/ j - n \in 1 .. k
      BY <1>4, <2>1, <2>2, StreamGrows
    <3>3. j \in 1 .. n => server'.stream[j] = server.stream[j]
      BY <1>4, <2>1, StreamGrows
    <3>4. \A i \in 1 .. k : server'.stream[n + i] = answer[i]
      BY <1>4, <2>1, StreamGrows
    <3>5. j - n \in 1 .. k => j = n + (j - n)
      BY <2>1, <3>1
    <3>6. QED
      BY <3>2, <3>3, <3>4, <3>5
  <2>4. QED
    BY <1>1, <1>6, <2>1, <2>3 DEF SsoAnswered
<1>8. QED
  BY <1>1, <1>7 DEF SsoAnswered, ForwardedPackets

LEMMA AcksForwardNoPacket ==
  ASSUME TypeOK, StreamInv, ClientAcks
  PROVE  /\ ForwardedPackets' = ForwardedPackets
         /\ session' = session /\ retry' = retry
         /\ UNCHANGED <<client, shown, server, arrived>> /\ client.open
<1>1. client.open /\ UNCHANGED <<client, shown>> /\ HandleClientData(<<ClientAck>>)
      /\ shown # <<>>
  BY DEF ClientAcks, clientVars
<1>2. /\ session' = session /\ retry' = retry /\ UNCHANGED <<server, arrived>>
      /\ CurrentSession = session
  BY <1>1 DEF HandleClientData, StreamInv, CurrentSession, CurrentRetry, Lapsed
<1>3. ForwardClientData(<<ClientAck>>)
  BY <1>1 DEF HandleClientData, DropLogin, StartAuth, NeedsSso
<1>4. toServer' = toServer \cup SubsOf(SyncRewrite(Adjust(session, <<ClientAck>>)))
  BY <1>2, <1>3 DEF ForwardClientData, SendToLoginServer
<1>5. <<ClientAck>> \in Datagrams /\ session \in Sessions
  BY <1>1, ClientAckType DEF Datagrams, TypeOK
<1>6. \A m \in SubsOf(SyncRewrite(Adjust(session, <<ClientAck>>))) : m.op = "Ack"
  <2>1. Adjust(session, <<ClientAck>>) \in Datagrams
        /\ DOMAIN Adjust(session, <<ClientAck>>) = {1}
    BY <1>5, AdjustType DEF Adjust
  <2>2. 1 \in DOMAIN <<ClientAck>> /\ <<ClientAck>>[1].op = "Ack"
    BY DEF ClientAck, Ack
  <2>3. Adjust(session, <<ClientAck>>)[1].op = "Ack"
    BY <1>5, <2>2, AdjustedSubs
  <2>4. /\ SyncRewrite(Adjust(session, <<ClientAck>>))[1].op = "Ack"
        /\ DOMAIN SyncRewrite(Adjust(session, <<ClientAck>>)) = {1}
    BY <2>1, <2>3, RewrittenSubs
  <2>5. QED
    BY <2>4 DEF SubsOf
<1>7. ForwardedPackets' = ForwardedPackets
  BY <1>4, <1>6 DEF ForwardedPackets
<1>8. QED
  BY <1>1, <1>2, <1>7

LEMMA ServerDataAnswered ==
  ASSUME TypeOK, RetryInv, AckInv, SsoAnswered, client.open,
         NEW d \in SentDatagrams, HandleServerData(d)
  PROVE  SsoAnswered'
<1>1. d \in Seq(ServerSubs) /\ d # <<>> /\ UNCHANGED server
  BY DEF SentDatagrams, HandleServerData
<1>2. CASE PassOn(d)
  <2>1. toServer' = toServer /\ (retry'.armed => retry.armed)
    BY <1>1, <1>2, PassOnEffect
  <2>2. QED
    BY <1>1, <2>1, QuietAnswered DEF ForwardedPackets
<1>3. CASE Intercepts(d) /\ SuppressRejection(d)
  <2>1. ~retry'.armed
    BY <1>1, <1>3, SuppressEffect
  <2>2. QED
    BY <2>1 DEF SsoAnswered
<1>4. QED
  BY <1>2, <1>3 DEF HandleServerData

LEMMA AnsweredStep ==
  ASSUME ~Impatient, ~ClientRetransmits, ~RepeatedResponses,
         TypeOK, RetryInv, StreamInv, AckInv, NumbersInv, SsoAnswered, [Next]_vars
  PROVE  SsoAnswered'
<1>1. CASE ClientIssues
  <2>1. client.open /\ ~retry.armed
    BY <1>1, IssueUnarmed DEF ClientIssues
  <2>2. PICK d \in ClientDatagrams(client.next) : HandleClientData(d)
    BY <1>1 DEF ClientIssues
  <2>3. retry' = retry
    BY <2>1, <2>2 DEF HandleClientData, StreamInv, CurrentRetry, Lapsed
  <2>4. QED
    BY <2>1, <2>3 DEF SsoAnswered
<1>2. CASE ClientRepeats
  BY <1>2 DEF ClientRepeats
<1>3. CASE ClientAcks
  BY <1>3, AcksForwardNoPacket, QuietAnswered
<1>4. CASE ClientKeepsAlive
  <2>1. client.open /\ UNCHANGED <<client, server, toServer>> /\ retry' = retry
    BY <1>4 DEF ClientKeepsAlive, clientVars, serverVars, StreamInv, CurrentRetry, Lapsed
  <2>2. QED
    BY <2>1, QuietAnswered DEF ForwardedPackets
<1>5. CASE ClientConnects
  BY <1>5 DEF ClientConnects, SsoAnswered
<1>6. CASE ClientDisconnects
  <2>1. ~client'.open
    BY <1>6 DEF ClientDisconnects, TypeOK
  <2>2. QED
    BY <2>1 DEF SsoAnswered
<1>7. CASE ClientIdles
  BY <1>7, QuietAnswered DEF ClientIdles, clientVars, serverVars, ForwardedPackets
<1>8. CASE AuthEnds
  BY <1>8, AuthAnswered
<1>9. ASSUME NEW i \in DOMAIN server.stream, ServerSendsPacket(i)
      PROVE  SsoAnswered'
  BY <1>9, ServerSendsPacketSent, ServerDataAnswered DEF AckInv, Apart
<1>10. ASSUME NEW i \in DOMAIN server.stream, ServerSendsFragment(i)
       PROVE  SsoAnswered'
  <2>1. UNCHANGED <<retry, client, server, toServer>>
    BY <1>10 DEF ServerSendsFragment, HandleFragment
  <2>2. QED
    BY <2>1, QuietAnswered DEF ForwardedPackets
<1>11. CASE ServerSendsAck
  BY <1>11, ServerSendsAckSent, ServerDataAnswered DEF AckInv, Apart
<1>12. CASE ServerResponds
  BY <1>12 DEF ServerResponds, NoRetry, SsoAnswered
<1>13. CASE ServerReceives
  BY <1>13, ReceivesAnswered
<1>14. CASE UNCHANGED vars
  BY <1>14 DEF vars, proxyVars, clientVars, serverVars, SsoAnswered, ForwardedPackets
<1>15. QED
  BY <1>1, <1>2, <1>3, <1>4, <1>5, <1>6, <1>7, <1>8, <1>9, <1>10, <1>11, <1>12,
     <1>13, <1>14
  DEF Next, ClientStep, ServerSends

----------------------------------------------------------------------------
(* What a datagram adds to what is shown *)

ItemsOf(packets) == [i \in DOMAIN packets |-> packets[i].item]

LEMMA ItemsAppend ==
  ASSUME NEW s \in Seq(ShownPackets), NEW p \in ShownPackets
  PROVE  /\ ItemsOf(s) \in Seq(ServerItems \cup {"List"})
         /\ ItemsOf(Append(s, p)) = ItemsOf(s) \o <<p.item>>
<1>1. PICK n \in Nat : Len(s) = n /\ DOMAIN s = 1 .. n /\ \A i \in 1 .. n : s[i] \in ShownPackets
  OBVIOUS
<1>2. PICK all : all = Append(s, p)
  OBVIOUS
<1>3. DOMAIN all = 1 .. (n + 1) /\ all[n + 1] = p /\ \A i \in 1 .. n : all[i] = s[i]
  BY <1>1, <1>2
<1>4. PICK items : items = ItemsOf(s)
  OBVIOUS
<1>5. /\ items \in Seq(ServerItems \cup {"List"}) /\ Len(items) = n
      /\ \A i \in 1 .. n : items[i] = s[i].item
  BY <1>1, <1>4 DEF ItemsOf, ShownPackets
<1>6. PICK whole : whole = items \o <<p.item>>
  OBVIOUS
<1>7. /\ whole = [i \in 1 .. (n + 1) |-> IF i <= n THEN items[i] ELSE p.item]
  BY <1>5, <1>6 DEF ShownPackets
<1>8. ItemsOf(all) = [i \in 1 .. (n + 1) |-> IF i <= n THEN items[i] ELSE p.item]
  <2>1. ItemsOf(all) = [i \in 1 .. (n + 1) |-> all[i].item]
    BY <1>3 DEF ItemsOf
  <2>2. \A i \in 1 .. (n + 1) : all[i].item = IF i <= n THEN items[i] ELSE p.item
    <3> SUFFICES ASSUME NEW i \in 1 .. (n + 1)
                 PROVE  all[i].item = IF i <= n THEN items[i] ELSE p.item
      OBVIOUS
    <3>1. i \in 1 .. n \/ i = n + 1
      OBVIOUS
    <3>2. QED
      BY <1>3, <1>5, <3>1
  <2>3. QED
    BY <2>1, <2>2
<1>9. QED
  BY <1>2, <1>4, <1>5, <1>6, <1>7, <1>8

LEMMA SeenPlain ==
  ASSUME NEW item, item \notin FragmentItems, item # "SsoRejected"
  PROVE  Relay!Seen(item) = <<item>>
  BY DEF Relay!Seen, Relay!Withheld, FragmentItems

LEMMA RelayedShown ==
  ASSUME NEW st \in RelayStates, NEW sub \in ServerSubs
  PROVE  /\ sub.op = "Ack" => Relayed(st, sub).shown = st.shown
         /\ sub.op = "Packet" =>
              ItemsOf(Relayed(st, sub).shown) = ItemsOf(st.shown) \o <<sub.item>>
<1>1. st.shown \in Seq(ShownPackets)
  BY DEF RelayStates
<1>2. QED
  BY <1>1, RelayedParts, ItemsAppend

(* One item more for each packet of the datagram. *)
LEMMA TurnItems ==
  ASSUME TypeOK, NEW k \in 0 .. 2, NEW d \in SentDatagrams, InTurn(d, k), NEW s \in Nat,
         s = session.seqFromServer, NEW items, items = ItemsOf(RelayedAll(Unrelayed, d).shown)
  PROVE  /\ k = 0 => items = ItemsShown
         /\ k = 1 => items = ItemsShown \o <<server.stream[s + 1]>>
         /\ k = 2 => items = (ItemsShown \o <<server.stream[s + 1]>>)
                               \o <<server.stream[s + 2]>>
<1>0. PICK none, one, two :
        /\ none = ItemsShown /\ one = ItemsShown \o <<server.stream[s + 1]>>
        /\ two = (ItemsShown \o <<server.stream[s + 1]>>) \o <<server.stream[s + 2]>>
  OBVIOUS
<1> SUFFICES (k = 0 => items = none) /\ (k = 1 => items = one) /\ (k = 2 => items = two)
  BY <1>0
<1>1. Unrelayed \in RelayStates /\ ItemsOf(Unrelayed.shown) = ItemsShown
  BY UnrelayedType DEF Unrelayed, ItemsOf, ItemsShown
<1>2. PICK m \in Nat : Len(server.stream) = m /\ DOMAIN server.stream = 1 .. m
  BY StreamDomain
<1>3. \A p \in 1 .. m : /\ ServerPacket(p) \in ServerSubs /\ ServerPacket(p).op = "Packet"
                        /\ ServerPacket(p).item = server.stream[p]
  BY <1>2, ServerDatagramType DEF ServerPacket
<1>4. \A a \in ServerAcks : a \in ServerSubs /\ a.op = "Ack"
  BY ServerAckType DEF ServerAcks, ServerAck
<1>5. ASSUME NEW a \in ServerAcks, k = 0, d = <<a>>
      PROVE  items = none
  <2>1. RelayedAll(Unrelayed, d) = Relayed(Unrelayed, a)
    BY <1>5 DEF RelayedAll
  <2>2. QED
    BY <1>0, <1>1, <1>4, <2>1, RelayedShown
<1>6. ASSUME k = 1, d = <<ServerPacket(s + 1)>>
      PROVE  items = one
  <2>1. RelayedAll(Unrelayed, d) = Relayed(Unrelayed, ServerPacket(s + 1))
    BY <1>6 DEF RelayedAll
  <2>2. s + 1 \in 1 .. m
    BY <1>2, <1>6 DEF InTurn
  <2>3. QED
    BY <1>0, <1>1, <1>3, <2>1, <2>2, RelayedShown
<1>7. ASSUME NEW a \in ServerAcks, k = 1, d = <<a, ServerPacket(s + 1)>>
      PROVE  items = one
  <2>1. RelayedAll(Unrelayed, d) = Relayed(Relayed(Unrelayed, a), ServerPacket(s + 1))
    BY <1>7 DEF RelayedAll
  <2>2. s + 1 \in 1 .. m
    BY <1>2, <1>7 DEF InTurn
  <2>3. /\ Relayed(Unrelayed, a) \in RelayStates
        /\ Relayed(Unrelayed, a).shown = Unrelayed.shown
    BY <1>1, <1>4, RelayedType, RelayedShown
  <2>4. QED
    BY <1>0, <1>1, <1>3, <2>1, <2>2, <2>3, RelayedShown
<1>8. ASSUME k = 2, d = <<ServerPacket(s + 1), ServerPacket(s + 1 + 1)>>
      PROVE  items = two
  <2>1. PICK p, q : p = ServerPacket(s + 1) /\ q = ServerPacket(s + 1 + 1)
    OBVIOUS
  <2>2. RelayedAll(Unrelayed, d) = Relayed(Relayed(Unrelayed, p), q)
    BY <1>8, <2>1 DEF RelayedAll
  <2>3. s + 1 \in 1 .. m /\ s + 1 + 1 \in 1 .. m /\ s + 1 + 1 = s + 2
    BY <1>2, <1>8 DEF InTurn
  <2>4. /\ p \in ServerSubs /\ p.op = "Packet" /\ p.item = server.stream[s + 1]
        /\ q \in ServerSubs /\ q.op = "Packet" /\ q.item = server.stream[s + 2]
    BY <1>3, <2>1, <2>3
  <2>5. PICK st \in RelayStates : st = Relayed(Unrelayed, p)
    BY <1>1, <2>4, RelayedType
  <2>6. ItemsOf(st.shown) = ItemsShown \o <<server.stream[s + 1]>>
    BY <1>1, <2>4, <2>5, RelayedShown
  <2>7. ItemsOf(Relayed(st, q).shown) = ItemsOf(st.shown) \o <<server.stream[s + 2]>>
    BY <2>4, RelayedShown
  <2>8. QED
    BY <1>0, <2>2, <2>5, <2>6, <2>7
<1>9. \/ k = 0 /\ \E a \in ServerAcks : d = <<a>>
      \/ k = 1 /\ d = <<ServerPacket(s + 1)>>
      \/ k = 1 /\ \E a \in ServerAcks : d = <<a, ServerPacket(s + 1)>>
      \/ k = 2 /\ d = <<ServerPacket(s + 1), ServerPacket(s + 1 + 1)>>
  BY DEF InTurn
<1>10. CASE k = 0 /\ \E a \in ServerAcks : d = <<a>>
  BY <1>5, <1>10
<1>11. CASE k = 1 /\ \E a \in ServerAcks : d = <<a, ServerPacket(s + 1)>>
  BY <1>7, <1>11
<1>12. CASE k = 1 /\ d = <<ServerPacket(s + 1)>>
  BY <1>6, <1>12
<1>13. CASE k = 2 /\ d = <<ServerPacket(s + 1), ServerPacket(s + 1 + 1)>>
  BY <1>8, <1>13
<1>14. QED
  BY <1>9, <1>10, <1>11, <1>12, <1>13

(* What precedes the intercepted answer in its datagram. *)
LEMMA RestItems ==
  ASSUME TypeOK, NumbersInv, client.open, NEW k \in 0 .. 2, NEW d \in SentDatagrams,
         InTurn(d, k), Intercepts(d), NEW s \in Nat, s = session.seqFromServer,
         NEW items, items = ItemsOf(Rest(d).shown)
  PROVE  \/ k = 1 /\ s = 1 /\ items = ItemsShown
         \/ k = 2 /\ s = 0 /\ items = ItemsShown \o <<"Hello">> /\ server.stream[1] = "Hello"
<1>0. PICK none, one : none = ItemsShown /\ one = ItemsShown \o <<"Hello">>
  OBVIOUS
<1>1. Unrelayed \in RelayStates /\ ItemsOf(Unrelayed.shown) = ItemsShown
  BY UnrelayedType DEF Unrelayed, ItemsOf, ItemsShown
<1>2. /\ Len(server.stream) = 2 /\ s + k = 2 /\ d[AnswerIn(d)].item = server.stream[2]
      /\ \A j \in DOMAIN d : j # AnswerIn(d) => d[j].item \notin LoginAnswers
  BY TurnAnswer
<1>3. DOMAIN server.stream = 1 .. 2
  BY <1>2 DEF TypeOK
<1>4. server.stream[1] = "Hello" /\ server.stream[2] \in LoginAnswers
  BY <1>3 DEF NumbersInv, Answered
<1>5. AnswerIn(d) \in DOMAIN d /\ d[AnswerIn(d)].item \in LoginAnswers
  BY <1>2, <1>4, AnswerIsSent
<1>6. \A p \in 1 .. 2 : /\ ServerPacket(p) \in ServerSubs /\ ServerPacket(p).op = "Packet"
                        /\ ServerPacket(p).item = server.stream[p]
  BY <1>3, ServerDatagramType DEF ServerPacket
<1>7. \A a \in ServerAcks : /\ a \in ServerSubs /\ a.op = "Ack"
                            /\ a.item \notin LoginAnswers
  BY ServerAckType DEF ServerAcks, ServerAck, LoginAnswers, Rejections
<1>8. ASSUME k = 0 PROVE FALSE
  <2>1. PICK a \in ServerAcks : d = <<a>>
    BY <1>8 DEF InTurn
  <2>2. AnswerIn(d) = 1
    BY <1>5, <2>1
  <2>3. QED
    BY <1>5, <1>7, <2>1, <2>2
<1>9. ASSUME k = 1, d = <<ServerPacket(2)>>
      PROVE  items = none
  <2>1. WithoutAnswer(d) = <<>>
    BY <1>9 DEF WithoutAnswer
  <2>2. Rest(d) = Unrelayed
    BY <2>1 DEF Rest, RelayedAll
  <2>3. QED
    BY <1>0, <1>1, <2>2
<1>10. ASSUME NEW a \in ServerAcks, k = 1, d = <<a, ServerPacket(2)>>
       PROVE  items = none
  <2>1. AnswerIn(d) = 2
    <3>1. d[1].item \notin LoginAnswers
      BY <1>7, <1>10
    <3>2. DOMAIN d = {1, 2}
      BY <1>10
    <3>3. QED
      BY <1>5, <3>1, <3>2
  <2>2. WithoutAnswer(d) = <<a>>
    BY <1>10, <2>1 DEF WithoutAnswer
  <2>3. Rest(d) = Relayed(Unrelayed, a)
    BY <2>2 DEF Rest, RelayedAll
  <2>4. QED
    BY <1>0, <1>1, <1>7, <2>3, RelayedShown
<1>11. ASSUME k = 2, d = <<ServerPacket(1), ServerPacket(1 + 1)>>
       PROVE  items = one
  <2>1. PICK p, q : p = ServerPacket(1) /\ q = ServerPacket(1 + 1)
    OBVIOUS
  <2>2. p \in ServerSubs /\ p.op = "Packet" /\ p.item = "Hello"
    BY <1>4, <1>6, <2>1
  <2>3. AnswerIn(d) = 2
    <3>1. d[1].item \notin LoginAnswers
      BY <1>11, <2>1, <2>2 DEF LoginAnswers, Rejections
    <3>2. DOMAIN d = {1, 2}
      BY <1>11
    <3>3. QED
      BY <1>5, <3>1, <3>2
  <2>4. WithoutAnswer(d) = <<p>>
    BY <1>11, <2>1, <2>3 DEF WithoutAnswer
  <2>5. Rest(d) = Relayed(Unrelayed, p)
    BY <2>4 DEF Rest, RelayedAll
  <2>6. QED
    BY <1>0, <1>1, <2>2, <2>5, RelayedShown
<1>12. \/ k = 1 /\ s = 1
       \/ k = 2 /\ s = 0
  BY <1>2, <1>8
<1>13. \/ k = 1 /\ d = <<ServerPacket(s + 1)>>
       \/ k = 1 /\ \E a \in ServerAcks : d = <<a, ServerPacket(s + 1)>>
       \/ k = 2 /\ d = <<ServerPacket(s + 1), ServerPacket(s + 1 + 1)>>
  BY <1>8 DEF InTurn
<1>14. CASE k = 1 /\ s = 1
  BY <1>0, <1>9, <1>10, <1>13, <1>14
<1>15. CASE k = 2 /\ s = 0
  BY <1>0, <1>4, <1>11, <1>13, <1>15
<1>16. QED
  BY <1>12, <1>14, <1>15

LEMMA TurnSeen ==
  ASSUME TypeOK, NumbersInv, WithheldInv, client.open,
         NEW k \in 0 .. 2, NEW d \in SentDatagrams, InTurn(d, k), Unfragmented(k),
         HandleServerData(d), PassOn(d),
         NEW p \in (session.seqFromServer + 1) .. (session.seqFromServer + k)
  PROVE  Relay!Seen(server.stream[p]) = <<server.stream[p]>>
<1>1. PICK s \in Nat : s = session.seqFromServer
  BY DEF TypeOK, Sessions
<1>2. PICK j \in {1, 2} : j \in DOMAIN d /\ d[j] = ServerPacket(p)
  BY <1>1, TurnPackets
<1>3. d[j].item = server.stream[p]
  BY <1>2 DEF ServerPacket
<1>4. ASSUME server.stream[p] = "SsoRejected" PROVE FALSE
  <2>1. Intercepts(d) /\ d[AnswerIn(d)].item = "SsoRejected"
    BY <1>2, <1>3, <1>4, RejectionIntercepted
  <2>2. SuppressRejection(d)
    BY <2>1 DEF HandleServerData
  <2>3. retry'.fired /\ ~retry.fired
    <3>1. retry.armed /\ ~retry.fired
      BY <2>1 DEF Intercepts
    <3>2. retry.original # <<>>
      BY <3>1 DEF NumbersInv, RetryPhase, Replayable
    <3>3. retry' = [retry EXCEPT !.armed = FALSE, !.fired = TRUE]
      BY <2>2, <3>2 DEF SuppressRejection, FireSsoRetry
    <3>4. QED
      BY <3>1, <3>3 DEF TypeOK
  <2>4. retry'.fired = retry.fired
    BY PassOnEffect DEF SentDatagrams
  <2>5. QED
    BY <2>3, <2>4
<1>5. server.stream[p] \notin FragmentItems
  BY DEF Unfragmented
<1>6. QED
  BY <1>4, <1>5, SeenPlain

(* A datagram whose turn it is adds what the relay promises of its packets:  *)
(* the one answer that is withheld is the rejection of the SSO's password.   *)
LEMMA TurnShown ==
  ASSUME TypeOK, RetryInv, NumbersInv, WithheldInv, SsoAnswered, client.open,
         NEW k \in 0 .. 2, NEW d \in SentDatagrams, InTurn(d, k), Unfragmented(k),
         HandleServerData(d), NEW s \in Nat, s = session.seqFromServer
  PROVE  /\ k = 0 => ItemsShown' = ItemsShown
         /\ k = 1 => ItemsShown' = ItemsShown \o Relay!Seen(server.stream[s + 1])
         /\ k = 2 => ItemsShown' = (ItemsShown \o Relay!Seen(server.stream[s + 1]))
                                     \o Relay!Seen(server.stream[s + 2])
<1>0. ItemsShown' = ItemsOf(shown')
  BY DEF ItemsShown, ItemsOf
<1>1. d \in Seq(ServerSubs) /\ d # <<>>
  BY DEF SentDatagrams
<1>2. CASE PassOn(d)
  <2>1. shown' = RelayedAll(Unrelayed, d).shown
    BY <1>1, <1>2, PassOnEffect
  <2>2. PICK items : items = ItemsOf(RelayedAll(Unrelayed, d).shown)
    OBVIOUS
  <2>3. ItemsShown' = items
    BY <1>0, <2>1, <2>2
  <2>4. /\ k = 0 => items = ItemsShown
        /\ k = 1 => items = ItemsShown \o <<server.stream[s + 1]>>
        /\ k = 2 => items = (ItemsShown \o <<server.stream[s + 1]>>)
                              \o <<server.stream[s + 2]>>
    BY <2>2, TurnItems, SMTT(60)
  <2>5. k = 1 \/ k = 2 => Relay!Seen(server.stream[s + 1]) = <<server.stream[s + 1]>>
    BY <1>2, TurnSeen
  <2>6. k = 2 => Relay!Seen(server.stream[s + 2]) = <<server.stream[s + 2]>>
    BY <1>2, TurnSeen
  <2>7. QED
    BY <2>3, <2>4, <2>5, <2>6
<1>3. CASE Intercepts(d) /\ d[AnswerIn(d)].item \in Rejections /\ SuppressRejection(d)
  <2>1. shown' = Rest(d).shown
    BY <1>1, <1>3, SuppressEffect
  <2>2. PICK items : items = ItemsOf(Rest(d).shown)
    OBVIOUS
  <2>3. ItemsShown' = items
    BY <1>0, <2>1, <2>2
  <2>4. \/ k = 1 /\ s = 1 /\ items = ItemsShown
        \/ k = 2 /\ s = 0 /\ items = ItemsShown \o <<"Hello">> /\ server.stream[1] = "Hello"
    BY <1>3, <2>2, RestItems
  <2>5. server.stream[2] = "SsoRejected"
    <3>1. server.stream[2] \in Rejections /\ 2 \in DOMAIN server.stream
      <4>1. Len(server.stream) = 2 /\ d[AnswerIn(d)].item = server.stream[2]
        BY <1>3, TurnAnswer
      <4>2. QED
        BY <1>3, <4>1 DEF TypeOK
    <3>2. server.stream[2] # "Rejected"
      BY <1>3, <3>1 DEF SsoAnswered, Intercepts
    <3>3. QED
      BY <3>1, <3>2 DEF Rejections
  <2>6. Relay!Seen("SsoRejected") = <<>> /\ Relay!Seen("Hello") = <<"Hello">>
    BY SeenPlain DEF Relay!Seen, Relay!Withheld, FragmentItems
  <2>7. PICK before, more : before = ItemsShown /\ more = ItemsShown \o <<"Hello">>
    OBVIOUS
  <2>8. before \o <<>> = before /\ more \o <<>> = more
    <3>1. before \in Seq(ServerItems \cup {"List"})
      <4>1. ItemsShown = ItemsOf(shown) /\ shown \in Seq(ShownPackets)
        BY DEF ItemsShown, ItemsOf, TypeOK, ShownPackets
      <4>2. [seq |-> 0, item |-> "Hello"] \in ShownPackets
        BY DEF ShownPackets, ServerItems
      <4>3. QED
        BY <2>7, <4>1, <4>2, ItemsAppend
    <3>2. more \in Seq(ServerItems \cup {"List"})
      BY <2>7, <3>1 DEF ServerItems
    <3>3. QED
      BY <3>1, <3>2
  <2>9. ASSUME k = 1
        PROVE  ItemsShown' = ItemsShown \o Relay!Seen(server.stream[s + 1])
    <3>1. s + 1 = 2 /\ items = before
      BY <2>4, <2>7, <2>9
    <3>2. Relay!Seen(server.stream[s + 1]) = <<>>
      BY <2>5, <2>6, <3>1
    <3>3. QED
      BY <2>3, <2>7, <2>8, <3>1, <3>2
  <2>10. ASSUME k = 2
         PROVE  ItemsShown' = (ItemsShown \o Relay!Seen(server.stream[s + 1]))
                                \o Relay!Seen(server.stream[s + 2])
    <3>1. s + 1 = 1 /\ s + 2 = 2 /\ items = more /\ server.stream[1] = "Hello"
      BY <2>4, <2>7, <2>10
    <3>2. /\ Relay!Seen(server.stream[s + 1]) = <<"Hello">>
          /\ Relay!Seen(server.stream[s + 2]) = <<>>
      BY <2>5, <2>6, <3>1
    <3>3. QED
      BY <2>3, <2>7, <2>8, <3>1, <3>2
  <2>11. QED
    BY <2>4, <2>9, <2>10
<1>4. QED
  BY <1>2, <1>3 DEF HandleServerData

----------------------------------------------------------------------------
(* The fragments of a list, one after another *)

Parts == 1 .. NFrags

ItemsAt(k) ==
  IF k = 1 THEN {"Head"} ELSE IF k < NFrags THEN {"Body"} ELSE {"Tail", "Stub"}

(* A list starts at this place of the stream. *)
ListAt(stream, b) ==
  \A k \in Parts : b + k - 1 \in DOMAIN stream /\ stream[b + k - 1] \in ItemsAt(k)

(* Fragments are only in lists, and lists are whole. *)
Shaped(stream) ==
  \A i \in DOMAIN stream :
    stream[i] \in FragmentItems => \E b \in 1 .. i : i < b + NFrags /\ ListAt(stream, b)

(* The fragment at this place is not the last of its list. *)
Midway(stream, i) == i \in DOMAIN stream /\ stream[i] \in {"Head", "Body"}

Held(frags, j) == \E g \in frags : g.seq = j

(* The assembler holds the fragments from place b to place i. *)
Gathered(asm, b, i) ==
  /\ asm.active /\ asm.first = b - 1 /\ asm.total = NFrags
  /\ \A j \in Nat : Held(asm.frags, j) <=> j \in (b - 1) .. (i - 1)

Assembly(stream, s) ==
  IF Midway(stream, s.seqFromServer)
    THEN \E b \in 1 .. s.seqFromServer :
           /\ s.seqFromServer - b + 1 < NFrags
           /\ ListAt(stream, b)
           /\ Gathered(s.asm, b, s.seqFromServer) /\ s.pendingList
    ELSE s.asm = Idle

(* In turn and once each, the fragments of a list complete it with the last. *)
FragInv == client.open => Shaped(server.stream) /\ Assembly(server.stream, session)

LEMMA RecvParts ==
  ASSUME NEW s \in Sessions, NEW f \in Fragments, ~HeaderUnreadable(s, f)
  PROVE  /\ Completes(s, f) => RecvFragment(s, f).asm = Idle
         /\ ~Completes(s, f) => /\ RecvFragment(s, f).asm = Add(s.asm, f)
                                /\ RecvFragment(s, f).pendingList = PendingList(s, f)
<1>1. Idle \in Assemblers /\ Add(s.asm, f) \in Assemblers /\ PendingList(s, f) \in BOOLEAN
  BY AddType DEF Sessions, Idle, Assemblers, PendingList, Fragments
<1>2. \A from, to, asm, pending :
        /\ [s EXCEPT !.seqFromServer = from, !.asm = asm, !.pendingList = pending,
                     !.seqToClient = to].asm = asm
        /\ [s EXCEPT !.seqFromServer = from, !.asm = asm, !.pendingList = pending].asm = asm
        /\ [s EXCEPT !.seqFromServer = from, !.asm = asm,
                     !.pendingList = pending].pendingList = pending
  BY DEF Sessions
<1>3. CASE Completes(s, f)
  <2>1. \E to : RecvFragment(s, f) =
                  [s EXCEPT !.seqFromServer = (f.seq + 1) % SeqMod, !.asm = Idle,
                            !.pendingList = FALSE, !.seqToClient = to]
    BY <1>3, Zenon DEF RecvFragment
  <2>2. QED
    BY <1>2, <1>3, <2>1
<1>4. CASE ~Completes(s, f)
  <2>1. RecvFragment(s, f) =
          [s EXCEPT !.seqFromServer = (f.seq + 1) % SeqMod, !.asm = Add(s.asm, f),
                    !.pendingList = PendingList(s, f)]
    BY <1>4, Zenon DEF RecvFragment
  <2>2. QED
    BY <1>2, <1>4, <2>1
<1>5. QED
  BY <1>3, <1>4

LEMMA StoredSeqs ==
  ASSUME NEW frags, NEW f, NEW first, NEW j
  PROVE  Held(Store(frags, f, first), j) <=> Held(frags, j) \/ j = f.seq
<1>1. StoredAs(f, first).seq = f.seq
  BY DEF StoredAs
<1>2. QED
  BY <1>1 DEF Store, Held

LEMMA SmallRemainder ==
  ASSUME NEW n \in Nat, n < SeqMod
  PROVE  n % SeqMod = n
  BY SeqModAssumption

(* The head opens the list. *)
LEMMA OpensList ==
  ASSUME NEW s \in Sessions, s.asm = Idle, NEW f \in Fragments, NEW i \in Nat, i > 0,
         i < SeqMod, f.seq = i - 1, f.head, ~f.short, f.total = NFrags
  PROVE  /\ ~Completes(s, f)
         /\ Gathered(RecvFragment(s, f).asm, i, i) /\ RecvFragment(s, f).pendingList
<1>1. ~s.asm.active /\ ~HeaderUnreadable(s, f)
  BY DEF Idle, HeaderUnreadable
<1>2. Add(s.asm, f) = [active |-> TRUE, first |-> f.seq, total |-> f.total,
                       frags |-> Store({}, f, TRUE)]
  BY <1>1 DEF Add
<1>3. PICK a : a = Add(s.asm, f)
  OBVIOUS
<1>4. /\ a.active /\ a.first = i - 1 /\ a.total = NFrags
      /\ \A j \in Nat : Held(a.frags, j) <=> j = i - 1
  <2>1. PICK first : first = TRUE
    OBVIOUS
  <2>2. a.active /\ a.first = i - 1 /\ a.total = NFrags /\ a.frags = Store({}, f, first)
    BY <1>2, <1>3, <2>1
  <2>3. \A j \in Nat : Held(Store({}, f, first), j) <=> Held({}, j) \/ j = f.seq
    BY StoredSeqs
  <2>4. \A j \in Nat : ~Held({}, j)
    BY DEF Held
  <2>5. QED
    BY <2>2, <2>3, <2>4
<1>5. ~Complete(a)
  <2>1. 1 \in 0 .. (NFrags - 1)
    BY ProxyAssumption
  <2>2. Slot(a, 1) = i
    <3>1. (i - 1) + 1 = i
      OBVIOUS
    <3>2. i % SeqMod = i
      BY SmallRemainder
    <3>3. QED
      BY <1>4, <3>1, <3>2 DEF Slot
  <2>3. QED
    BY <1>4, <2>1, <2>2 DEF Complete, Held
<1>6. ~Completes(s, f)
  BY <1>3, <1>5 DEF Completes
<1>7. RecvFragment(s, f).asm = a /\ RecvFragment(s, f).pendingList
  BY <1>1, <1>3, <1>6, RecvParts DEF PendingList
<1>8. Gathered(a, i, i)
  <2>1. \A j \in Nat : j = i - 1 <=> j \in (i - 1) .. (i - 1)
    OBVIOUS
  <2>2. QED
    BY <1>4, <2>1 DEF Gathered
<1>9. QED
  BY <1>6, <1>7, <1>8

(* The others join it, and the last completes it. *)
LEMMA ContinuesList ==
  ASSUME NFrags <= SeqMod \div 2,
         NEW s \in Sessions, NEW f \in Fragments, NEW b \in Nat, NEW i \in Nat,
         b > 0, b < i, i < b + NFrags, b + NFrags - 1 < SeqMod,
         Gathered(s.asm, b, i - 1), s.pendingList, f.seq = i - 1
  PROVE  /\ i < b + NFrags - 1 => /\ ~Completes(s, f)
                                  /\ Gathered(RecvFragment(s, f).asm, b, i)
                                  /\ RecvFragment(s, f).pendingList
         /\ i = b + NFrags - 1 => CompletesList(s, f) /\ RecvFragment(s, f).asm = Idle
<1>0. PICK m \in Nat, n \in Nat, half \in Nat :
        m = SeqMod /\ n = NFrags /\ half = SeqMod \div 2 /\ half <= m /\ n <= half /\ n > 1
  BY SeqModAssumption, ProxyAssumption
<1>1. s.asm.active /\ s.asm.first = b - 1 /\ s.asm.total = n
  BY <1>0 DEF Gathered
<1>2. ~HeaderUnreadable(s, f) /\ PendingList(s, f)
  BY <1>1 DEF HeaderUnreadable, PendingList
<1>3. ~StartsNewSequence(s.asm, f)
  <2>1. (i - 1) - (b - 1) = i - b /\ i - b \in Nat /\ i - b < m
    BY <1>0
  <2>2. Distance(s.asm.first, f.seq) = i - b
    BY <1>0, <1>1, <2>1, SmallRemainder DEF Distance
  <2>3. i - b <= half - 1
    BY <1>0
  <2>4. QED
    BY <1>0, <2>2, <2>3 DEF StartsNewSequence
<1>4. f.seq # s.asm.first
  BY <1>1
<1>5. Add(s.asm, f) = [s.asm EXCEPT !.frags = Store(s.asm.frags, f, FALSE)]
  BY <1>1, <1>3, <1>4 DEF Add
<1>6. Stores(s.asm, f)
  BY <1>1, <1>3, <1>4 DEF Stores
<1>7. PICK a : a = Add(s.asm, f)
  OBVIOUS
<1>8. a.active /\ a.first = b - 1 /\ a.total = n /\ a.frags = Store(s.asm.frags, f, FALSE)
  BY <1>1, <1>5, <1>7 DEF Sessions, Assemblers
<1>9. \A j \in Nat : Held(a.frags, j) <=> j \in (b - 1) .. (i - 1)
  <2> SUFFICES ASSUME NEW j \in Nat
               PROVE  Held(a.frags, j) <=> j \in (b - 1) .. (i - 1)
    OBVIOUS
  <2>1. Held(a.frags, j) <=> Held(s.asm.frags, j) \/ j = f.seq
    <3>1. PICK first : first = FALSE
      OBVIOUS
    <3>2. a.frags = Store(s.asm.frags, f, first)
      BY <1>8, <3>1
    <3>3. Held(Store(s.asm.frags, f, first), j) <=> Held(s.asm.frags, j) \/ j = f.seq
      BY StoredSeqs
    <3>4. QED
      BY <3>2, <3>3
  <2>2. Held(s.asm.frags, j) <=> j \in (b - 1) .. ((i - 1) - 1)
    BY DEF Gathered
  <2>3. j \in (b - 1) .. ((i - 1) - 1) \/ j = f.seq <=> j \in (b - 1) .. (i - 1)
    OBVIOUS
  <2>4. QED
    BY <2>1, <2>2, <2>3, Zenon
<1>10. Gathered(a, b, i)
  BY <1>0, <1>8, <1>9 DEF Gathered
<1>11. \A j \in 0 .. (n - 1) : Slot(a, j) = b - 1 + j
  <2> SUFFICES ASSUME NEW j \in 0 .. (n - 1) PROVE Slot(a, j) = b - 1 + j
    OBVIOUS
  <2>1. b - 1 + j \in Nat /\ b - 1 + j < m
    BY <1>0
  <2>2. QED
    BY <1>0, <1>8, <2>1, SmallRemainder DEF Slot
<1>12. Complete(a) <=> i = b + n - 1
  <2>1. ASSUME Complete(a) PROVE i = b + n - 1
    <3>1. n - 1 \in 0 .. (n - 1) /\ b - 1 + (n - 1) \in Nat
      BY <1>0
    <3>2. Held(a.frags, b - 1 + (n - 1))
      BY <1>8, <1>11, <2>1, <3>1 DEF Complete, Held
    <3>3. b - 1 + (n - 1) \in (b - 1) .. (i - 1)
      BY <1>9, <3>1, <3>2
    <3>4. QED
      BY <1>0, <3>3
  <2>2. ASSUME i = b + n - 1 PROVE Complete(a)
    <3> SUFFICES ASSUME NEW j \in 0 .. (n - 1) PROVE Held(a.frags, Slot(a, j))
      BY <1>8 DEF Complete, Held
    <3>1. b - 1 + j \in Nat /\ b - 1 + j \in (b - 1) .. (i - 1)
      BY <1>0, <2>2
    <3>2. QED
      BY <1>9, <1>11, <3>1
  <2>3. QED
    BY <2>1, <2>2
<1>13. Completes(s, f) <=> i = b + n - 1
  BY <1>2, <1>6, <1>7, <1>12 DEF Completes
<1>14. ASSUME i < b + n - 1
       PROVE  ~Completes(s, f) /\ Gathered(RecvFragment(s, f).asm, b, i)
              /\ RecvFragment(s, f).pendingList
  BY <1>2, <1>7, <1>10, <1>13, <1>14, RecvParts
<1>15. ASSUME i = b + n - 1
       PROVE  CompletesList(s, f) /\ RecvFragment(s, f).asm = Idle
  BY <1>2, <1>13, <1>15, RecvParts DEF CompletesList
<1>16. QED
  BY <1>0, <1>14, <1>15

(* Within a list the next packet is its next fragment. *)
LEMMA MidwayNext ==
  ASSUME NEW stream, NEW s \in Nat, NEW b \in 1 .. s, s - b + 1 < NFrags, ListAt(stream, b)
  PROVE  /\ s + 1 \in DOMAIN stream
         /\ s + 1 < b + NFrags - 1 => stream[s + 1] = "Body"
         /\ s + 1 = b + NFrags - 1 => stream[s + 1] \in {"Tail", "Stub"}
         /\ s + 1 <= b + NFrags - 1
<1>1. PICK n \in Nat : n = NFrags
  BY ProxyAssumption
<1>2. PICK k \in Nat : k = s - b + 2
  OBVIOUS
<1>3. k \in Parts /\ k # 1 /\ b + k - 1 = s + 1
  BY <1>1, <1>2 DEF Parts
<1>4. s + 1 \in DOMAIN stream /\ stream[s + 1] \in ItemsAt(k)
  BY <1>3 DEF ListAt
<1>5. (s + 1 < b + n - 1 => k < n) /\ (s + 1 = b + n - 1 => ~(k < n)) /\ s + 1 <= b + n - 1
  BY <1>1, <1>2
<1>6. QED
  BY <1>1, <1>3, <1>4, <1>5 DEF ItemsAt

(* What is not the head of a list comes after a fragment of it. *)
LEMMA MidwayBefore ==
  ASSUME NEW stream \in Seq(ServerItems), Shaped(stream), NEW i \in DOMAIN stream,
         stream[i] \in {"Body", "Tail", "Stub"}
  PROVE  i > 1 /\ Midway(stream, i - 1)
<1>1. PICK n \in Nat : n = NFrags
  BY ProxyAssumption
<1>2. PICK m \in Nat : m = Len(stream) /\ DOMAIN stream = 1 .. m
  OBVIOUS
<1>3. PICK b \in 1 .. i : i < b + n /\ ListAt(stream, b)
  BY <1>1 DEF Shaped, FragmentItems
<1>4. PICK k \in Nat : k = i - b + 1
  BY <1>2
<1>5. k \in Parts /\ b + k - 1 = i
  BY <1>1, <1>2, <1>3, <1>4 DEF Parts
<1>6. stream[i] \in ItemsAt(k)
  BY <1>3, <1>5 DEF ListAt
<1>7. k # 1
  BY <1>6 DEF ItemsAt
<1>8. k - 1 \in Parts /\ k - 1 < n /\ b + (k - 1) - 1 = i - 1 /\ i > 1
  <2>1. k \in 1 .. n /\ Parts = 1 .. n
    BY <1>1, <1>5 DEF Parts
  <2>2. i \in Nat /\ b \in Nat /\ b >= 1
    BY <1>2
  <2>3. k >= 2 /\ k <= n
    BY <1>7, <2>1
  <2>4. k - 1 \in 1 .. n /\ k - 1 < n
    BY <2>3
  <2>5. b + (k - 1) - 1 = i - 1 /\ i > 1
    BY <1>4, <2>2, <2>3
  <2>6. QED
    BY <2>1, <2>4, <2>5
<1>9. i - 1 \in DOMAIN stream /\ stream[i - 1] \in ItemsAt(k - 1)
  BY <1>3, <1>8 DEF ListAt
<1>10. QED
  BY <1>1, <1>8, <1>9 DEF ItemsAt, Midway

LEMMA NotMidway ==
  ASSUME NEW stream, NEW s \in Sessions, Assembly(stream, s),
         s.seqFromServer + 1 \in DOMAIN stream =>
           stream[s.seqFromServer + 1] \notin {"Body", "Tail", "Stub"}
  PROVE  ~Midway(stream, s.seqFromServer) /\ s.asm = Idle
<1>1. PICK n \in Nat : n = s.seqFromServer
  BY DEF Sessions
<1>2. ASSUME Midway(stream, n) PROVE FALSE
  <2>1. PICK b \in 1 .. n : n - b + 1 < NFrags /\ ListAt(stream, b)
    BY <1>1, <1>2 DEF Assembly
  <2>2. /\ n + 1 \in DOMAIN stream
        /\ n + 1 < b + NFrags - 1 => stream[n + 1] = "Body"
        /\ n + 1 = b + NFrags - 1 => stream[n + 1] \in {"Tail", "Stub"}
        /\ n + 1 <= b + NFrags - 1
    BY <2>1, MidwayNext
  <2>3. n + 1 < b + NFrags - 1 \/ n + 1 = b + NFrags - 1
    BY <2>2, ProxyAssumption
  <2>4. QED
    BY <1>1, <2>2, <2>3
<1>3. QED
  BY <1>1, <1>2 DEF Assembly

(* What the server sends outside its lists leaves the assembler alone. *)
LEMMA RelayedAssembler ==
  ASSUME NEW st \in RelayStates, NEW sub \in ServerSubs
  PROVE  /\ Relayed(st, sub).session.asm = st.session.asm
         /\ Relayed(st, sub).session.pendingList = st.session.pendingList
<1>1. st.session \in Sessions
  BY DEF RelayStates
<1>2. /\ RewriteServerPacket(st.session, sub.seq).asm = st.session.asm
      /\ RewriteServerPacket(st.session, sub.seq).pendingList = st.session.pendingList
  BY <1>1 DEF RewriteServerPacket, Sessions
<1>3. QED
  BY <1>2, RelayedParts

LEMMA RelayedAllAssembler ==
  ASSUME NEW st \in RelayStates, NEW d \in Seq(ServerSubs)
  PROVE  /\ RelayedAll(st, d).session.asm = st.session.asm
         /\ RelayedAll(st, d).session.pendingList = st.session.pendingList
  BY RelayedAllSteps, RelayedAssembler

LEMMA NotedAssembler ==
  ASSUME NEW s \in Sessions, NEW n \in Nat, NEW noted,
         noted = NoteInjectedClientPacket(NoteSuppressedServerPacket(s, n))
  PROVE  noted.asm = s.asm /\ noted.pendingList = s.pendingList
<1>1. PICK t \in Sessions : t = NoteSuppressedServerPacket(s, n)
  BY NoteSuppressedType
<1>2. t.asm = s.asm /\ t.pendingList = s.pendingList
  BY <1>1 DEF NoteSuppressedServerPacket, Sessions
<1>3. noted.asm = t.asm /\ noted.pendingList = t.pendingList
  BY <1>1 DEF NoteInjectedClientPacket, Sessions
<1>4. QED
  BY <1>2, <1>3

LEMMA ServerDataAssembler ==
  ASSUME TypeOK, RetryInv, NumbersInv, client.open, NEW d \in SentDatagrams,
         HandleServerData(d)
  PROVE  session'.asm = session.asm /\ session'.pendingList = session.pendingList
<1>1. d \in Seq(ServerSubs) /\ d # <<>>
  BY DEF SentDatagrams
<1>2. Unrelayed \in RelayStates /\ Unrelayed.session = session
  BY UnrelayedType DEF Unrelayed
<1>3. CASE PassOn(d)
  <2>1. session' = RelayedAll(Unrelayed, d).session
    BY <1>1, <1>3, PassOnEffect
  <2>2. QED
    BY <1>1, <1>2, <2>1, RelayedAllAssembler
<1>4. CASE Intercepts(d) /\ SuppressRejection(d)
  <2>1. AnswerIn(d) # 0 /\ retry.original # <<>>
    BY <1>4 DEF Intercepts, NumbersInv, RetryPhase, Replayable
  <2>2. PICK n : n = d[AnswerIn(d)].seq
    OBVIOUS
  <2>3. /\ n \in Nat /\ WithoutAnswer(d) \in Seq(ServerSubs)
        /\ Rest(d).session \in Sessions
    BY <1>1, <2>1, <2>2, WithoutAnswerType DEF Rest
  <2>4. session' = NoteInjectedClientPacket(NoteSuppressedServerPacket(Rest(d).session, n))
    BY <1>4, <2>1, <2>2 DEF SuppressRejection, FireSsoRetry, Rest
  <2>5. /\ Rest(d).session.asm = session.asm
        /\ Rest(d).session.pendingList = session.pendingList
    BY <1>2, <2>3, RelayedAllAssembler DEF Rest
  <2>6. PICK s \in Sessions : s = Rest(d).session
    BY <2>3
  <2>7. PICK noted : noted = session'
    OBVIOUS
  <2>8. noted.asm = s.asm /\ noted.pendingList = s.pendingList
    BY <2>3, <2>4, <2>6, <2>7, NotedAssembler
  <2>9. QED
    BY <2>5, <2>6, <2>7, <2>8
<1>5. QED
  BY <1>3, <1>4 DEF HandleServerData

LEMMA ServerDataFragments ==
  ASSUME TypeOK, RetryInv, AckInv, NumbersInv, CountedInv, FragInv, client.open,
         NEW k \in 0 .. 2, NEW d \in SentDatagrams, InTurn(d, k), Unfragmented(k),
         HandleServerData(d)
  PROVE  FragInv'
<1>1. PICK s \in Nat : s = session.seqFromServer
  BY DEF TypeOK, Sessions
<1>2. PICK m \in Nat : Len(server.stream) = m /\ DOMAIN server.stream = 1 .. m
  BY StreamDomain
<1>3. session'.seqFromServer = s + k /\ s + k <= m /\ server' = server
  BY <1>1, <1>2, TurnCounted DEF InTurn, HandleServerData
<1>4. session'.asm = session.asm /\ session'.pendingList = session.pendingList
  BY ServerDataAssembler
<1>5. Shaped(server.stream) /\ Assembly(server.stream, session)
  BY DEF FragInv
<1>6. CASE k = 0
  BY <1>1, <1>3, <1>4, <1>5, <1>6 DEF FragInv, Assembly
<1>7. CASE k # 0
  <2>1. \A p \in (s + 1) .. (s + k) : server.stream[p] \notin FragmentItems
    BY <1>1 DEF Unfragmented
  <2>2. s + 1 \in (s + 1) .. (s + k) /\ s + k \in (s + 1) .. (s + k)
    BY <1>7
  <2>3. session.asm = Idle
    BY <1>1, <1>5, <2>1, <2>2, NotMidway DEF TypeOK, FragmentItems
  <2>4. ~Midway(server.stream, s + k)
    BY <2>1, <2>2 DEF Midway, FragmentItems
  <2>5. QED
    BY <1>3, <1>4, <1>5, <2>3, <2>4 DEF FragInv, Assembly
<1>8. QED
  BY <1>6, <1>7

(* A fragment takes its place in the list, and the last one shows it. *)
LEMMA FragmentShown ==
  ASSUME ~LossyServerLink, MaxStream < SeqMod, NFrags <= SeqMod \div 2,
         TypeOK, AckInv, CountedInv, FragInv,
         NEW i \in DOMAIN server.stream, ServerSendsFragment(i)
  PROVE  FragInv' /\ ItemsShown' = ItemsShown \o Relay!Seen(server.stream[i])
<1>1. client.open
  BY DEF AckInv, Apart
<1>2. PICK m \in Nat : Len(server.stream) = m /\ DOMAIN server.stream = 1 .. m
  BY StreamDomain
<1>3. i = session.seqFromServer + 1 /\ session'.seqFromServer = i /\ i \in Nat /\ i > 0
  BY <1>2, FragmentCountedInv
<1>4. m < SeqMod
  BY <1>1, <1>2, ProxyAssumption, SeqModAssumption DEF CountedInv
<1>5. PICK total \in IF server.stream[i] = "Head" THEN {NFrags} ELSE GarbageTotals :
        HandleFragment(ServerFragment(i, total))
  BY DEF ServerSendsFragment
<1>6. total \in Nat
  BY <1>5, ProxyAssumption
<1>7. PICK f \in Fragments : f = ServerFragment(i, total)
  BY <1>6, ServerFragmentType
<1>8. /\ f.seq = i - 1
      /\ server.stream[i] = "Head" => f.head /\ ~f.short /\ f.total = NFrags
  <2>1. i - 1 \in Nat /\ i - 1 < SeqMod
    BY <1>2, <1>3, <1>4, SeqModAssumption
  <2>2. (i - 1) % SeqMod = i - 1
    BY <2>1, SmallRemainder
  <2>3. /\ f.seq = (i - 1) % SeqMod /\ f.head = (server.stream[i] = "Head")
        /\ f.total = total /\ f.short = (server.stream[i] = "Stub")
    BY <1>7 DEF ServerFragment
  <2>4. QED
    BY <1>5, <2>2, <2>3
<1>9. PICK s \in Sessions : s = session
  BY DEF TypeOK
<1>10. PICK after : after = RecvFragment(s, f) /\ session' = after
  BY <1>5, <1>7, <1>9 DEF HandleFragment
<1>11. /\ shown' = IF CompletesList(s, f)
                     THEN Append(shown, [seq |-> s.seqToClient, item |-> "List"])
                     ELSE shown
       /\ server' = server /\ client' = client
  BY <1>5, <1>7, <1>9 DEF HandleFragment
<1>12. Shaped(server.stream) /\ Assembly(server.stream, s)
  BY <1>1, <1>9 DEF FragInv
<1>13. server.stream \in Seq(ServerItems)
  BY DEF TypeOK
<1>14. PICK items : items = ItemsShown /\ items \o <<>> = items
                    /\ (~CompletesList(s, f) => ItemsShown' = items)
                    /\ (CompletesList(s, f) => ItemsShown' = items \o <<"List">>)
  <2>1. shown \in Seq(ShownPackets) /\ ItemsShown = ItemsOf(shown)
        /\ ItemsShown' = ItemsOf(shown')
    BY DEF TypeOK, ShownPackets, ItemsShown, ItemsOf
  <2>2. PICK p \in ShownPackets : p = [seq |-> s.seqToClient, item |-> "List"]
    BY DEF ShownPackets, Sessions
  <2>3. /\ ItemsOf(shown) \in Seq(ServerItems \cup {"List"})
        /\ ItemsOf(Append(shown, p)) = ItemsOf(shown) \o <<"List">>
    BY <2>1, <2>2, ItemsAppend
  <2>4. QED
    BY <1>11, <2>1, <2>2, <2>3
<1>15. CASE server.stream[i] = "Head"
  <2>1. s.asm = Idle
    BY <1>3, <1>9, <1>12, <1>15, NotMidway
  <2>2. /\ ~Completes(s, f) /\ Gathered(after.asm, i, i) /\ after.pendingList
    BY <1>2, <1>3, <1>4, <1>8, <1>10, <1>15, <2>1, OpensList, SeqModAssumption
  <2>3. Midway(server.stream, i)
    BY <1>15 DEF Midway
  <2>4. PICK b \in 1 .. i : i < b + NFrags /\ ListAt(server.stream, b)
    BY <1>12, <1>15 DEF Shaped, FragmentItems
  <2>5. b = i
    <3>1. PICK k \in Nat : k = i - b + 1
      BY <1>3
    <3>2. PICK n \in Nat : n = NFrags
      BY ProxyAssumption
    <3>3. k \in Parts /\ b + k - 1 = i
      BY <1>3, <2>4, <3>1, <3>2 DEF Parts
    <3>4. server.stream[i] \in ItemsAt(k)
      BY <2>4, <3>3 DEF ListAt
    <3>5. k = 1
      BY <1>15, <3>4 DEF ItemsAt
    <3>6. QED
      BY <1>3, <3>1, <3>5
  <2>6. i - b + 1 < NFrags
    BY <1>3, <2>5, ProxyAssumption
  <2>7. Assembly(server.stream, after)
    BY <1>3, <1>10, <2>2, <2>3, <2>4, <2>5, <2>6 DEF Assembly
  <2>8. ~CompletesList(s, f)
    BY <2>2 DEF CompletesList
  <2>9. Relay!Seen(server.stream[i]) = <<>>
    BY <1>15 DEF Relay!Seen, Relay!Withheld
  <2>10. QED
    BY <1>10, <1>11, <1>12, <1>14, <2>7, <2>8, <2>9 DEF FragInv
<1>16. CASE server.stream[i] \in {"Body", "Tail", "Stub"}
  <2>1. i > 1 /\ Midway(server.stream, i - 1)
    BY <1>12, <1>13, <1>16, MidwayBefore
  <2>2. PICK p \in Nat : p = i - 1 /\ p = s.seqFromServer /\ i = p + 1
    <3>1. s.seqFromServer \in Nat /\ i = s.seqFromServer + 1
      BY <1>3, <1>9 DEF Sessions
    <3>2. QED
      BY <3>1
  <2>3. PICK b \in 1 .. p : /\ p - b + 1 < NFrags /\ ListAt(server.stream, b)
                            /\ Gathered(s.asm, b, p) /\ s.pendingList
    BY <1>12, <2>1, <2>2 DEF Assembly
  <2>4. /\ i < b + NFrags - 1 => server.stream[i] = "Body"
        /\ i = b + NFrags - 1 => server.stream[i] \in {"Tail", "Stub"}
        /\ i <= b + NFrags - 1
    BY <2>2, <2>3, MidwayNext
  <2>5. PICK n \in Nat : n = NFrags /\ n > 1
    BY ProxyAssumption
  <2>6. b \in Nat /\ b > 0 /\ b < i /\ i < b + n
    BY <2>2, <2>3, <2>5
  <2>7. b + n - 1 < SeqMod
    <3>1. n \in Parts
      BY <2>5 DEF Parts
    <3>2. b + n - 1 \in DOMAIN server.stream
      BY <2>3, <3>1 DEF ListAt
    <3>3. QED
      BY <1>2, <1>4, <2>6, <3>2, SeqModAssumption
  <2>8. /\ i < b + n - 1 => ~Completes(s, f) /\ Gathered(after.asm, b, i) /\ after.pendingList
        /\ i = b + n - 1 => CompletesList(s, f) /\ after.asm = Idle
    BY <1>3, <1>8, <1>10, <2>2, <2>3, <2>5, <2>6, <2>7, ContinuesList
  <2>9. ASSUME i < b + n - 1
        PROVE  FragInv' /\ ItemsShown' = ItemsShown \o Relay!Seen(server.stream[i])
    <3>1. server.stream[i] = "Body" /\ i - b + 1 < NFrags /\ b \in 1 .. i
      <4>1. i - b + 1 < n /\ b \in 1 .. i
        BY <1>3, <2>5, <2>6, <2>9
      <4>2. QED
        BY <2>4, <2>5, <2>9, <4>1
    <3>2. Midway(server.stream, i)
      BY <3>1 DEF Midway
    <3>3. Assembly(server.stream, after)
      BY <1>3, <1>10, <2>3, <2>8, <2>9, <3>1, <3>2 DEF Assembly
    <3>4. ~CompletesList(s, f)
      BY <2>8, <2>9 DEF CompletesList
    <3>5. Relay!Seen(server.stream[i]) = <<>>
      BY <3>1 DEF Relay!Seen, Relay!Withheld
    <3>6. QED
      BY <1>10, <1>11, <1>12, <1>14, <3>3, <3>4, <3>5 DEF FragInv
  <2>10. ASSUME i = b + n - 1
         PROVE  FragInv' /\ ItemsShown' = ItemsShown \o Relay!Seen(server.stream[i])
    <3>1. server.stream[i] \in {"Tail", "Stub"}
      BY <2>4, <2>5, <2>10
    <3>2. ~Midway(server.stream, i)
      BY <3>1 DEF Midway
    <3>3. Assembly(server.stream, after)
      BY <1>3, <1>10, <2>8, <2>10, <3>2 DEF Assembly
    <3>4. CompletesList(s, f)
      BY <2>8, <2>10
    <3>5. Relay!Seen(server.stream[i]) = <<"List">>
      BY <3>1 DEF Relay!Seen, Relay!Withheld
    <3>6. QED
      BY <1>10, <1>11, <1>12, <1>14, <3>3, <3>4, <3>5 DEF FragInv
  <2>11. i < b + n - 1 \/ i = b + n - 1
    BY <1>3, <2>4, <2>5, <2>6
  <2>12. QED
    BY <2>9, <2>10, <2>11
<1>17. server.stream[i] \in FragmentItems
  BY DEF ServerSendsFragment
<1>18. QED
  BY <1>15, <1>16, <1>17 DEF FragmentItems

LEMMA ListAtGrows ==
  ASSUME NEW stream, NEW longer, NEW b, ListAt(stream, b),
         \A j \in DOMAIN stream : j \in DOMAIN longer /\ longer[j] = stream[j]
  PROVE  ListAt(longer, b)
  BY DEF ListAt

LEMMA ReceivesFragments ==
  ASSUME TypeOK, AckInv, FragInv, ServerReceives
  PROVE  FragInv'
<1>1. UNCHANGED <<session, client>> /\ client.open
  BY DEF ServerReceives, proxyVars, clientVars, AckInv, Apart
<1>2. PICK m \in toServer : \E answer \in Answers(m) :
        /\ answer \in Seq(ServerItems) /\ Len(answer) > 0
        /\ server'.stream = server.stream \o answer
  BY ReceivesEffect
<1>3. PICK answer \in Answers(m) :
        /\ answer \in Seq(ServerItems) /\ Len(answer) > 0
        /\ server'.stream = server.stream \o answer
  BY <1>2
<1>4. PICK n \in Nat, k \in Nat, all \in Seq(ServerItems) :
        /\ Len(server.stream) = n /\ DOMAIN server.stream = 1 .. n
        /\ k = Len(answer) /\ DOMAIN answer = 1 .. k
        /\ all = server'.stream
  <2>1. PICK n \in Nat : Len(server.stream) = n /\ DOMAIN server.stream = 1 .. n
    BY StreamDomain
  <2>2. PICK k \in Nat : k = Len(answer) /\ DOMAIN answer = 1 .. k
    BY <1>3
  <2>3. server.stream \in Seq(ServerItems)
    BY DEF TypeOK
  <2>4. server'.stream \in Seq(ServerItems)
    BY <1>3, <2>3
  <2>5. QED
    BY <2>1, <2>2, <2>4
<1>5. /\ Len(all) = n + k
      /\ \A j \in 1 .. n : j \in DOMAIN all /\ all[j] = server.stream[j]
      /\ \A j \in 1 .. k : n + j \in DOMAIN all /\ all[n + j] = answer[j]
      /\ \A j \in DOMAIN all : j \in 1 .. n \/ j - n \in 1 .. k
  BY <1>3, <1>4, StreamGrows
<1>6. Shaped(server.stream) /\ Assembly(server.stream, session)
  BY <1>1 DEF FragInv
<1>7. \A b : ListAt(server.stream, b) => ListAt(all, b)
  BY <1>4, <1>5, ListAtGrows
<1>8. all \in Seq(ServerItems) /\ DOMAIN all = 1 .. (n + k)
  <2>1. server.stream \in Seq(ServerItems)
    BY DEF TypeOK
  <2>2. QED
    BY <1>3, <1>4, <1>5, <2>1
<1>9. Shaped(all)
  <2> SUFFICES ASSUME NEW i \in DOMAIN all, all[i] \in FragmentItems
               PROVE  \E b \in 1 .. i : i < b + NFrags /\ ListAt(all, b)
    BY DEF Shaped
  <2>1. CASE i \in 1 .. n
    BY <1>4, <1>5, <1>6, <1>7, <2>1 DEF Shaped
  <2>2. CASE i \notin 1 .. n
    <3>1. PICK j \in 1 .. k : j = i - n /\ i = n + j /\ all[i] = answer[j]
      BY <1>5, <1>8, <2>2
    <3>2. m.kind # "Ready" /\ m.kind # "Login"
      <4>1. answer[j] \in FragmentItems /\ j \in DOMAIN answer
        BY <1>4, <3>1
      <4>2. ASSUME m.kind = "Ready" PROVE FALSE
        <5>1. answer = <<"Hello">>
          BY <1>3, <4>2 DEF Answers
        <5>2. QED
          BY <4>1, <5>1 DEF FragmentItems
      <4>3. ASSUME m.kind = "Login" PROVE FALSE
        <5>1. PICK item \in {"Good", "SsoRejected", "Rejected"} : answer = <<item>>
          BY <1>3, <4>3 DEF Answers
        <5>2. QED
          BY <4>1, <5>1 DEF FragmentItems
      <4>4. QED
        BY <4>2, <4>3
    <3>3. PICK last \in {"Tail", "Stub"} : answer = ListFragments(last)
      BY <1>3, <3>2 DEF Answers
    <3>4. /\ Parts = 1 .. k
          /\ \A p \in Parts : answer[p] \in ItemsAt(p)
      <4>1. DOMAIN answer = Parts
        BY <3>3 DEF ListFragments, Parts
      <4>2. \A p \in Parts : answer[p] \in ItemsAt(p)
        BY <3>3 DEF ListFragments, Parts, ItemsAt
      <4>3. QED
        BY <1>4, <4>1, <4>2
    <3>5. ListAt(all, n + 1)
      <4>1. \A p \in Parts : (n + 1) + p - 1 = n + p
        BY <3>4
      <4>2. QED
        BY <1>5, <3>4, <4>1 DEF ListAt
    <3>6. NFrags = k
      BY <1>4, <3>4, ProxyAssumption DEF Parts
    <3>7. n + 1 \in 1 .. i /\ i < (n + 1) + NFrags
      BY <3>1, <3>6
    <3>8. QED
      BY <3>5, <3>7
  <2>3. QED
    BY <2>1, <2>2
<1>10. Assembly(all, session)
  <2>1. session.seqFromServer <= n /\ session.seqFromServer \in Nat
    BY <1>4 DEF AckInv, FromServer, Unrelayed, TypeOK, Sessions
  <2>2. Midway(all, session.seqFromServer) <=> Midway(server.stream, session.seqFromServer)
    BY <1>4, <1>5, <1>8, <2>1 DEF Midway
  <2>3. CASE Midway(server.stream, session.seqFromServer)
    BY <1>6, <1>7, <2>2, <2>3 DEF Assembly
  <2>4. CASE ~Midway(server.stream, session.seqFromServer)
    BY <1>6, <2>2, <2>4 DEF Assembly
  <2>5. QED
    BY <2>3, <2>4
<1>11. QED
  BY <1>1, <1>4, <1>9, <1>10 DEF FragInv

LEMMA QuietFragments ==
  ASSUME FragInv, client'.open => client.open, session' = session,
         server'.stream = server.stream
  PROVE  FragInv'
  BY DEF FragInv

LEMMA FragmentsStep ==
  ASSUME ~Impatient, ~LossyServerLink, ~RepeatedResponses, MaxStream < SeqMod,
         NFrags <= SeqMod \div 2,
         TypeOK, RetryInv, StreamInv, AckInv, NumbersInv, CountedInv, FragInv, [Next]_vars
  PROVE  FragInv'
<1>1. CASE ClientIssues
  <2>1. client.open /\ \E d : HandleClientData(d)
    BY <1>1 DEF ClientIssues
  <2>2. QED
    BY <2>1, QuietFragments DEF HandleClientData, StreamInv, CurrentSession, Lapsed
<1>2. CASE ClientRepeats
  <2>1. client.open /\ \E d : HandleClientData(d)
    BY <1>2 DEF ClientRepeats
  <2>2. QED
    BY <2>1, QuietFragments DEF HandleClientData, StreamInv, CurrentSession, Lapsed
<1>3. CASE ClientAcks
  <2>1. client.open /\ HandleClientData(<<ClientAck>>)
    BY <1>3 DEF ClientAcks
  <2>2. QED
    BY <2>1, QuietFragments DEF HandleClientData, StreamInv, CurrentSession, Lapsed
<1>4. CASE ClientKeepsAlive
  <2>1. client.open /\ session' = session /\ server' = server
    BY <1>4 DEF ClientKeepsAlive, serverVars, StreamInv, CurrentSession, Lapsed
  <2>2. QED
    BY <2>1, QuietFragments
<1>5. CASE ClientConnects
  BY <1>5 DEF ClientConnects, FragInv
<1>6. CASE ClientDisconnects
  <2>1. ~client'.open
    BY <1>6 DEF ClientDisconnects, TypeOK
  <2>2. QED
    BY <2>1 DEF FragInv
<1>7. CASE ClientIdles
  BY <1>7, QuietFragments DEF ClientIdles, clientVars, serverVars
<1>8. CASE AuthEnds
  BY <1>8, QuietFragments DEF AuthEnds, AuthSucceeds, AuthFails, clientVars
<1>9. ASSUME NEW i \in DOMAIN server.stream, ServerSendsPacket(i)
      PROVE  FragInv'
  <2>1. client.open
    BY <1>9 DEF AckInv, Apart
  <2>2. PICK k \in {1, 2} : \E d \in SentDatagrams :
          InTurn(d, k) /\ Unfragmented(k) /\ HandleServerData(d)
    BY <1>9, <2>1, SendsInTurn DEF CountedInv
  <2>3. k \in 0 .. 2
    OBVIOUS
  <2>4. QED
    BY <2>1, <2>2, <2>3, ServerDataFragments
<1>10. ASSUME NEW i \in DOMAIN server.stream, ServerSendsFragment(i)
       PROVE  FragInv'
  BY <1>10, FragmentShown
<1>11. CASE ServerSendsAck
  <2>1. client.open
    BY <1>11, ServerSendsAckSent DEF AckInv, Apart
  <2>2. PICK d \in SentDatagrams : InTurn(d, 0) /\ HandleServerData(d)
    BY <1>11, AcksInTurn DEF AckInv
  <2>3. 0 \in 0 .. 2 /\ Unfragmented(0)
    BY DEF Unfragmented, TypeOK, Sessions
  <2>4. QED
    BY <2>1, <2>2, <2>3, ServerDataFragments
<1>12. CASE ServerResponds
  <2>1. ~client.open
    BY <1>12 DEF ServerResponds, StreamInv
  <2>2. session' = NewSession /\ server'.stream = <<>>
    BY <1>12, <2>1 DEF ServerResponds, AckInv, Apart, TypeOK
  <2>3. Shaped(<<>>) /\ Assembly(<<>>, NewSession)
    BY DEF Shaped, Assembly, Midway, NewSession
  <2>4. QED
    BY <2>2, <2>3 DEF FragInv
<1>13. CASE ServerReceives
  BY <1>13, ReceivesFragments
<1>14. CASE UNCHANGED vars
  BY <1>14, QuietFragments DEF vars, proxyVars, clientVars, serverVars
<1>15. QED
  BY <1>1, <1>2, <1>3, <1>4, <1>5, <1>6, <1>7, <1>8, <1>9, <1>10, <1>11, <1>12,
     <1>13, <1>14
  DEF Next, ClientStep, ServerSends

----------------------------------------------------------------------------
(* Every step of the proxy is a step of the relay, or none *)

LEMMA PrefixOfConcat ==
  ASSUME NEW S, NEW s \in Seq(S), NEW t \in Seq(S), Len(t) > 0
  PROVE  Len(s \o t) > Len(s) /\ SubSeq(s \o t, 1, Len(s)) = s
<1>1. PICK n \in Nat, k \in Nat, all \in Seq(S) :
        n = Len(s) /\ k = Len(t) /\ all = s \o t
  <2>1. s \o t \in Seq(S) /\ Len(s) \in Nat /\ Len(t) \in Nat
    OBVIOUS
  <2>2. QED
    BY <2>1
<1>2. Len(all) = n + k /\ \A i \in 1 .. n : all[i] = s[i]
  BY <1>1
<1>3. SubSeq(all, 1, n) = s
  <2>1. PICK part : part = SubSeq(all, 1, n)
    OBVIOUS
  <2>2. part \in Seq(S) /\ Len(part) = n /\ \A i \in 1 .. n : part[i] = all[i]
    BY <1>2, <2>1
  <2>3. part = s
    BY <1>1, <1>2, <2>2
  <2>4. QED
    BY <2>1, <2>3
<1>4. QED
  BY <1>1, <1>2, <1>3

LEMMA TakenOfCounted ==
  ASSUME TypeOK, CountedInv, client.open, NEW s \in Nat, s = session.seqFromServer,
         NEW k \in Nat, arrived' = 0 .. (session.seqFromServer + k - 1)
  PROVE  Cardinality(arrived) = s /\ Cardinality(arrived') = s + k
<1>1. arrived = 0 .. (s - 1) /\ arrived' = 0 .. ((s + k) - 1)
  BY DEF CountedInv, Counted
<1>2. s + k \in Nat
  OBVIOUS
<1>3. QED
  BY <1>1, <1>2, IntervalGrows

LEMMA SessionRelayed ==
  ASSUME server'.stream = <<>>, arrived' = {}, shown' = <<>>
  PROVE  Relay!NewSession
<1>1. Cardinality(arrived') = 0
  BY FS_EmptySet
<1>2. ItemsShown' = <<>>
  BY DEF ItemsShown
<1>3. QED
  BY <1>1, <1>2 DEF Relay!NewSession

LEMMA PacketRelayed ==
  ASSUME ~LossyServerLink, TypeOK, RetryInv, AckInv, NumbersInv, CountedInv, WithheldInv,
         SsoAnswered, NEW i \in DOMAIN server.stream, ServerSendsPacket(i)
  PROVE  Relay!Take
<1>1. client.open
  BY DEF AckInv, Apart
<1>2. PICK s \in Nat : s = session.seqFromServer
  BY DEF TypeOK, Sessions
<1>3. PICK k \in {1, 2} : \E d \in SentDatagrams :
        /\ InTurn(d, k) /\ Unfragmented(k) /\ HandleServerData(d)
        /\ arrived' = 0 .. (session.seqFromServer + k - 1)
  BY <1>1, SendsInTurn DEF CountedInv
<1>4. PICK d \in SentDatagrams :
        /\ InTurn(d, k) /\ Unfragmented(k) /\ HandleServerData(d)
        /\ arrived' = 0 .. (session.seqFromServer + k - 1)
  BY <1>3
<1>5. Cardinality(arrived) = s /\ Cardinality(arrived') = s + k
  BY <1>1, <1>2, <1>4, TakenOfCounted
<1>6. server' = server /\ s + k <= Len(server.stream)
  BY <1>2, <1>4 DEF HandleServerData, InTurn
<1>7. /\ k = 1 => ItemsShown' = ItemsShown \o Relay!Seen(server.stream[s + 1])
      /\ k = 2 => ItemsShown' = (ItemsShown \o Relay!Seen(server.stream[s + 1]))
                                  \o Relay!Seen(server.stream[s + 2])
  <2>1. k \in 0 .. 2
    OBVIOUS
  <2>2. QED
    BY <1>1, <1>2, <1>4, <2>1, TurnShown
<1>8. CASE k = 1
  BY <1>5, <1>6, <1>7, <1>8 DEF Relay!Take, Relay!TakeOne
<1>9. CASE k = 2
  BY <1>5, <1>6, <1>7, <1>9 DEF Relay!Take, Relay!TakeTwo
<1>10. QED
  BY <1>8, <1>9

LEMMA FragmentRelayed ==
  ASSUME ~LossyServerLink, MaxStream < SeqMod, NFrags <= SeqMod \div 2,
         TypeOK, AckInv, CountedInv, FragInv,
         NEW i \in DOMAIN server.stream, ServerSendsFragment(i)
  PROVE  Relay!Take
<1>1. client.open
  BY DEF AckInv, Apart
<1>2. PICK s \in Nat : s = session.seqFromServer
  BY DEF TypeOK, Sessions
<1>3. i = s + 1 /\ session'.seqFromServer = s + 1 /\ CountedInv'
  BY <1>2, FragmentCountedInv
<1>4. server' = server /\ client' = client
  BY DEF ServerSendsFragment, HandleFragment
<1>5. Cardinality(arrived) = s /\ Cardinality(arrived') = s + 1
  <2>1. arrived' = 0 .. (s + 1 - 1)
    BY <1>1, <1>3, <1>4 DEF CountedInv, Counted
  <2>2. QED
    BY <1>1, <1>2, <2>1, TakenOfCounted
<1>6. s + 1 <= Len(server.stream)
  <2>1. PICK m \in Nat : Len(server.stream) = m /\ DOMAIN server.stream = 1 .. m
    BY StreamDomain
  <2>2. QED
    BY <1>3, <2>1
<1>7. ItemsShown' = ItemsShown \o Relay!Seen(server.stream[s + 1])
  BY <1>3, FragmentShown
<1>8. QED
  BY <1>4, <1>5, <1>6, <1>7 DEF Relay!Take, Relay!TakeOne

LEMMA AckRelayed ==
  ASSUME TypeOK, RetryInv, AckInv, NumbersInv, WithheldInv, SsoAnswered, ServerSendsAck
  PROVE  UNCHANGED <<server.stream, Cardinality(arrived), ItemsShown>>
<1>1. client.open
  BY ServerSendsAckSent DEF AckInv, Apart
<1>2. PICK d \in SentDatagrams : InTurn(d, 0) /\ HandleServerData(d)
  BY AcksInTurn DEF AckInv
<1>3. 0 \in 0 .. 2 /\ Unfragmented(0)
  BY DEF Unfragmented, TypeOK, Sessions
<1>4. PICK s \in Nat : s = session.seqFromServer
  BY DEF TypeOK, Sessions
<1>5. ItemsShown' = ItemsShown
  BY <1>1, <1>2, <1>3, <1>4, TurnShown
<1>6. server' = server /\ arrived' = arrived
  BY <1>2 DEF HandleServerData, ServerSendsAck
<1>7. QED
  BY <1>5, <1>6

LEMMA AnswerRelayed ==
  ASSUME TypeOK, ServerReceives
  PROVE  Relay!Answer
<1>1. PICK m \in toServer : \E answer \in Answers(m) :
        /\ answer \in Seq(ServerItems) /\ Len(answer) > 0
        /\ server'.stream = server.stream \o answer
  BY ReceivesEffect
<1>2. PICK answer \in Answers(m) :
        /\ answer \in Seq(ServerItems) /\ Len(answer) > 0
        /\ server'.stream = server.stream \o answer
  BY <1>1
<1>3. server.stream \in Seq(ServerItems)
  BY DEF TypeOK
<1>4. /\ Len(server'.stream) > Len(server.stream)
      /\ SubSeq(server'.stream, 1, Len(server.stream)) = server.stream
  BY <1>2, <1>3, PrefixOfConcat
<1>5. UNCHANGED <<arrived, shown>>
  BY DEF ServerReceives, clientVars
<1>6. ItemsShown' = ItemsShown
  BY <1>5 DEF ItemsShown
<1>7. QED
  BY <1>4, <1>5, <1>6 DEF Relay!Answer

LEMMA QuietRelayed ==
  ASSUME server'.stream = server.stream, UNCHANGED <<arrived, shown>>
  PROVE  UNCHANGED <<server.stream, Cardinality(arrived), ItemsShown>>
  BY DEF ItemsShown

RelayVars == <<server.stream, Cardinality(arrived), ItemsShown>>

LEMMA RelayInit == Init => Relay!Init
<1> SUFFICES ASSUME Init PROVE Relay!Init
  OBVIOUS
<1>1. server.stream = <<>> /\ arrived = {} /\ shown = <<>>
  BY DEF Init, NoServer
<1>2. Cardinality(arrived) = 0
  BY <1>1, FS_EmptySet
<1>3. ItemsShown = <<>>
  BY <1>1 DEF ItemsShown
<1>4. QED
  BY <1>1, <1>2, <1>3 DEF Relay!Init

LEMMA RelayStep ==
  ASSUME ~LossyServerLink, MaxStream < SeqMod, NFrags <= SeqMod \div 2,
         TypeOK, RetryInv, AckInv, NumbersInv, CountedInv, WithheldInv,
         SsoAnswered, FragInv, [Next]_vars
  PROVE  [Relay!Next]_RelayVars
<1>1. CASE ClientIssues
  BY <1>1, QuietRelayed DEF ClientIssues, HandleClientData, RelayVars
<1>2. CASE ClientRepeats
  BY <1>2, QuietRelayed DEF ClientRepeats, HandleClientData, clientVars, RelayVars
<1>3. CASE ClientAcks
  BY <1>3, QuietRelayed DEF ClientAcks, HandleClientData, clientVars, RelayVars
<1>4. CASE ClientKeepsAlive
  BY <1>4, QuietRelayed DEF ClientKeepsAlive, clientVars, serverVars, RelayVars
<1>5. CASE ClientConnects
  <2>1. server'.stream = <<>> /\ arrived' = {} /\ shown' = <<>>
    BY <1>5 DEF ClientConnects, NoServer
  <2>2. QED
    BY <2>1, SessionRelayed DEF Relay!Next
<1>6. CASE ClientDisconnects
  <2>1. server'.stream = <<>> /\ arrived' = {} /\ shown' = <<>>
    BY <1>6 DEF ClientDisconnects, NoServer
  <2>2. QED
    BY <2>1, SessionRelayed DEF Relay!Next
<1>7. CASE ClientIdles
  BY <1>7, QuietRelayed DEF ClientIdles, clientVars, serverVars, RelayVars
<1>8. CASE AuthEnds
  BY <1>8, QuietRelayed DEF AuthEnds, AuthSucceeds, AuthFails, clientVars, RelayVars
<1>9. ASSUME NEW i \in DOMAIN server.stream, ServerSendsPacket(i)
      PROVE  Relay!Next
  BY <1>9, PacketRelayed DEF Relay!Next
<1>10. ASSUME NEW i \in DOMAIN server.stream, ServerSendsFragment(i)
       PROVE  Relay!Next
  BY <1>10, FragmentRelayed DEF Relay!Next
<1>11. CASE ServerSendsAck
  BY <1>11, AckRelayed DEF RelayVars
<1>12. CASE ServerResponds
  <2>1. server'.stream = server.stream /\ UNCHANGED <<arrived, shown>>
    BY <1>12 DEF ServerResponds, TypeOK
  <2>2. QED
    BY <2>1, QuietRelayed DEF RelayVars
<1>13. CASE ServerReceives
  BY <1>13, AnswerRelayed DEF Relay!Next
<1>14. CASE UNCHANGED vars
  BY <1>14, QuietRelayed DEF vars, proxyVars, clientVars, serverVars, RelayVars
<1>15. QED
  BY <1>1, <1>2, <1>3, <1>4, <1>5, <1>6, <1>7, <1>8, <1>9, <1>10, <1>11, <1>12,
     <1>13, <1>14
  DEF Next, ClientStep, ServerSends

LEMMA RelayAlways ==
  ASSUME ReliableSession, NFrags <= SeqMod \div 2
  PROVE  Spec => [](TypeOK /\ RetryInv /\ AckInv /\ NumbersInv /\ CountedInv /\ WithheldInv
                    /\ SsoAnswered /\ FragInv)
<1>1. Init => RetryInv /\ StreamInv /\ SsoAnswered /\ FragInv
  BY DEF Init, NoRetry, NoServer, RetryInv, RetryConsistent, AuthIsLogin, StreamInv,
         ClientStreamContiguous, SsoAnswered, FragInv
<1>2. TypeOK /\ StreamInv /\ [Next]_vars => StreamInv'
  BY StreamStep DEF ReliableSession
<1>3. TypeOK /\ RetryInv /\ StreamInv /\ AckInv /\ NumbersInv /\ SsoAnswered /\ [Next]_vars
        => SsoAnswered'
  BY AnsweredStep DEF ReliableSession
<1>4. TypeOK /\ RetryInv /\ StreamInv /\ AckInv /\ NumbersInv /\ CountedInv /\ FragInv
        /\ [Next]_vars => FragInv'
  BY FragmentsStep DEF ReliableSession
<1>5. QED
  BY <1>1, <1>2, <1>3, <1>4, ReliableAlways, RetryStep, PTL DEF Spec

(* The proxy implements the relay: within a session the client is shown what *)
(* the server answered, in its order and once each, a list for its fragments *)
(* and never the rejection of the SSO's password.                            *)
(* (handle_server_packet, recv_fragment, _fire_sso_retry)                    *)
THEOREM RelayIsFaithful ==
  ASSUME ReliableSession, NFrags <= SeqMod \div 2
  PROVE  Spec => Relay!Init /\ [][Relay!Next]_RelayVars
<1>1. TypeOK /\ RetryInv /\ AckInv /\ NumbersInv /\ CountedInv /\ WithheldInv
        /\ SsoAnswered /\ FragInv /\ [Next]_vars => [Relay!Next]_RelayVars
  BY RelayStep DEF ReliableSession
<1>2. QED
  BY <1>1, RelayInit, RelayAlways, PTL DEF Spec

=============================================================================
