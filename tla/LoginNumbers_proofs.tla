------------------------- MODULE LoginNumbers_proofs -------------------------
(***************************************************************************)
(* The two number spaces of a session of LoginProxy: what the proxy        *)
(* acknowledges to the server was sent by it, the client's packets and the *)
(* replay share the server's numbers exactly, and one rejected password is *)
(* replayed once.                                                          *)
(***************************************************************************)
EXTENDS LoginProxy_proofs, FunctionTheorems, FiniteSetTheorems

----------------------------------------------------------------------------
(* The handlers, described by what they leave behind *)

LEMMA LoginIsSecond ==
  ASSUME NEW n, NEW d \in ClientDatagrams(n), NeedsSso(d)
  PROVE  d = <<ClientAck, ClientPacket(n)>> /\ n = 1 /\ shown # <<>>
<1>1. d = <<ClientAck, ClientPacket(n)>> /\ shown # <<>>
  BY DEF ClientDatagrams, NeedsSso
<1>2. ClientPacket(n).kind = "Login"
  BY <1>1 DEF NeedsSso
<1>3. n = 1
  BY <1>2 DEF ClientPacket, Kind
<1>4. QED
  BY <1>1, <1>3

(* What is left of a datagram once the rejection is withheld, relayed. *)
Rest(d) == RelayedAll(Unrelayed, WithoutAnswer(d))

LEMMA PassOnEffect ==
  ASSUME TypeOK, NEW d \in Seq(ServerSubs), PassOn(d)
  PROVE  /\ RelayedAll(Unrelayed, d) \in RelayStates
         /\ session' = RelayedAll(Unrelayed, d).session
         /\ session'.csOffset = session.csOffset
         /\ shown' = RelayedAll(Unrelayed, d).shown
         /\ client' = [client EXCEPT !.acked = RelayedAll(Unrelayed, d).acked]
         /\ retry'.original = retry.original /\ retry'.fired = retry.fired
         /\ retry'.armed <=> retry.armed /\ ~Intercepts(d)
         /\ toServer' = toServer
<1>1. /\ RelayedAll(Unrelayed, d) \in RelayStates
      /\ RelayedAll(Unrelayed, d).session.csOffset = session.csOffset
  BY UnrelayedType, RelayedAllType DEF Unrelayed
<1>2. retry' = [retry EXCEPT !.armed = retry.armed /\ ~Intercepts(d)]
  BY DEF PassOn
<1>3. /\ retry'.original = retry.original /\ retry'.fired = retry.fired
      /\ retry'.armed <=> retry.armed /\ ~Intercepts(d)
  BY <1>2 DEF TypeOK
<1>4. QED
  BY <1>1, <1>3 DEF PassOn, Forwarded

LEMMA SuppressEffect ==
  ASSUME TypeOK, RetryInv, NEW d \in Seq(ServerSubs), d # <<>>,
         Intercepts(d), SuppressRejection(d),
         NEW n, n = d[AnswerIn(d)].seq
  PROVE  /\ n \in Nat /\ Rest(d) \in RelayStates
         /\ WithoutAnswer(d) \in Seq(ServerSubs)
         /\ session' \in Sessions
         /\ session'.seqFromServer = Larger(Rest(d).session.seqFromServer, n + 1)
         /\ session'.csOffset = session.csOffset + 1
         /\ shown' = Rest(d).shown
         /\ client' = [client EXCEPT !.acked = Rest(d).acked]
         /\ toServer' = toServer \cup {Ack(n)} \cup SubsOf(Adjust(session', retry.original))
         /\ retry'.original = retry.original /\ retry'.fired /\ ~retry'.armed
<1> DEFINE st == Rest(d)
           counted == NoteSuppressedServerPacket(st.session, n)
<1>1. /\ st \in RelayStates /\ st.session \in Sessions
      /\ st.session.csOffset = session.csOffset /\ n \in Nat
      /\ WithoutAnswer(d) \in Seq(ServerSubs)
  BY WithoutAnswerType DEF Intercepts, Rest
<1>2. Forwarded(st) /\ FireSsoRetry(st.session, n)
  BY DEF SuppressRejection, Rest
<1>3. retry.original # <<>>
  BY DEF RetryInv, RetryConsistent, Intercepts
<1> HIDE DEF st
<1>4. /\ session' = NoteInjectedClientPacket(counted)
      /\ retry' = [retry EXCEPT !.armed = FALSE, !.fired = TRUE]
      /\ toServer' = toServer
           \cup SubsOf(<<Ack(n)>> \o Adjust(NoteInjectedClientPacket(counted), retry.original))
  BY <1>2, <1>3 DEF FireSsoRetry, SendToLoginServer
<1>5. /\ counted \in Sessions /\ counted.csOffset = session.csOffset
      /\ counted.seqFromServer = Larger(st.session.seqFromServer, n + 1)
  <2>1. counted.seqFromServer = Larger(st.session.seqFromServer, n + 1)
    BY <1>1 DEF NoteSuppressedServerPacket, Sessions
  <2>2. QED
    BY <1>1, <2>1, NoteSuppressedType
<1> HIDE DEF counted
<1>6. /\ session' \in Sessions /\ session'.csOffset = session.csOffset + 1
      /\ session'.seqFromServer = counted.seqFromServer
  <2>1. session'.seqFromServer = counted.seqFromServer
    BY <1>4, <1>5 DEF NoteInjectedClientPacket, Sessions
  <2>2. QED
    BY <1>4, <1>5, <2>1, NoteInjectedType
<1>7. SubsOf(<<Ack(n)>> \o Adjust(session', retry.original))
        = {Ack(n)} \cup SubsOf(Adjust(session', retry.original))
  <2> DEFINE replay == Adjust(session', retry.original)
  <2>1. replay \in Datagrams
    BY <1>6, AdjustType DEF TypeOK
  <2>2. Ack(n) \in ClientSubs
    BY <1>1, AckType
  <2> HIDE DEF replay
  <2>3. PICK k \in Nat : Len(replay) = k /\ DOMAIN replay = 1 .. k
    BY <2>1 DEF Datagrams
  <2> DEFINE whole == <<Ack(n)>> \o replay
  <2>4. DOMAIN whole = 1 .. (k + 1) /\ whole[1] = Ack(n)
    BY <2>1, <2>2, <2>3 DEF Datagrams
  <2>5. \A i \in 1 .. k : whole[i + 1] = replay[i]
    BY <2>1, <2>2, <2>3 DEF Datagrams
  <2> HIDE DEF whole
  <2>6. SubsOf(whole) \subseteq {Ack(n)} \cup SubsOf(replay)
    <3> SUFFICES ASSUME NEW i \in 1 .. (k + 1) PROVE whole[i] \in {Ack(n)} \cup SubsOf(replay)
      BY <2>4 DEF SubsOf
    <3>1. i = 1 \/ (i - 1 \in 1 .. k /\ i = (i - 1) + 1)
      BY <2>3
    <3>2. QED
      BY <3>1, <2>3, <2>4, <2>5 DEF SubsOf
  <2>7. {Ack(n)} \cup SubsOf(replay) \subseteq SubsOf(whole)
    <3>1. Ack(n) \in SubsOf(whole)
      BY <2>3, <2>4 DEF SubsOf
    <3>2. ASSUME NEW i \in 1 .. k PROVE replay[i] \in SubsOf(whole)
      <4>1. i + 1 \in DOMAIN whole /\ whole[i + 1] = replay[i]
        BY <2>3, <2>4, <2>5
      <4>2. QED
        BY <4>1 DEF SubsOf
    <3>3. QED
      BY <3>1, <3>2, <2>3 DEF SubsOf
  <2>8. QED
    BY <2>6, <2>7 DEF whole, replay
<1>8. retry'.original = retry.original /\ retry'.fired /\ ~retry'.armed
  BY <1>4 DEF TypeOK
<1>9. QED
  BY <1>1, <1>2, <1>4, <1>5, <1>6, <1>7, <1>8 DEF Forwarded, st

(* Sub-packets the server may send now: its answers, and Acks of what it took. *)
Sent(sub) ==
  /\ sub \in ServerSubs
  /\ sub.op = "Packet" => \E i \in DOMAIN server.stream : sub = ServerPacket(i)
  /\ sub.op = "Ack" => sub.seq < server.expect /\ sub.item = "none"

SentDatagrams ==
  {d \in Seq(ServerSubs) :
     d # <<>> /\ Len(d) <= 2 /\ \A k \in DOMAIN d : Sent(d[k])}

LEMMA ServerPacketSent ==
  ASSUME TypeOK, NEW i \in DOMAIN server.stream
  PROVE  Sent(ServerPacket(i)) /\ ServerPacket(i).seq = i - 1
  BY ServerDatagramType DEF Sent, ServerPacket

LEMMA ServerAckSent ==
  ASSUME TypeOK, NEW a \in ServerAcks
  PROVE  Sent(a) /\ server.expect > 0
  BY ServerAckType DEF Sent, ServerAcks, ServerAck, TypeOK

LEMMA ServerSendsPacketSent ==
  ASSUME TypeOK, NEW i \in DOMAIN server.stream, ServerSendsPacket(i)
  PROVE  \E d \in SentDatagrams : HandleServerData(d)
<1>1. Sent(ServerPacket(i)) /\ ServerPacket(i) \in ServerSubs
  BY ServerPacketSent, ServerDatagramType
<1>2. CASE HandleServerData(<<ServerPacket(i)>>)
  <2>1. <<ServerPacket(i)>> \in SentDatagrams
    BY <1>1 DEF SentDatagrams
  <2>2. QED
    BY <1>2, <2>1
<1>3. ASSUME NEW a \in ServerAcks, HandleServerData(<<a, ServerPacket(i)>>)
      PROVE  \E d \in SentDatagrams : HandleServerData(d)
  <2>1. Sent(a) /\ a \in ServerSubs
    BY ServerAckSent, ServerAckType
  <2>2. <<a, ServerPacket(i)>> \in SentDatagrams
    BY <1>1, <2>1 DEF SentDatagrams
  <2>3. QED
    BY <1>3, <2>2
<1>4. CASE /\ i + 1 \in DOMAIN server.stream
           /\ HandleServerData(<<ServerPacket(i), ServerPacket(i + 1)>>)
  <2>1. Sent(ServerPacket(i + 1)) /\ ServerPacket(i + 1) \in ServerSubs
    BY <1>4, ServerPacketSent, ServerDatagramType
  <2>2. <<ServerPacket(i), ServerPacket(i + 1)>> \in SentDatagrams
    BY <1>1, <2>1 DEF SentDatagrams
  <2>3. QED
    BY <1>4, <2>2
<1>5. QED
  BY <1>2, <1>3, <1>4 DEF ServerSendsPacket

LEMMA ServerSendsAckSent ==
  ASSUME TypeOK, ServerSendsAck
  PROVE  server.expect > 0 /\ \E d \in SentDatagrams : HandleServerData(d)
<1>1. PICK a \in ServerAcks : HandleServerData(<<a>>)
  BY DEF ServerSendsAck
<1>2. <<a>> \in SentDatagrams /\ server.expect > 0
  BY ServerAckSent, ServerAckType DEF SentDatagrams
<1>3. QED
  BY <1>1, <1>2

LEMMA WithoutAnswerSent ==
  ASSUME TypeOK, NEW d \in SentDatagrams, AnswerIn(d) # 0
  PROVE  /\ WithoutAnswer(d) \in Seq(ServerSubs)
         /\ \A k \in DOMAIN WithoutAnswer(d) :
              \E j \in DOMAIN d : j # AnswerIn(d) /\ WithoutAnswer(d)[k] = d[j]
<1>1. d \in Seq(ServerSubs) /\ d # <<>>
  BY DEF SentDatagrams
<1>2. PICK n \in Nat : Len(d) = n /\ DOMAIN d = 1 .. n
  BY <1>1
<1>3. n >= 1
  BY <1>1, <1>2
<1>4. WithoutAnswer(d) \in Seq(ServerSubs)
  BY <1>1, WithoutAnswerType
<1>5. CASE n = 1
  BY <1>2, <1>4, <1>5 DEF WithoutAnswer
<1>6. CASE n # 1
  <2>1. AnswerIn(d) \in {1, 2}
    BY DEF AnswerIn
  <2>2. 3 - AnswerIn(d) \in DOMAIN d /\ 3 - AnswerIn(d) # AnswerIn(d)
    BY <1>2, <1>3, <1>6, <2>1
  <2>3. WithoutAnswer(d) = <<d[3 - AnswerIn(d)]>>
    BY <1>2, <1>6 DEF WithoutAnswer
  <2> HIDE DEF AnswerIn
  <2>4. QED
    BY <1>4, <2>2, <2>3
<1>7. QED
  BY <1>5, <1>6

----------------------------------------------------------------------------
(* One replay in a session *)

(* RetryAtMostOnce is not inductive alone: cs_offset stays at one because    *)
(* after a replay nothing is being authenticated and nothing arms the retry. *)
(* Only the Login starts an authentication, and it is issued once.           *)
OnceInv ==
  /\ RetryAtMostOnce
  /\ ~client.open \/ client.next < 2 =>
       session.csOffset = 0 /\ auth = <<>> /\ ~retry.armed
  /\ auth # <<>> \/ retry.armed => session.csOffset = 0
  /\ auth # <<>> => ~retry.armed

LEMMA ClientDataOnce ==
  ASSUME TypeOK, OnceInv, NEW n \in Nat, n = client.next,
         NEW d, HandleClientData(d), client.open, client'.open,
         client'.next \in {n, n + 1}, NeedsSso(d) => n = 1 /\ client'.next = n + 1
  PROVE  OnceInv'
<1>1. /\ session'.csOffset = session.csOffset \/ session'.csOffset = 0
      /\ retry'.armed => retry.armed
  BY DEF HandleClientData, CurrentSession, CurrentRetry, NewSession, NoRetry
<1>2. session.csOffset \in Nat
  BY DEF TypeOK, Sessions
<1>3. auth' # <<>> => auth # <<>> \/ (n = 1 /\ client'.next = n + 1)
  <2>1. auth' = auth \/ NeedsSso(d)
    BY DEF HandleClientData, DropLogin, StartAuth, ForwardClientData
  <2>2. QED
    BY <2>1
<1>4. QED
  BY <1>1, <1>2, <1>3 DEF OnceInv, RetryAtMostOnce

LEMMA ServerDataOnce ==
  ASSUME TypeOK, RetryInv, OnceInv, NEW d \in Seq(ServerSubs), d # <<>>,
         HandleServerData(d)
  PROVE  OnceInv'
<1>1. UNCHANGED auth
  BY DEF HandleServerData
<1>2. CASE PassOn(d)
  <2>1. /\ session'.csOffset = session.csOffset
        /\ retry'.armed => retry.armed
    BY <1>2, PassOnEffect
  <2>2. client' = [client EXCEPT !.acked = RelayedAll(Unrelayed, d).acked]
    BY <1>2, PassOnEffect
  <2>3. client'.open = client.open /\ client'.next = client.next
    BY <2>2 DEF TypeOK
  <2>4. QED
    BY <1>1, <2>1, <2>3 DEF OnceInv, RetryAtMostOnce
<1>3. CASE Intercepts(d) /\ SuppressRejection(d)
  <2>1. /\ session'.csOffset = session.csOffset + 1 /\ ~retry'.armed
        /\ client' = [client EXCEPT !.acked = Rest(d).acked]
    BY <1>3, SuppressEffect
  <2>2. client'.open = client.open /\ client'.next = client.next
    BY <2>1 DEF TypeOK
  <2>3. retry.armed
    BY <1>3 DEF Intercepts
  <2>4. QED
    BY <1>1, <2>1, <2>2, <2>3 DEF OnceInv, RetryAtMostOnce
<1>4. QED
  BY <1>2, <1>3 DEF HandleServerData

LEMMA OnceStep ==
  ASSUME ~Impatient, ~ClientRetransmits
  PROVE  TypeOK /\ RetryInv /\ OnceInv /\ [Next]_vars => OnceInv'
<1> SUFFICES ASSUME TypeOK, RetryInv, OnceInv, [Next]_vars PROVE OnceInv'
  OBVIOUS
<1>1. CASE ClientIssues
  <2>1. client.open /\ client'.open /\ client'.next = client.next + 1
    BY <1>1 DEF ClientIssues, TypeOK
  <2>2. PICK d \in ClientDatagrams(client.next) : HandleClientData(d)
    BY <1>1 DEF ClientIssues
  <2>3. client.next \in Nat
    BY DEF TypeOK
  <2>4. QED
    BY <2>1, <2>2, <2>3, LoginIsSecond, ClientDataOnce
<1>2. CASE ClientRepeats
  BY <1>2 DEF ClientRepeats
<1>3. CASE ClientAcks
  <2>1. ~NeedsSso(<<ClientAck>>)
    BY DEF NeedsSso
  <2>2. client.next \in Nat /\ client' = client /\ client.open
    BY <1>3 DEF ClientAcks, clientVars, TypeOK
  <2>3. HandleClientData(<<ClientAck>>)
    BY <1>3 DEF ClientAcks
  <2>4. QED
    BY <2>1, <2>2, <2>3, ClientDataOnce
<1>4. CASE ClientKeepsAlive
  BY <1>4 DEF ClientKeepsAlive, clientVars, CurrentSession, CurrentRetry, NewSession,
              NoRetry, OnceInv, RetryAtMostOnce
<1>5. CASE ClientConnects
  <2>1. ~client.open /\ auth' = <<>> /\ ~client'.open
    BY <1>5 DEF ClientConnects
  <2>2. session'.csOffset = 0 /\ ~retry'.armed
    BY <1>5, <2>1 DEF ClientConnects, CurrentSession, CurrentRetry, NewSession, NoRetry,
                      OnceInv
  <2>3. QED
    BY <2>1, <2>2 DEF OnceInv, RetryAtMostOnce
<1>6. CASE ClientDisconnects
  <2>1. auth' = <<>> /\ session'.csOffset = 0 /\ ~retry'.armed
    BY <1>6 DEF ClientDisconnects, NewSession, NoRetry
  <2>2. QED
    BY <2>1 DEF OnceInv, RetryAtMostOnce
<1>7. CASE ClientIdles
  BY <1>7 DEF ClientIdles, clientVars, OnceInv, RetryAtMostOnce
<1>8. CASE AuthEnds
  BY <1>8 DEF AuthEnds, AuthSucceeds, AuthFails, clientVars, OnceInv, RetryAtMostOnce
<1>9. ASSUME NEW i \in DOMAIN server.stream, ServerSendsPacket(i)
      PROVE  OnceInv'
  BY <1>9, ServerSendsPacketData, ServerDataOnce
<1>10. ASSUME NEW i \in DOMAIN server.stream, ServerSendsFragment(i)
       PROVE  OnceInv'
  <2>1. PICK f \in Fragments : HandleFragment(f)
    BY <1>10, ServerSendsFragmentData
  <2>2. session'.csOffset = session.csOffset
    BY <2>1, RecvFragmentType DEF HandleFragment, TypeOK
  <2>3. QED
    BY <2>1, <2>2 DEF HandleFragment, OnceInv, RetryAtMostOnce
<1>11. CASE ServerSendsAck
  <2>1. PICK d \in SentDatagrams : HandleServerData(d)
    BY <1>11, ServerSendsAckSent
  <2>2. QED
    BY <2>1, ServerDataOnce DEF SentDatagrams
<1>12. CASE ServerResponds
  <2>1. session'.csOffset = 0 /\ ~retry'.armed /\ auth' = auth
    BY <1>12 DEF ServerResponds, NewSession, NoRetry
  <2>2. client'.next = client.next
    BY <1>12 DEF ServerResponds, TypeOK
  <2>3. client'.open
    BY <1>12 DEF ServerResponds, TypeOK
  <2>4. QED
    BY <2>1, <2>2, <2>3 DEF OnceInv, RetryAtMostOnce
<1>13. CASE ServerReceives
  BY <1>13 DEF ServerReceives, proxyVars, clientVars, OnceInv, RetryAtMostOnce
<1>14. CASE UNCHANGED vars
  BY <1>14 DEF vars, proxyVars, clientVars, OnceInv, RetryAtMostOnce
<1>15. QED
  BY <1>1, <1>2, <1>3, <1>4, <1>5, <1>6, <1>7, <1>8, <1>9, <1>10, <1>11, <1>12,
     <1>13, <1>14
  DEF Next, ClientStep, ServerSends

(* For a client that waits for its authentication and does not repeat its    *)
(* Login, one rejected SSO password is replayed once in a session, whatever  *)
(* the network does with the server's datagrams and however often a session  *)
(* lapses or is answered: _fire_sso_retry disarms, and nothing arms again.   *)
THEOREM OneReplay ==
  ASSUME ~Impatient, ~ClientRetransmits
  PROVE  Spec => []RetryAtMostOnce
<1>1. Init => RetryInv /\ OnceInv
  BY DEF Init, NoRetry, NewSession, RetryInv, RetryConsistent, AuthIsLogin, OnceInv,
         RetryAtMostOnce
<1>2. OnceInv => RetryAtMostOnce
  BY DEF OnceInv
<1>3. TypeOK /\ RetryInv /\ OnceInv /\ [Next]_vars => OnceInv'
  BY OnceStep
<1>4. QED
  BY <1>1, <1>2, <1>3, TypeCorrect, RetryStep, PTL DEF Spec

----------------------------------------------------------------------------
(* What relaying preserves: nothing is counted, acknowledged or shown that   *)
(* the server has not sent.                                                  *)

FromServer(st) ==
  /\ st.session.seqFromServer <= Len(server.stream)
  /\ st.shown # <<>> => Len(server.stream) > 0
  /\ \A i \in DOMAIN st.shown :
       \/ st.shown[i].item = "List"
       \/ \E j \in DOMAIN server.stream : server.stream[j] = st.shown[i].item

(* No packet carrying this item has been shown. *)
Unseen(st, item) == \A i \in DOMAIN st.shown : st.shown[i].item # item

LEMMA AppendItems ==
  ASSUME NEW s \in Seq(ShownPackets), NEW p \in ShownPackets
  PROVE  /\ DOMAIN Append(s, p) = 1 .. (Len(s) + 1)
         /\ \A i \in DOMAIN s : i \in DOMAIN Append(s, p) /\ Append(s, p)[i] = s[i]
         /\ \A i \in DOMAIN Append(s, p) : i \in DOMAIN s \/ Append(s, p)[i] = p
         /\ Append(s, p) # <<>>
         /\ Append(s, p)[Len(s) + 1] = p
<1>1. PICK n \in Nat : Len(s) = n /\ DOMAIN s = 1 .. n
  OBVIOUS
<1>2. QED
  BY <1>1

LEMMA StreamDomain ==
  ASSUME TypeOK
  PROVE  \E m \in Nat : Len(server.stream) = m /\ DOMAIN server.stream = 1 .. m
<1>1. server.stream \in Seq(ServerItems)
  BY DEF TypeOK
<1>2. QED
  BY <1>1

LEMMA RelayedParts ==
  ASSUME NEW st \in RelayStates, NEW sub \in ServerSubs
  PROVE  \/ /\ sub.op = "Ack"
            /\ Relayed(st, sub).session = st.session
            /\ Relayed(st, sub).shown = st.shown
            /\ Relayed(st, sub).acked
                 = Larger(st.acked, AdjustServerAck(st.session, sub.seq))
         \/ /\ sub.op = "Packet"
            /\ Relayed(st, sub).session = RewriteServerPacket(st.session, sub.seq)
            /\ Relayed(st, sub).session.seqFromServer
                 = IF sub.seq = st.session.seqFromServer
                     THEN st.session.seqFromServer + 1 ELSE st.session.seqFromServer
            /\ \E p \in ShownPackets :
                 p.item = sub.item /\ Relayed(st, sub).shown = Append(st.shown, p)
            /\ Relayed(st, sub).acked = st.acked
<1>1. CASE sub.op = "Ack"
  BY <1>1 DEF Relayed, RelayStates
<1>2. CASE sub.op # "Ack"
  <2> DEFINE packet == [seq |-> st.session.seqToClient, item |-> sub.item]
             new == RewriteServerPacket(st.session, sub.seq)
  <2>1. sub.op = "Packet" /\ st.session \in Sessions /\ sub.seq \in Nat
    BY <1>2 DEF RelayStates, ServerSubs
  <2>2. packet \in ShownPackets
    BY <1>2, <2>1 DEF ShownPackets, Sessions, ServerSubs
  <2>3. new.seqFromServer = IF sub.seq = st.session.seqFromServer
                              THEN st.session.seqFromServer + 1
                              ELSE st.session.seqFromServer
    BY <2>1 DEF RewriteServerPacket, Sessions
  <2>4. Relayed(st, sub) = [st EXCEPT !.session = new, !.shown = Append(st.shown, packet)]
    BY <1>2 DEF Relayed
  <2>5. packet.item = sub.item
    OBVIOUS
  <2> HIDE DEF packet, new
  <2>6. /\ Relayed(st, sub).session = new
        /\ Relayed(st, sub).shown = Append(st.shown, packet)
        /\ Relayed(st, sub).acked = st.acked
    BY <2>4 DEF RelayStates
  <2>7. QED
    BY <2>1, <2>2, <2>3, <2>5, <2>6 DEF new
<1>3. QED
  BY <1>1, <1>2

LEMMA RelayedFromServer ==
  ASSUME TypeOK, NEW st \in RelayStates, FromServer(st), NEW sub, Sent(sub)
  PROVE  FromServer(Relayed(st, sub))
<1>1. sub \in ServerSubs
  BY DEF Sent
<1>2. CASE sub.op = "Ack"
  BY <1>1, <1>2, RelayedParts DEF FromServer
<1>3. CASE sub.op = "Packet"
  <2>1. PICK j \in DOMAIN server.stream : sub = ServerPacket(j)
    BY <1>3 DEF Sent
  <2>2. /\ Relayed(st, sub).session.seqFromServer
             = IF sub.seq = st.session.seqFromServer
                 THEN st.session.seqFromServer + 1 ELSE st.session.seqFromServer
        /\ \E p \in ShownPackets :
             p.item = sub.item /\ Relayed(st, sub).shown = Append(st.shown, p)
    BY <1>1, <1>3, RelayedParts
  <2>3. PICK p \in ShownPackets :
          p.item = sub.item /\ Relayed(st, sub).shown = Append(st.shown, p)
    BY <2>2
  <2>4. PICK m \in Nat : Len(server.stream) = m /\ DOMAIN server.stream = 1 .. m
    BY StreamDomain
  <2>5. j \in 1 .. m /\ sub.seq = j - 1 /\ sub.item = server.stream[j]
    BY <2>1, <2>4 DEF ServerPacket
  <2>6. st.session.seqFromServer \in Nat /\ st.shown \in Seq(ShownPackets)
    BY DEF RelayStates, Sessions
  <2>7. Relayed(st, sub).session.seqFromServer <= Len(server.stream)
    BY <2>2, <2>4, <2>5, <2>6 DEF FromServer
  <2>8. \A i \in DOMAIN Relayed(st, sub).shown :
          \/ Relayed(st, sub).shown[i].item = "List"
          \/ \E k \in DOMAIN server.stream :
               server.stream[k] = Relayed(st, sub).shown[i].item
    BY <2>1, <2>3, <2>5, <2>6, AppendItems DEF FromServer
  <2>9. QED
    BY <2>4, <2>5, <2>7, <2>8 DEF FromServer
<1>4. QED
  BY <1>1, <1>2, <1>3 DEF ServerSubs

LEMMA RelayedUnseen ==
  ASSUME NEW st \in RelayStates, NEW sub \in ServerSubs, NEW item, Unseen(st, item),
         sub.item # item
  PROVE  Unseen(Relayed(st, sub), item)
<1>1. CASE sub.op = "Ack"
  BY <1>1, RelayedParts DEF Unseen
<1>2. CASE sub.op = "Packet"
  <2>1. PICK p \in ShownPackets :
          p.item = sub.item /\ Relayed(st, sub).shown = Append(st.shown, p)
    BY <1>2, RelayedParts
  <2>2. st.shown \in Seq(ShownPackets)
    BY DEF RelayStates
  <2>3. QED
    BY <2>1, <2>2, AppendItems DEF Unseen
<1>3. QED
  BY <1>1, <1>2 DEF ServerSubs

(* A relayed datagram is relayed one sub-packet after the other. *)
LEMMA RelayedAllSteps ==
  ASSUME NEW st \in RelayStates, NEW d \in Seq(ServerSubs)
  PROVE  \/ d = <<>> /\ RelayedAll(st, d) = st
         \/ /\ 1 \in DOMAIN d /\ d[1] \in ServerSubs /\ Len(d) = 1
            /\ RelayedAll(st, d) = Relayed(st, d[1])
         \/ /\ 1 \in DOMAIN d /\ d[1] \in ServerSubs
            /\ 2 \in DOMAIN d /\ d[2] \in ServerSubs
            /\ Relayed(st, d[1]) \in RelayStates
            /\ RelayedAll(st, d) = Relayed(Relayed(st, d[1]), d[2])
<1>1. PICK n \in Nat : Len(d) = n /\ DOMAIN d = 1 .. n
  OBVIOUS
<1>2. CASE n = 0
  BY <1>1, <1>2 DEF RelayedAll
<1>3. CASE n = 1
  BY <1>1, <1>3 DEF RelayedAll
<1>4. CASE n >= 2
  <2>1. 1 \in DOMAIN d /\ 2 \in DOMAIN d /\ d[1] \in ServerSubs /\ d[2] \in ServerSubs
    BY <1>1, <1>4
  <2>2. Relayed(st, d[1]) \in RelayStates
    BY <2>1, RelayedType
  <2>3. RelayedAll(st, d) = Relayed(Relayed(st, d[1]), d[2])
    BY <1>1, <1>4 DEF RelayedAll
  <2>4. QED
    BY <2>1, <2>2, <2>3
<1>5. QED
  BY <1>1, <1>2, <1>3, <1>4

LEMMA RelayedAllFromServer ==
  ASSUME TypeOK, NEW st \in RelayStates, FromServer(st),
         NEW d \in Seq(ServerSubs), \A k \in DOMAIN d : Sent(d[k])
  PROVE  FromServer(RelayedAll(st, d))
  BY RelayedAllSteps, RelayedFromServer

LEMMA RelayedAllUnseen ==
  ASSUME NEW st \in RelayStates, NEW d \in Seq(ServerSubs), NEW item, Unseen(st, item),
         \A k \in DOMAIN d : d[k].item # item
  PROVE  Unseen(RelayedAll(st, d), item)
  BY RelayedAllSteps, RelayedUnseen

----------------------------------------------------------------------------
(* What forwarding to the server preserves *)

LEMMA AdjustedSubs ==
  ASSUME NEW s \in Sessions, NEW d \in Datagrams, NEW i \in DOMAIN d
  PROVE  /\ DOMAIN Adjust(s, d) = DOMAIN d
         /\ Adjust(s, d)[i].op = d[i].op /\ Adjust(s, d)[i].kind = d[i].kind
         /\ Adjust(s, d)[i].cred = d[i].cred /\ Adjust(s, d)[i].sess = d[i].sess
         /\ Adjust(s, d)[i] \in ClientSubs /\ d[i] \in ClientSubs
         /\ d[i].op = "Ack" => Adjust(s, d)[i].seq = RewriteAck(s)
         /\ d[i].op = "Packet" => Adjust(s, d)[i].seq = ShiftPacketSeq(s, d[i].seq)
<1>1. d[i] \in ClientSubs
  BY DEF Datagrams
<1>2. Adjust(s, d)[i] = AdjustSub(s, d[i]) /\ DOMAIN Adjust(s, d) = DOMAIN d
  BY DEF Adjust
<1>3. AdjustSub(s, d[i]) \in ClientSubs
  BY <1>1, AdjustSubType
<1>4. /\ AdjustSub(s, d[i]).op = d[i].op /\ AdjustSub(s, d[i]).kind = d[i].kind
      /\ AdjustSub(s, d[i]).cred = d[i].cred /\ AdjustSub(s, d[i]).sess = d[i].sess
      /\ d[i].op = "Ack" => AdjustSub(s, d[i]).seq = RewriteAck(s)
      /\ d[i].op = "Packet" => AdjustSub(s, d[i]).seq = ShiftPacketSeq(s, d[i].seq)
  BY <1>1 DEF AdjustSub, ClientSubs
<1>5. QED
  BY <1>1, <1>2, <1>3, <1>4

LEMMA CredentialSubs ==
  ASSUME NEW d \in Datagrams, NEW c \in Creds, NEW i \in DOMAIN d
  PROVE  /\ DOMAIN WithCredentials(d, c) = DOMAIN d
         /\ WithCredentials(d, c)[i] \in ClientSubs
         /\ WithCredentials(d, c)[i].op = d[i].op
         /\ WithCredentials(d, c)[i].seq = d[i].seq
         /\ WithCredentials(d, c)[i].kind = d[i].kind
         /\ WithCredentials(d, c)[i].sess = d[i].sess
         /\ WithCredentials(d, c)[i].cred \in {d[i].cred, c}
<1>1. d[i] \in ClientSubs
  BY DEF Datagrams
<1>2. WithCredentials(d, c)[i]
        = IF d[i].kind = "Login" THEN [d[i] EXCEPT !.cred = c] ELSE d[i]
  BY DEF WithCredentials
<1>3. DOMAIN WithCredentials(d, c) = DOMAIN d
  BY DEF WithCredentials
<1>4. QED
  BY <1>1, <1>2, <1>3 DEF ClientSubs

LEMMA RewrittenSubs ==
  ASSUME NEW d \in Datagrams, NEW i \in DOMAIN d
  PROVE  /\ DOMAIN SyncRewrite(d) = DOMAIN d
         /\ SyncRewrite(d)[i].op = d[i].op
         /\ SyncRewrite(d)[i].seq = d[i].seq
         /\ SyncRewrite(d)[i].kind = d[i].kind
         /\ SyncRewrite(d)[i].cred \in {d[i].cred, "local"}
  BY CredentialSubs DEF SyncRewrite, Creds

----------------------------------------------------------------------------
(* The server is told only of what it has sent *)

(* Between two sessions nothing is on its way in either direction. *)
Apart ==
  ~client.open =>
    /\ auth = <<>> /\ shown = <<>> /\ toServer = {}
    /\ ~server.up /\ server.stream = <<>> /\ server.expect = 0

AcksBelow(subs, n) == \A m \in subs : m.op = "Ack" => m.seq < n

AckInv ==
  /\ Apart
  /\ FromServer(Unrelayed)
  /\ AcksBelow(toServer, Len(server.stream))
  /\ AcksBelow(SubsOf(auth), Len(server.stream))

LEMMA NewSessionFromServer ==
  ASSUME TypeOK, AckInv
  PROVE  CurrentSession.seqFromServer <= Len(server.stream)
<1>1. PICK n \in Nat : Len(server.stream) = n
  BY StreamDomain
<1>2. QED
  BY <1>1 DEF AckInv, FromServer, Unrelayed, CurrentSession, NewSession

LEMMA AckRewritten ==
  ASSUME TypeOK, NEW s \in Sessions, s.seqFromServer <= Len(server.stream),
         NEW d \in Datagrams,
         (\E i \in DOMAIN d : d[i].op = "Ack") => Len(server.stream) > 0
  PROVE  AcksBelow(SubsOf(Adjust(s, d)), Len(server.stream))
<1> SUFFICES ASSUME NEW i \in DOMAIN Adjust(s, d), Adjust(s, d)[i].op = "Ack"
             PROVE  Adjust(s, d)[i].seq < Len(server.stream)
  BY DEF AcksBelow, SubsOf
<1>1. i \in DOMAIN d
  BY DEF Adjust
<1>2. d[i].op = "Ack" => Adjust(s, d)[i].seq = RewriteAck(s)
  BY <1>1, AdjustedSubs
<1>3. d[i].op = "Ack"
  BY <1>1, AdjustType
<1>4. PICK n \in Nat : Len(server.stream) = n
  BY StreamDomain
<1>5. n > 0 /\ s.seqFromServer <= n /\ s.seqFromServer \in Nat
  BY <1>1, <1>3, <1>4 DEF Sessions
<1>6. QED
  BY <1>2, <1>3, <1>4, <1>5 DEF RewriteAck, Monus

LEMMA SyncAcks ==
  ASSUME NEW d \in Datagrams, NEW n, AcksBelow(SubsOf(d), n)
  PROVE  AcksBelow(SubsOf(SyncRewrite(d)), n)
<1>1. DOMAIN SyncRewrite(d) = DOMAIN d
  BY DEF SyncRewrite, WithCredentials
<1>2. QED
  BY <1>1, RewrittenSubs DEF AcksBelow, SubsOf

LEMMA CredentialAcks ==
  ASSUME NEW d \in Datagrams, NEW c \in Creds, NEW n, AcksBelow(SubsOf(d), n)
  PROVE  AcksBelow(SubsOf(WithCredentials(d, c)), n)
<1>1. DOMAIN WithCredentials(d, c) = DOMAIN d
  BY DEF WithCredentials
<1>2. QED
  BY <1>1, CredentialSubs DEF AcksBelow, SubsOf

LEMMA ClientDataAcks ==
  ASSUME TypeOK, AckInv, NEW d \in Datagrams, HandleClientData(d), UNCHANGED shown,
         client.open, client'.open,
         (\E i \in DOMAIN d : d[i].op = "Ack") => shown # <<>>
  PROVE  AckInv'
<1>1. Apart'
  BY DEF Apart
<1>2. UNCHANGED server /\ session' = CurrentSession
  BY DEF HandleClientData
<1>3. FromServer(Unrelayed)'
  <2>1. session'.seqFromServer <= Len(server.stream)
    BY <1>2, NewSessionFromServer
  <2>2. QED
    BY <1>2, <2>1 DEF FromServer, Unrelayed, AckInv
<1>4. AcksBelow(SubsOf(Adjust(CurrentSession, d)), Len(server.stream))
  <2>1. (\E i \in DOMAIN d : d[i].op = "Ack") => Len(server.stream) > 0
    BY DEF AckInv, FromServer, Unrelayed
  <2>2. QED
    BY <2>1, CurrentType, NewSessionFromServer, AckRewritten
<1>5. CASE DropLogin(d)
  BY <1>1, <1>2, <1>3, <1>5 DEF DropLogin, AckInv
<1>6. CASE StartAuth(d)
  BY <1>1, <1>2, <1>3, <1>4, <1>6 DEF StartAuth, AckInv
<1>7. CASE ForwardClientData(d)
  <2>1. AcksBelow(SubsOf(SyncRewrite(Adjust(CurrentSession, d))), Len(server.stream))
    BY <1>4, CurrentType, AdjustType, SyncAcks
  <2>2. auth' = auth /\ toServer'
          = toServer \cup SubsOf(SyncRewrite(Adjust(CurrentSession, d)))
    BY <1>7 DEF ForwardClientData, SendToLoginServer
  <2>3. QED
    BY <1>1, <1>2, <1>3, <2>1, <2>2 DEF AckInv, AcksBelow
<1>8. QED
  BY <1>5, <1>6, <1>7 DEF HandleClientData

LEMMA AnswerIsSent ==
  ASSUME TypeOK, NEW d \in SentDatagrams, Intercepts(d)
  PROVE  /\ AnswerIn(d) \in DOMAIN d
         /\ \E j \in DOMAIN server.stream :
              /\ d[AnswerIn(d)] = ServerPacket(j)
              /\ d[AnswerIn(d)].seq = j - 1
              /\ server.stream[j] = d[AnswerIn(d)].item
              /\ server.stream[j] \in LoginAnswers
<1>1. d \in Seq(ServerSubs) /\ d # <<>> /\ AnswerIn(d) # 0
  BY DEF SentDatagrams, Intercepts
<1>2. AnswerIn(d) \in DOMAIN d /\ d[AnswerIn(d)].item \in LoginAnswers
  BY <1>1, AnswerInType
<1>3. Sent(d[AnswerIn(d)])
  BY <1>2 DEF SentDatagrams
<1>4. d[AnswerIn(d)].op = "Packet"
  BY <1>2, <1>3 DEF Sent, ServerSubs, LoginAnswers, Rejections
<1>5. QED
  BY <1>2, <1>3, <1>4 DEF Sent, ServerPacket

LEMMA ServerDataAcks ==
  ASSUME TypeOK, RetryInv, AckInv, client.open, NEW d \in SentDatagrams, HandleServerData(d)
  PROVE  AckInv'
<1>1. UNCHANGED <<auth, server>> /\ d \in Seq(ServerSubs) /\ d # <<>>
  BY DEF HandleServerData, SentDatagrams
<1>2. Unrelayed \in RelayStates /\ FromServer(Unrelayed)
  BY UnrelayedType DEF AckInv
<1>3. CASE PassOn(d)
  <2> DEFINE st == RelayedAll(Unrelayed, d)
  <2>1. FromServer(st)
    BY <1>1, <1>2, RelayedAllFromServer DEF SentDatagrams
  <2>2. session' = st.session /\ shown' = st.shown /\ toServer' = toServer
        /\ client' = [client EXCEPT !.acked = st.acked]
    BY <1>1, <1>3, PassOnEffect
  <2> HIDE DEF st
  <2>3. client'.open
    BY <2>2 DEF TypeOK
  <2>4. FromServer(Unrelayed)'
    BY <1>1, <2>1, <2>2 DEF FromServer, Unrelayed
  <2>5. QED
    BY <1>1, <2>2, <2>3, <2>4 DEF AckInv, Apart, AcksBelow
<1>4. CASE Intercepts(d) /\ SuppressRejection(d)
  <2> DEFINE n == d[AnswerIn(d)].seq
  <2>1. /\ n \in Nat /\ Rest(d) \in RelayStates
        /\ WithoutAnswer(d) \in Seq(ServerSubs)
        /\ session' \in Sessions
        /\ session'.seqFromServer = Larger(Rest(d).session.seqFromServer, n + 1)
        /\ shown' = Rest(d).shown
        /\ client' = [client EXCEPT !.acked = Rest(d).acked]
        /\ toServer' = toServer \cup {Ack(n)} \cup SubsOf(Adjust(session', retry.original))
    BY <1>1, <1>4, SuppressEffect
  <2>2. FromServer(Rest(d))
    <3>1. \A k \in DOMAIN WithoutAnswer(d) : Sent(WithoutAnswer(d)[k])
      BY <1>4, WithoutAnswerSent DEF SentDatagrams, Intercepts
    <3>2. QED
      BY <1>2, <2>1, <3>1, RelayedAllFromServer DEF Rest
  <2>3. PICK j \in DOMAIN server.stream : n = j - 1
    BY <1>4, AnswerIsSent
  <2>4. PICK m \in Nat : Len(server.stream) = m /\ DOMAIN server.stream = 1 .. m
    BY StreamDomain
  <2>5. n < m /\ m > 0
    BY <2>1, <2>3, <2>4
  <2>6. session'.seqFromServer <= m
    BY <2>1, <2>2, <2>4, <2>5 DEF Larger, FromServer, RelayStates, Sessions
  <2>7. FromServer(Unrelayed)'
    BY <1>1, <2>1, <2>2, <2>4, <2>6 DEF FromServer, Unrelayed
  <2>8. AcksBelow(SubsOf(Adjust(session', retry.original)), Len(server.stream))
    BY <2>1, <2>4, <2>5, <2>6, AckRewritten DEF TypeOK
  <2>9. AcksBelow({Ack(n)}, Len(server.stream))
    BY <2>4, <2>5 DEF AcksBelow, Ack
  <2>10. client'.open
    BY <2>1 DEF TypeOK
  <2> HIDE DEF n
  <2>11. QED
    BY <1>1, <2>1, <2>7, <2>8, <2>9, <2>10 DEF AckInv, Apart, AcksBelow
<1>5. QED
  BY <1>3, <1>4 DEF HandleServerData

(* A fragment moves seq_from_server to the one after it, if at all. *)
LEMMA FragmentCounted ==
  ASSUME NEW s \in Sessions, NEW f \in Fragments
  PROVE  RecvFragment(s, f).seqFromServer = (f.seq + 1) % SeqMod
<1> DEFINE following == (f.seq + 1) % SeqMod
<1>1. \A t : [s EXCEPT !.seqFromServer = following].seqFromServer = following
  BY DEF Sessions
<1>2. \A asm, pending, to :
        /\ [s EXCEPT !.seqFromServer = following, !.asm = asm,
                     !.pendingList = pending].seqFromServer = following
        /\ [s EXCEPT !.seqFromServer = following, !.asm = asm, !.pendingList = pending,
                     !.seqToClient = to].seqFromServer = following
  BY DEF Sessions
<1> HIDE DEF following
<1>3. CASE HeaderUnreadable(s, f)
  <2>1. ~Completes(s, f)
    BY <1>3 DEF Completes
  <2>2. RecvFragment(s, f) = [s EXCEPT !.seqFromServer = following]
    BY <1>3, <2>1, Zenon DEF RecvFragment, following
  <2>3. QED
    BY <1>1, <2>2 DEF following
<1>4. CASE ~HeaderUnreadable(s, f) /\ Completes(s, f)
  <2>1. RecvFragment(s, f) =
          [s EXCEPT !.seqFromServer = following, !.asm = Idle, !.pendingList = FALSE,
                    !.seqToClient = IF PendingList(s, f) THEN s.seqToClient + 1
                                    ELSE s.seqToClient]
    BY <1>4, Zenon DEF RecvFragment, following
  <2>2. QED
    BY <1>2, <2>1 DEF following
<1>5. CASE ~HeaderUnreadable(s, f) /\ ~Completes(s, f)
  <2>1. RecvFragment(s, f) =
          [s EXCEPT !.seqFromServer = following, !.asm = Add(s.asm, f),
                    !.pendingList = PendingList(s, f)]
    BY <1>5, Zenon DEF RecvFragment, following
  <2>2. QED
    BY <1>2, <2>1 DEF following
<1>6. QED
  BY <1>3, <1>4, <1>5

(* Counting modulo 2^16 never runs ahead of counting. *)
LEMMA ModAtMost ==
  ASSUME NEW n \in Nat
  PROVE  n % SeqMod \in Nat /\ n % SeqMod <= n /\ n % SeqMod < SeqMod
  BY SeqModAssumption

LEMMA FragmentAtMost ==
  ASSUME NEW i \in Nat, i > 0
  PROVE  (((i - 1) % SeqMod) + 1) % SeqMod <= i
<1>1. i - 1 \in Nat
  OBVIOUS
<1>2. PICK k \in Nat : k = (i - 1) % SeqMod /\ k <= i - 1
  BY <1>1, ModAtMost
<1>3. (k + 1) % SeqMod <= k + 1 /\ (k + 1) % SeqMod \in Nat
  BY ModAtMost
<1>4. QED
  BY <1>2, <1>3

LEMMA FragmentAcks ==
  ASSUME TypeOK, AckInv, NEW i \in DOMAIN server.stream, ServerSendsFragment(i)
  PROVE  AckInv'
<1>1. PICK total \in IF server.stream[i] = "Head" THEN {NFrags} ELSE GarbageTotals :
        HandleFragment(ServerFragment(i, total))
  BY DEF ServerSendsFragment
<1>2. total \in Nat
  BY <1>1, ProxyAssumption
<1> DEFINE f == ServerFragment(i, total)
<1>3. f \in Fragments /\ f.seq = (i - 1) % SeqMod
  BY <1>2, ServerFragmentType DEF ServerFragment
<1>4. session' = RecvFragment(session, f) /\ session \in Sessions
  BY <1>1 DEF HandleFragment, TypeOK
<1>5. PICK m \in Nat : Len(server.stream) = m /\ DOMAIN server.stream = 1 .. m
  BY StreamDomain
<1>6. session'.seqFromServer = (((i - 1) % SeqMod) + 1) % SeqMod
  BY <1>3, <1>4, FragmentCounted
<1>7. session'.seqFromServer <= i
  BY <1>5, <1>6, FragmentAtMost
<1>8. (((i - 1) % SeqMod) + 1) % SeqMod \in Nat
  BY <1>5, ModAtMost
<1>9. session'.seqFromServer <= m /\ m > 0
  BY <1>5, <1>6, <1>7, <1>8
<1>10. UNCHANGED <<auth, client, server, toServer>>
       /\ (shown' = shown \/ shown' = Append(shown, [seq |-> session.seqToClient, item |-> "List"]))
  BY <1>1 DEF HandleFragment
<1>11. \A k \in DOMAIN shown' : shown'[k].item = "List" \/ (k \in DOMAIN shown /\ shown'[k] = shown[k])
  <2>1. [seq |-> session.seqToClient, item |-> "List"] \in ShownPackets
        /\ shown \in Seq(ShownPackets)
    BY DEF TypeOK, Sessions, ShownPackets
  <2>2. QED
    BY <1>10, <2>1, AppendItems
<1>12. FromServer(Unrelayed)'
  BY <1>5, <1>9, <1>10, <1>11 DEF AckInv, FromServer, Unrelayed
<1>13. client.open
  BY <1>5 DEF AckInv, Apart
<1>14. QED
  BY <1>10, <1>12, <1>13 DEF AckInv, Apart

(* The server's answers only grow while a session lasts. *)
LEMMA ReceivesEffect ==
  ASSUME TypeOK, ServerReceives
  PROVE  \E m \in toServer : \E answer \in Answers(m) :
           /\ m.op = "Packet" /\ m.seq = server.expect /\ m \in ClientSubs
           /\ answer \in Seq(ServerItems) /\ Len(answer) > 0
           /\ server'.expect = server.expect + 1
           /\ server'.stream = server.stream \o answer
           /\ Len(server.stream) + Len(answer) <= MaxStream
           /\ server'.up = server.up /\ server'.opening = server.opening
<1>0. PICK m \in toServer : /\ m.op = "Packet" /\ m.seq = server.expect
                            /\ \E answer \in Answers(m) :
                                 /\ Len(server.stream) + Len(answer) <= MaxStream
                                 /\ server' = [server EXCEPT
                                                 !.expect = server.expect + 1,
                                                 !.stream = server.stream \o answer]
  BY DEF ServerReceives
<1>1. PICK answer \in Answers(m) :
        /\ m.op = "Packet" /\ m.seq = server.expect
        /\ Len(server.stream) + Len(answer) <= MaxStream
        /\ server' = [server EXCEPT !.expect = server.expect + 1,
                                    !.stream = server.stream \o answer]
  BY <1>0
<1>2. m \in ClientSubs
  BY DEF TypeOK
<1>3. answer \in Seq(ServerItems) /\ Len(answer) > 0
  <2>1. \A item \in {"Hello", "Good", "SsoRejected", "Rejected"} :
          <<item>> \in Seq(ServerItems) /\ Len(<<item>>) > 0
    BY DEF ServerItems, LoginAnswers, Rejections
  <2>2. \A last \in {"Tail", "Stub"} :
          ListFragments(last) \in Seq(ServerItems) /\ Len(ListFragments(last)) > 0
    <3>1. NFrags \in Nat /\ NFrags > 1
      BY ProxyAssumption
    <3>2. \A last \in {"Tail", "Stub"} :
            ListFragments(last) \in [1 .. NFrags -> ServerItems]
      BY DEF ListFragments, ServerItems, FragmentItems
    <3>3. QED
      BY <3>1, <3>2
  <2>3. CASE m.kind = "Ready"
    BY <1>1, <2>1, <2>3 DEF Answers
  <2>4. CASE m.kind = "Login"
    BY <1>1, <2>1, <2>4 DEF Answers
  <2>5. CASE m.kind # "Ready" /\ m.kind # "Login"
    BY <1>1, <2>2, <2>5 DEF Answers
  <2>6. QED
    BY <2>3, <2>4, <2>5
<1>4. \A n, t : /\ [server EXCEPT !.expect = n, !.stream = t].expect = n
                /\ [server EXCEPT !.expect = n, !.stream = t].stream = t
                /\ [server EXCEPT !.expect = n, !.stream = t].up = server.up
                /\ [server EXCEPT !.expect = n, !.stream = t].opening = server.opening
  BY DEF TypeOK
<1>5. QED
  BY <1>1, <1>2, <1>3, <1>4

LEMMA ConcatParts ==
  ASSUME NEW S, NEW s \in Seq(S), NEW t \in Seq(S)
  PROVE  /\ s \o t \in Seq(S) /\ Len(s \o t) = Len(s) + Len(t)
         /\ \A j \in DOMAIN s : j \in DOMAIN (s \o t) /\ (s \o t)[j] = s[j]
         /\ \A k \in 1 .. Len(t) :
              Len(s) + k \in DOMAIN (s \o t) /\ (s \o t)[Len(s) + k] = t[k]
         /\ \A j \in DOMAIN (s \o t) : j \in DOMAIN s \/ j - Len(s) \in 1 .. Len(t)
<1>1. PICK m \in Nat, n \in Nat : Len(s) = m /\ DOMAIN s = 1 .. m /\ Len(t) = n
  OBVIOUS
<1>2. s \o t \in Seq(S) /\ Len(s \o t) = m + n /\ DOMAIN (s \o t) = 1 .. (m + n)
  BY <1>1
<1>3. /\ \A j \in 1 .. m : (s \o t)[j] = s[j]
      /\ \A k \in 1 .. n : (s \o t)[m + k] = t[k]
  BY <1>1
<1>4. QED
  BY <1>1, <1>2, <1>3

LEMMA StreamGrows ==
  ASSUME TypeOK, NEW answer \in Seq(ServerItems), Len(answer) > 0,
         server'.stream = server.stream \o answer
  PROVE  /\ Len(server'.stream) = Len(server.stream) + Len(answer)
         /\ \A j \in DOMAIN server.stream :
              j \in DOMAIN server'.stream /\ server'.stream[j] = server.stream[j]
         /\ \A k \in 1 .. Len(answer) :
              /\ Len(server.stream) + k \in DOMAIN server'.stream
              /\ server'.stream[Len(server.stream) + k] = answer[k]
         /\ \A j \in DOMAIN server'.stream :
              j \in DOMAIN server.stream \/ j - Len(server.stream) \in 1 .. Len(answer)
<1>1. server.stream \in Seq(ServerItems)
  BY DEF TypeOK
<1>2. QED
  BY <1>1, ConcatParts

LEMMA ReceivesAcks ==
  ASSUME TypeOK, AckInv, ServerReceives
  PROVE  AckInv'
<1>1. PICK answer \in Seq(ServerItems) :
        Len(answer) > 0 /\ server'.stream = server.stream \o answer
  BY ReceivesEffect
<1>2. UNCHANGED <<session, auth, client, shown, toServer>>
  BY DEF ServerReceives, proxyVars, clientVars
<1>3. PICK m \in Nat : Len(server.stream) = m /\ DOMAIN server.stream = 1 .. m
  BY StreamDomain
<1>4. /\ Len(server'.stream) \in Nat /\ Len(server'.stream) > m
      /\ \A j \in DOMAIN server.stream :
           j \in DOMAIN server'.stream /\ server'.stream[j] = server.stream[j]
  BY <1>1, <1>3, StreamGrows
<1>5. session.seqFromServer \in Nat /\ toServer \subseteq ClientSubs
      /\ SubsOf(auth) \subseteq ClientSubs
  BY SubsOfType DEF TypeOK, Sessions
<1>6. FromServer(Unrelayed)'
  <2>1. session'.seqFromServer <= Len(server'.stream)
    BY <1>2, <1>3, <1>4, <1>5 DEF AckInv, FromServer, Unrelayed
  <2>2. Len(server'.stream) > 0
    BY <1>3, <1>4
  <2>3. \A i \in DOMAIN shown : \/ shown[i].item = "List"
                                \/ \E j \in DOMAIN server'.stream : server'.stream[j] = shown[i].item
    BY <1>4 DEF AckInv, FromServer, Unrelayed
  <2>4. QED
    BY <1>2, <2>1, <2>2, <2>3 DEF FromServer, Unrelayed
<1>7. \A subs \in SUBSET ClientSubs :
        AcksBelow(subs, m) => AcksBelow(subs, Len(server'.stream))
  BY <1>3, <1>4 DEF AcksBelow, ClientSubs
<1>8. client.open
  BY DEF ServerReceives, AckInv, Apart
<1>9. QED
  BY <1>2, <1>3, <1>5, <1>6, <1>7, <1>8 DEF AckInv, Apart

LEMMA AckStep ==
  ASSUME ~Impatient
  PROVE  TypeOK /\ RetryInv /\ AckInv /\ [Next]_vars => AckInv'
<1> SUFFICES ASSUME TypeOK, RetryInv, AckInv, [Next]_vars PROVE AckInv'
  OBVIOUS
<1>1. CASE ClientIssues
  <2>1. client.open /\ client'.open /\ UNCHANGED shown
    BY <1>1 DEF ClientIssues, TypeOK
  <2>2. PICK d \in ClientDatagrams(client.next) : HandleClientData(d)
    BY <1>1 DEF ClientIssues
  <2>3. d \in Datagrams
    BY <2>2, ClientDatagramsType DEF TypeOK
  <2>4. (\E i \in DOMAIN d : d[i].op = "Ack") => shown # <<>>
    BY <2>2 DEF ClientDatagrams, ClientPacket
  <2>5. QED
    BY <2>1, <2>2, <2>3, <2>4, ClientDataAcks
<1>2. CASE ClientRepeats
  <2>1. PICK n \in (client.acked + 1) .. (client.next - 1) :
          \E d \in ClientDatagrams(n) : HandleClientData(d)
    BY <1>2 DEF ClientRepeats
  <2>2. PICK d \in ClientDatagrams(n) : HandleClientData(d)
    BY <2>1
  <2>3. n \in Nat
    BY <2>1 DEF TypeOK
  <2>4. d \in Datagrams
    BY <2>2, <2>3, ClientDatagramsType
  <2>5. (\E i \in DOMAIN d : d[i].op = "Ack") => shown # <<>>
    BY <2>2 DEF ClientDatagrams, ClientPacket
  <2>6. client.open /\ client' = client /\ UNCHANGED shown
    BY <1>2 DEF ClientRepeats, clientVars
  <2>7. QED
    BY <2>2, <2>4, <2>5, <2>6, ClientDataAcks
<1>3. CASE ClientAcks
  <2>1. client.open /\ client' = client /\ UNCHANGED shown /\ shown # <<>>
        /\ HandleClientData(<<ClientAck>>)
    BY <1>3 DEF ClientAcks, clientVars
  <2>2. <<ClientAck>> \in Datagrams
    BY <2>1, ClientAckType DEF Datagrams
  <2>3. QED
    BY <2>1, <2>2, ClientDataAcks
<1>4. CASE ClientKeepsAlive
  <2>1. UNCHANGED <<auth, client, shown, server, toServer>> /\ session' = CurrentSession
    BY <1>4 DEF ClientKeepsAlive, clientVars, serverVars
  <2>2. session'.seqFromServer <= Len(server.stream)
    BY <2>1, NewSessionFromServer
  <2>3. QED
    BY <2>1, <2>2 DEF AckInv, Apart, FromServer, Unrelayed
<1>5. CASE ClientConnects
  <2>1. /\ ~client.open /\ auth' = <<>> /\ shown' = <<>> /\ toServer' = {}
        /\ server' = [up |-> FALSE, opening |-> TRUE, expect |-> 0, stream |-> <<>>]
        /\ session' = CurrentSession
    BY <1>5 DEF ClientConnects, NoServer
  <2>2. server.stream = <<>>
    BY <2>1 DEF AckInv, Apart
  <2>3. session'.seqFromServer <= Len(server'.stream)
    BY <2>1, <2>2, NewSessionFromServer
  <2>4. QED
    BY <2>1, <2>3 DEF AckInv, Apart, FromServer, Unrelayed, AcksBelow, SubsOf
<1>6. CASE ClientDisconnects
  <2>1. /\ auth' = <<>> /\ shown' = <<>> /\ toServer' = {}
        /\ server' = NoServer /\ session' = NewSession
    BY <1>6 DEF ClientDisconnects
  <2>2. QED
    BY <2>1 DEF NoServer, NewSession, AckInv, Apart, FromServer, Unrelayed, AcksBelow,
                SubsOf
<1>7. CASE ClientIdles
  BY <1>7 DEF ClientIdles, clientVars, serverVars, AckInv, Apart, FromServer, Unrelayed
<1>8. CASE AuthEnds
  <2>1. auth' = <<>> /\ UNCHANGED <<session, client, shown, server>> /\ client.open
    BY <1>8 DEF AuthEnds, AuthSucceeds, AuthFails, clientVars, AckInv, Apart
  <2>2. AcksBelow(SubsOf(WithCredentials(auth, "sso")), Len(server.stream))
    BY CredentialAcks DEF AckInv, TypeOK, Creds
  <2>3. \/ toServer' = toServer \cup SubsOf(WithCredentials(auth, "sso"))
        \/ toServer' = toServer \cup SubsOf(auth)
    BY <1>8 DEF AuthEnds, AuthSucceeds, AuthFails, SendToLoginServer
  <2>4. AcksBelow(toServer', Len(server.stream))
    BY <2>2, <2>3 DEF AckInv, AcksBelow
  <2>5. AcksBelow(SubsOf(auth'), Len(server.stream))
    BY <2>1 DEF AcksBelow, SubsOf
  <2>6. QED
    BY <2>1, <2>4, <2>5 DEF AckInv, Apart, FromServer, Unrelayed
<1>9. ASSUME NEW i \in DOMAIN server.stream
      PROVE  client.open
  BY <1>9 DEF AckInv, Apart
<1>10. ASSUME NEW i \in DOMAIN server.stream, ServerSendsPacket(i)
       PROVE  AckInv'
  BY <1>9, <1>10, ServerSendsPacketSent, ServerDataAcks
<1>11. ASSUME NEW i \in DOMAIN server.stream, ServerSendsFragment(i)
       PROVE  AckInv'
  BY <1>11, FragmentAcks
<1>12. CASE ServerSendsAck
  <2>1. client.open
    BY <1>12, ServerSendsAckSent DEF AckInv, Apart
  <2>2. QED
    BY <1>12, <2>1, ServerSendsAckSent, ServerDataAcks
<1>13. CASE ServerResponds
  <2>1. UNCHANGED <<auth, shown, toServer>> /\ session' = NewSession
    BY <1>13 DEF ServerResponds
  <2>2. client'.open /\ server'.stream = server.stream
    BY <1>13 DEF ServerResponds, TypeOK
  <2>3. PICK m \in Nat : Len(server.stream) = m
    BY StreamDomain
  <2>4. QED
    BY <2>1, <2>2, <2>3 DEF NewSession, AckInv, Apart, FromServer, Unrelayed
<1>14. CASE ServerReceives
  BY <1>14, ReceivesAcks
<1>15. CASE UNCHANGED vars
  BY <1>15 DEF vars, proxyVars, clientVars, serverVars, AckInv, Apart, FromServer,
               Unrelayed
<1>16. QED
  BY <1>1, <1>2, <1>3, <1>4, <1>5, <1>6, <1>7, <1>8, <1>10, <1>11, <1>12, <1>13,
     <1>14, <1>15
  DEF Next, ClientStep, ServerSends

LEMMA AckInit == Init => AckInv
  BY DEF Init, NoServer, NewSession, AckInv, Apart, FromServer, Unrelayed, AcksBelow,
         SubsOf

(* The server is never told of a packet it has not sent, for every link and  *)
(* clock and for a client that repeats itself: rewriting an Ack, the replay  *)
(* and the lapse of a session never leave seq_from_server ahead of the       *)
(* server. Only the client must wait for its authentication.                 *)
THEOREM NoAckAhead ==
  ASSUME ~Impatient
  PROVE  Spec => []AcksAreOfSentPackets
<1>1. Init => RetryInv
  BY DEF Init, NoRetry, RetryInv, RetryConsistent, AuthIsLogin
<1>2. AckInv => AcksAreOfSentPackets
  BY DEF AckInv, AcksBelow, AcksAreOfSentPackets
<1>3. TypeOK /\ RetryInv /\ AckInv /\ [Next]_vars => AckInv'
  BY AckStep
<1>4. QED
  BY <1>1, <1>2, <1>3, AckInit, TypeCorrect, RetryStep, PTL DEF Spec

----------------------------------------------------------------------------
(* The number space of the server *)

(* The packets P carry the numbers in S, each number once. *)
Exact(P, S) ==
  /\ {m.seq : m \in P} = S
  /\ \A m1, m2 \in P : m1.seq = m2.seq => m1 = m2

LEMMA ExactGrows ==
  ASSUME NEW P, NEW S, Exact(P, S), NEW p, p.seq \notin S
  PROVE  Exact(P \cup {p}, S \cup {p.seq})
  BY DEF Exact

LEMMA ExactCardinality ==
  ASSUME NEW P, NEW S, Exact(P, S), IsFiniteSet(S)
  PROVE  Cardinality(P) = Cardinality({m.seq : m \in P})
<1> DEFINE number == [m \in P |-> m.seq]
<1>1. number \in Bijection(P, S)
  <2>1. number \in [P -> S]
    BY DEF Exact
  <2>2. \A a, b \in P : number[a] = number[b] => a = b
    BY DEF Exact
  <2>3. \A t \in S : \E a \in P : number[a] = t
    BY DEF Exact
  <2>4. QED
    <3> HIDE DEF number
    <3> QED
      BY <2>1, <2>2, <2>3, Fun_IsBij
<1>2. ExistsBijection(S, P)
  BY <1>1, Fun_ExistsBijSymmetric DEF ExistsBijection
<1>3. Cardinality(P) = Cardinality(S)
  BY <1>2, FS_Bijection
<1>4. QED
  BY <1>3 DEF Exact

PacketsOf(subs) == {m \in subs : m.op = "Packet"}

(* The number after the last one used or reserved in the session. *)
Last == client.next + session.csOffset

(* The Login under authentication keeps its number for itself. *)
Due == IF auth = <<>> THEN {} ELSE {1}

(* A Login as the proxy holds it for a replay: behind an Ack, with number 1. *)
Replayable(d) ==
  Len(d) = 2 /\ d[1].op = "Ack" /\ d[2].op = "Packet" /\ d[2].seq = 1

Numbering ==
  /\ client.next <= MaxClient
  /\ Exact(ForwardedPackets, (0 .. (Last - 1)) \ Due)
  /\ \A m \in ForwardedPackets : /\ m.seq = 0 => m.kind = "Ready"
                                 /\ m.seq = 1 => m.kind = "Login"

RetryPhase ==
  /\ session.csOffset = IF retry.fired THEN 1 ELSE 0
  /\ retry.armed => /\ client.next = 2 /\ ~retry.fired
                    /\ Replayable(retry.original) /\ Unseen(Unrelayed, "Good")
  /\ auth # <<>> => /\ client.next = 2 /\ ~retry.armed /\ ~retry.fired
                    /\ Replayable(auth) /\ server.expect <= 1
  /\ client.next < 2 => ~retry.fired

(* Until it has taken the Login the server has answered each packet by one. *)
Answered ==
  /\ server.expect <= Last
  /\ server.expect <= 2 => Len(server.stream) = server.expect
  /\ server.expect >= 2 => Len(server.stream) >= 2
  /\ \A i \in DOMAIN server.stream : /\ i = 1 => server.stream[i] = "Hello"
                                     /\ i = 2 => server.stream[i] \in LoginAnswers

(* ServerStreamExact and AckedWasIssued rest on the order of a login: Ready  *)
(* and Login take the first two numbers, the client asks for nothing more    *)
(* until it has seen that its Login was accepted, and until then at most     *)
(* one number, that of the Login or of its replay, is not the client's own.  *)
NumbersInv ==
  /\ AckedWasIssued
  /\ server.opening => client.next = 0
  /\ client.open => Numbering /\ RetryPhase /\ Answered

(* While the answer to the Login is out nothing accepted has been shown. *)
LEMMA GoodUnseen ==
  ASSUME TypeOK, FromServer(Unrelayed), Answered, server.expect <= 1
  PROVE  Unseen(Unrelayed, "Good")
<1>1. PICK m \in Nat : Len(server.stream) = m /\ DOMAIN server.stream = 1 .. m
  BY StreamDomain
<1>2. server.expect \in Nat
  BY DEF TypeOK
<1>3. \A j \in DOMAIN server.stream : server.stream[j] = "Hello"
  BY <1>1, <1>2 DEF Answered
<1>4. QED
  BY <1>3 DEF FromServer, Unseen

LEMMA PacketsOfUnion ==
  ASSUME NEW a, NEW b
  PROVE  PacketsOf(a \cup b) = PacketsOf(a) \cup PacketsOf(b)
  BY DEF PacketsOf

(* A packet of the client becomes one packet of the server's number space. *)
LEMMA OnePacket ==
  ASSUME TypeOK, NEW n \in Nat, NEW d \in ClientDatagrams(n), NEW s \in Sessions
  PROVE  \E p \in ClientSubs :
           /\ PacketsOf(SubsOf(SyncRewrite(Adjust(s, d)))) = {p}
           /\ p.seq = ShiftPacketSeq(s, n) /\ p.kind = Kind(n)
           /\ p.cred # "sso"
<1> DEFINE sent == SyncRewrite(Adjust(s, d))
<1>1. d \in Datagrams
  BY ClientDatagramsType
<1>2. Adjust(s, d) \in Datagrams /\ DOMAIN Adjust(s, d) = DOMAIN d
  BY <1>1, AdjustType DEF Adjust
<1>3. DOMAIN sent = DOMAIN d
  BY <1>2 DEF SyncRewrite, WithCredentials
<1>4. \A i \in DOMAIN d :
        /\ sent[i].op = d[i].op /\ sent[i].kind = d[i].kind
        /\ sent[i].cred \in {d[i].cred, "local"}
        /\ d[i].op = "Packet" => sent[i].seq = ShiftPacketSeq(s, d[i].seq)
        /\ sent[i] \in ClientSubs
  <2>1. ASSUME NEW i \in DOMAIN d
        PROVE  /\ sent[i].op = Adjust(s, d)[i].op /\ sent[i].kind = Adjust(s, d)[i].kind
               /\ sent[i].cred \in {Adjust(s, d)[i].cred, "local"}
               /\ sent[i].seq = Adjust(s, d)[i].seq
               /\ sent[i] \in ClientSubs
    <3>1. sent \in Datagrams
      BY <1>2, WithCredentialsType DEF SyncRewrite, Creds
    <3>2. sent[i] \in ClientSubs
      BY <1>3, <3>1 DEF Datagrams
    <3>3. QED
      BY <1>2, <3>2, RewrittenSubs
  <2> HIDE DEF sent
  <2>2. QED
    BY <1>1, <2>1, AdjustedSubs
<1> HIDE DEF sent
<1>5. \/ d = <<ClientAck, ClientPacket(n)>>
      \/ d = <<ClientPacket(n)>>
  BY DEF ClientDatagrams
<1>6. PICK k \in DOMAIN d : d[k] = ClientPacket(n) /\ \A i \in DOMAIN d : i # k => d[i] = ClientAck
  <2>1. CASE d = <<ClientAck, ClientPacket(n)>>
    <3>1. 2 \in DOMAIN d /\ d[2] = ClientPacket(n) /\ \A i \in DOMAIN d : i # 2 => d[i] = ClientAck
      BY <2>1
    <3>2. QED
      BY <3>1
  <2>2. CASE d = <<ClientPacket(n)>>
    <3>1. 1 \in DOMAIN d /\ d[1] = ClientPacket(n) /\ \A i \in DOMAIN d : i = 1
      BY <2>2
    <3>2. QED
      BY <3>1
  <2>3. QED
    BY <1>5, <2>1, <2>2
<1>7. PacketsOf(SubsOf(sent)) = {sent[k]}
  <2>1. sent[k].op = "Packet"
    BY <1>4, <1>6 DEF ClientPacket
  <2>2. \A i \in DOMAIN sent : sent[i].op = "Packet" => i = k
    BY <1>3, <1>4, <1>6 DEF ClientAck, Ack
  <2>3. QED
    BY <1>3, <2>1, <2>2 DEF PacketsOf, SubsOf
<1>8. /\ sent[k].seq = ShiftPacketSeq(s, n) /\ sent[k].kind = Kind(n)
      /\ sent[k].cred # "sso" /\ sent[k] \in ClientSubs
  BY <1>4, <1>6 DEF ClientPacket
<1>9. QED
  BY <1>7, <1>8 DEF sent

(* One packet more, with the one number that was missing. *)
LEMMA NumberTaken ==
  ASSUME TypeOK, NEW subs, NEW p, PacketsOf(subs) = {p}, NEW S,
         Exact(ForwardedPackets, S), p.seq \notin S, toServer' = toServer \cup subs
  PROVE  /\ Exact(ForwardedPackets', S \cup {p.seq})
         /\ ForwardedPackets' = ForwardedPackets \cup {p}
<1>1. ForwardedPackets = PacketsOf(toServer) /\ ForwardedPackets' = PacketsOf(toServer')
  BY DEF ForwardedPackets, PacketsOf
<1>2. ForwardedPackets' = ForwardedPackets \cup {p}
  BY <1>1, PacketsOfUnion
<1>3. QED
  BY <1>2, ExactGrows

LEMMA IssueNumbers ==
  ASSUME MaxClient < SeqMod,
         TypeOK, RetryInv, StreamInv, AckInv, NumbersInv, ClientIssues
  PROVE  NumbersInv'
<1>1. /\ client.open /\ MayIssue(client.next)
      /\ client' = [client EXCEPT !.next = client.next + 1] /\ UNCHANGED shown
  BY DEF ClientIssues
<1>2. PICK n \in Nat : n = client.next
  BY DEF TypeOK
<1>3. PICK d \in ClientDatagrams(n) : HandleClientData(d)
  BY <1>2 DEF ClientIssues
<1>4. /\ client'.open /\ client'.next = n + 1 /\ client'.acked = client.acked
      /\ n < MaxClient
  BY <1>1, <1>2 DEF TypeOK, MayIssue
<1>5. /\ session' = session /\ retry' = retry /\ UNCHANGED <<inSession, server, arrived>>
  BY <1>1, <1>3 DEF HandleClientData, StreamInv, CurrentSession, CurrentRetry, Lapsed
<1>6. Numbering /\ RetryPhase /\ Answered
  BY <1>1 DEF NumbersInv
<1>7. AckedWasIssued'
  BY <1>2, <1>4 DEF NumbersInv, AckedWasIssued, TypeOK
<1>8. ~server.opening
  BY <1>1 DEF StreamInv
<1>9. auth = <<>> /\ ~retry.armed
  <2>1. ASSUME auth # <<>> \/ retry.armed PROVE FALSE
    <3>1. n = 2
      BY <1>2, <1>6, <2>1 DEF RetryPhase
    <3>2. WasShown("Good")
      BY <1>1, <1>2, <3>1 DEF MayIssue
    <3>3. ~Unseen(Unrelayed, "Good")
      BY <3>2 DEF WasShown, Unseen, Unrelayed
    <3>4. FromServer(Unrelayed)
      BY DEF AckInv
    <3>5. QED
      BY <1>6, <2>1, <3>3, <3>4, GoodUnseen DEF RetryPhase
  <2>2. QED
    BY <2>1
<1>10. PICK cs \in {0, 1} : session.csOffset = cs /\ (retry.fired <=> cs = 1) /\ (cs = 1 => n >= 2)
  BY <1>2, <1>6 DEF RetryPhase, TypeOK
<1>11. Last = n + cs /\ Last' = n + 1 + cs /\ Due = {}
  BY <1>2, <1>4, <1>5, <1>9, <1>10 DEF Last, Due
<1>12. Answered'
  <2>1. server.expect \in Nat
    BY DEF TypeOK
  <2>2. QED
    BY <1>5, <1>6, <1>11, <2>1 DEF Answered
<1>13. CASE NeedsSso(d)
  <2>1. d = <<ClientAck, ClientPacket(n)>> /\ n = 1 /\ cs = 0
    BY <1>3, <1>10, <1>13, LoginIsSecond
  <2>2. auth' = Adjust(session, d) /\ UNCHANGED toServer
    <3>1. StartAuth(d)
      BY <1>3, <1>9, <1>13 DEF HandleClientData, DropLogin, ForwardClientData
    <3>2. QED
      BY <1>3, <1>5, <3>1 DEF StartAuth, HandleClientData
  <2>3. d \in Datagrams /\ session \in Sessions
    BY <1>3, ClientDatagramsType DEF TypeOK
  <2>4. 1 \in DOMAIN d /\ 2 \in DOMAIN d /\ Len(d) = 2
        /\ d[1] = ClientAck /\ d[2] = ClientPacket(1)
    BY <2>1
  <2>5. Len(auth') = 2 /\ auth'[1].op = "Ack" /\ auth'[2].op = "Packet"
    BY <2>2, <2>3, <2>4, AdjustType DEF ClientAck, Ack, ClientPacket
  <2>6. auth'[2].seq = 1
    <3>1. auth'[2].seq = ShiftPacketSeq(session, 1)
      BY <2>2, <2>3, <2>4, AdjustedSubs DEF ClientPacket
    <3>2. QED
      BY <1>10, <2>1, <3>1 DEF ShiftPacketSeq
  <2>7. auth' # <<>>
    <3>1. TypedLogin(d)
      BY <1>3, <1>13, ClientLoginIsTyped
    <3>2. QED
      BY <2>2, <2>3, <3>1, AdjustKeepsLogin
  <2>8. Last' = 2 /\ Last = 1 /\ Due' = {1}
    BY <1>11, <2>1, <2>7 DEF Due
  <2>9. (0 .. (Last' - 1)) \ Due' = (0 .. (Last - 1)) \ Due
    BY <1>11, <2>8
  <2>10. Numbering'
    <3>1. ForwardedPackets' = ForwardedPackets
      BY <2>2 DEF ForwardedPackets
    <3>2. client'.next <= MaxClient
      BY <1>2, <1>4, ProxyAssumption
    <3>3. QED
      BY <1>6, <2>9, <3>1, <3>2 DEF Numbering
  <2>11. RetryPhase'
    <3>1. server'.expect <= 1
      BY <1>5, <1>6, <2>8 DEF Answered
    <3>2. client'.next = 2
      BY <1>4, <2>1
    <3>3. QED
      BY <1>5, <1>9, <1>10, <2>1, <2>5, <2>6, <3>1, <3>2 DEF RetryPhase, Replayable
  <2>12. QED
    BY <1>4, <1>5, <1>7, <1>8, <1>12, <2>10, <2>11 DEF NumbersInv
<1>14. CASE ~NeedsSso(d)
  <2>1. /\ auth' = auth
        /\ toServer' = toServer \cup SubsOf(SyncRewrite(Adjust(session, d)))
    <3>1. ForwardClientData(d)
      BY <1>3, <1>14 DEF HandleClientData, DropLogin, StartAuth
    <3>2. CurrentSession = session
      BY <1>3, <1>5 DEF HandleClientData
    <3>3. QED
      BY <3>1, <3>2 DEF ForwardClientData, SendToLoginServer
  <2>2. PICK p \in ClientSubs :
          /\ PacketsOf(SubsOf(SyncRewrite(Adjust(session, d)))) = {p}
          /\ p.seq = ShiftPacketSeq(session, n) /\ p.kind = Kind(n)
    BY <1>3, OnePacket DEF TypeOK
  <2>3. p.seq = n + cs
    <3>1. MaxClient \in Nat /\ SeqMod \in Nat
      BY ProxyAssumption, SeqModAssumption
    <3>2. n + 1 < SeqMod
      BY <1>2, <1>4, <3>1
    <3>3. (n + 1) % SeqMod = n + 1
      BY <3>1, <3>2
    <3>4. QED
      BY <1>10, <2>2, <3>3 DEF ShiftPacketSeq
  <2>4. p.seq \notin (0 .. (Last - 1)) \ Due
    BY <1>11, <2>3
  <2>5. (0 .. (Last' - 1)) \ Due' = ((0 .. (Last - 1)) \ Due) \cup {p.seq}
    <3>1. Due' = {}
      BY <1>9, <2>1 DEF Due
    <3>2. QED
      BY <1>11, <2>3, <3>1
  <2>6. /\ Exact(ForwardedPackets', (0 .. (Last' - 1)) \ Due')
        /\ ForwardedPackets' = ForwardedPackets \cup {p}
    BY <1>6, <2>1, <2>2, <2>4, <2>5, NumberTaken DEF Numbering
  <2>7. (p.seq = 0 => p.kind = "Ready") /\ (p.seq = 1 => p.kind = "Login")
    BY <1>10, <2>2, <2>3 DEF Kind
  <2>8. Numbering'
    <3>1. client'.next <= MaxClient
      BY <1>2, <1>4, ProxyAssumption
    <3>2. QED
      BY <1>6, <2>6, <2>7, <3>1 DEF Numbering
  <2>9. RetryPhase'
    <3>1. client'.next < 2 => client.next < 2
      BY <1>2, <1>4
    <3>2. QED
      BY <1>5, <1>6, <1>9, <2>1, <3>1 DEF RetryPhase
  <2>10. QED
    BY <1>4, <1>5, <1>7, <1>8, <1>12, <2>8, <2>9 DEF NumbersInv
<1>15. QED
  BY <1>13, <1>14

(* Handlers that forward no packet and touch neither counter nor retry. *)
LEMMA QuietNumbers ==
  ASSUME NumbersInv, UNCHANGED <<auth, shown, server, retry>>,
         session'.csOffset = session.csOffset,
         client'.open = client.open, client'.next = client.next,
         client'.acked = client.acked, PacketsOf(toServer') = PacketsOf(toServer)
  PROVE  NumbersInv'
<1>1. Last' = Last /\ Due' = Due /\ ForwardedPackets' = ForwardedPackets
  BY DEF Last, Due, ForwardedPackets, PacketsOf
<1>2. Numbering => Numbering'
  BY <1>1 DEF Numbering
<1>3. RetryPhase => RetryPhase'
  BY DEF RetryPhase, Unseen, Unrelayed
<1>4. Answered => Answered'
  BY <1>1 DEF Answered
<1>5. QED
  BY <1>2, <1>3, <1>4 DEF NumbersInv, AckedWasIssued

LEMMA AuthNumbers ==
  ASSUME TypeOK, RetryInv, AckInv, NumbersInv, AuthEnds
  PROVE  NumbersInv'
<1>1. auth # <<>> /\ auth' = <<>> /\ UNCHANGED <<session, client, shown, server>>
  BY DEF AuthEnds, AuthSucceeds, AuthFails, clientVars
<1>2. client.open /\ Numbering /\ RetryPhase /\ Answered /\ TypedLogin(auth)
  BY <1>1 DEF AckInv, Apart, NumbersInv, RetryInv, AuthIsLogin
<1>3. Replayable(auth) /\ client.next = 2 /\ ~retry.fired /\ session.csOffset = 0
      /\ server.expect <= 1
  BY <1>1, <1>2 DEF RetryPhase
<1>4. 1 \in DOMAIN auth /\ 2 \in DOMAIN auth /\ auth \in Datagrams
      /\ \A i \in DOMAIN auth : i = 1 \/ i = 2
  BY <1>3 DEF TypeOK, Datagrams, Replayable
<1>5. PICK sent \in {auth, WithCredentials(auth, "sso")} :
        toServer' = toServer \cup SubsOf(sent)
  BY DEF AuthEnds, AuthSucceeds, AuthFails, SendToLoginServer
<1>6. /\ DOMAIN sent = DOMAIN auth /\ sent[1].op = "Ack" /\ sent[2].op = "Packet"
      /\ sent[2].seq = 1 /\ sent[2].kind = "Login"
  <2>1. CASE sent = auth
    BY <1>2, <1>3, <2>1 DEF Replayable, TypedLogin
  <2>2. CASE sent = WithCredentials(auth, "sso")
    <3>1. "sso" \in Creds
      BY DEF Creds
    <3>2. /\ DOMAIN sent = DOMAIN auth
          /\ \A i \in DOMAIN auth : /\ sent[i].op = auth[i].op /\ sent[i].seq = auth[i].seq
                                    /\ sent[i].kind = auth[i].kind
      BY <1>4, <2>2, <3>1, CredentialSubs
    <3>3. QED
      BY <1>2, <1>3, <1>4, <3>2 DEF Replayable, TypedLogin
  <2>3. QED
    BY <1>5, <2>1, <2>2
<1>7. PacketsOf(SubsOf(sent)) = {sent[2]}
  BY <1>4, <1>6 DEF PacketsOf, SubsOf
<1>8. Last = 2 /\ Last' = 2 /\ Due = {1} /\ Due' = {}
  BY <1>1, <1>3 DEF Last, Due
<1>9. /\ Exact(ForwardedPackets', (0 .. (Last' - 1)) \ Due')
      /\ ForwardedPackets' = ForwardedPackets \cup {sent[2]}
  <2>1. (0 .. (Last' - 1)) \ Due' = ((0 .. (Last - 1)) \ Due) \cup {sent[2].seq}
    BY <1>6, <1>8
  <2>2. sent[2].seq \notin (0 .. (Last - 1)) \ Due
    BY <1>6, <1>8
  <2>3. Exact(ForwardedPackets, (0 .. (Last - 1)) \ Due)
    BY <1>2 DEF Numbering
  <2>4. /\ Exact(ForwardedPackets', ((0 .. (Last - 1)) \ Due) \cup {sent[2].seq})
        /\ ForwardedPackets' = ForwardedPackets \cup {sent[2]}
    BY <1>5, <1>7, <2>2, <2>3, NumberTaken
  <2>5. QED
    BY <2>1, <2>4
<1>10. Numbering'
  BY <1>1, <1>2, <1>6, <1>9 DEF Numbering
<1>11. Answered'
  BY <1>1, <1>2, <1>8 DEF Answered
<1>12. RetryPhase'
  <2>1. Unseen(Unrelayed, "Good")
    BY <1>2, <1>3, GoodUnseen DEF AckInv
  <2>2. Unseen(Unrelayed, "Good")'
    BY <1>1, <2>1 DEF Unseen, Unrelayed
  <2>3. CASE AuthSucceeds
    <3>1. retry'.original = auth /\ retry'.armed /\ ~retry'.fired
      BY <2>3 DEF AuthSucceeds
    <3>2. QED
      BY <1>1, <1>3, <2>2, <3>1 DEF RetryPhase
  <2>4. CASE AuthFails
    <3>1. retry' = retry
      BY <2>4 DEF AuthFails
    <3>2. QED
      BY <1>1, <1>2, <3>1 DEF RetryPhase
  <2>5. QED
    BY <2>3, <2>4 DEF AuthEnds
<1>13. QED
  BY <1>1, <1>10, <1>11, <1>12 DEF NumbersInv, AckedWasIssued

LEMMA AckTranslated ==
  ASSUME NEW st \in RelayStates, NEW sub \in ServerSubs, sub.op = "Ack",
         NEW next \in Nat, st.acked < next, next > 0,
         sub.seq < next + st.session.csOffset
  PROVE  Relayed(st, sub).acked < next
<1>1. PICK n \in Nat, cs \in Nat, a \in Nat \cup {-1} :
        n = sub.seq /\ cs = st.session.csOffset /\ a = st.acked
  BY DEF ServerSubs, RelayStates, Sessions
<1>2. AdjustServerAck(st.session, sub.seq) < next
  BY <1>1 DEF AdjustServerAck, Monus
<1>3. Relayed(st, sub).acked = Larger(st.acked, AdjustServerAck(st.session, sub.seq))
  BY RelayedParts DEF ServerSubs
<1>4. QED
  BY <1>2, <1>3 DEF Larger

LEMMA RelayedAcked ==
  ASSUME TypeOK, NEW st \in RelayStates, NEW sub, Sent(sub),
         NEW next \in Nat, st.acked < next, next > 0,
         server.expect <= next + st.session.csOffset
  PROVE  Relayed(st, sub).acked < next
<1>1. sub \in ServerSubs
  BY DEF Sent
<1>2. CASE sub.op = "Ack"
  <2>1. sub.seq < server.expect /\ sub.seq \in Nat /\ server.expect \in Nat
    BY <1>1, <1>2 DEF Sent, ServerSubs, TypeOK
  <2>2. st.session.csOffset \in Nat
    BY DEF RelayStates, Sessions
  <2>3. sub.seq < next + st.session.csOffset
    BY <2>1, <2>2
  <2>4. QED
    BY <1>1, <1>2, <2>3, AckTranslated
<1>3. CASE sub.op # "Ack"
  BY <1>1, <1>3, RelayedParts
<1>4. QED
  BY <1>2, <1>3

LEMMA RelayedAllAcked ==
  ASSUME TypeOK, NEW st \in RelayStates,
         NEW d \in Seq(ServerSubs), \A k \in DOMAIN d : Sent(d[k]),
         NEW next \in Nat, st.acked < next, next > 0,
         server.expect <= next + st.session.csOffset
  PROVE  RelayedAll(st, d).acked < next
  BY RelayedAllSteps, RelayedAcked, RelayedType

LEMMA PassOnNumbers ==
  ASSUME TypeOK, AckInv, NumbersInv, client.open,
         NEW d \in SentDatagrams, HandleServerData(d), PassOn(d)
  PROVE  NumbersInv'
<1> DEFINE st == RelayedAll(Unrelayed, d)
<1>1. /\ st \in RelayStates /\ session' = st.session
      /\ session'.csOffset = session.csOffset /\ shown' = st.shown
      /\ client' = [client EXCEPT !.acked = st.acked]
      /\ retry'.original = retry.original /\ retry'.fired = retry.fired
      /\ retry'.armed <=> retry.armed /\ ~Intercepts(d)
      /\ toServer' = toServer
  BY PassOnEffect DEF SentDatagrams
<1>2. UNCHANGED <<auth, server>>
  BY DEF HandleServerData
<1>3. Numbering /\ RetryPhase /\ Answered
  BY DEF NumbersInv
<1>4. st.acked < client.next
  <2>1. Unrelayed \in RelayStates /\ Unrelayed.acked = client.acked
        /\ Unrelayed.session.csOffset = session.csOffset
    BY UnrelayedType DEF Unrelayed
  <2>2. client.acked < client.next /\ client.next \in Nat
    BY DEF NumbersInv, AckedWasIssued, TypeOK
  <2>3. server.expect <= client.next + Unrelayed.session.csOffset
    BY <1>3, <2>1 DEF Answered, Last
  <2>4. \A k \in DOMAIN d : Sent(d[k])
    BY DEF SentDatagrams
  <2>5. CASE client.next > 0
    BY <2>1, <2>2, <2>3, <2>4, <2>5, RelayedAllAcked DEF SentDatagrams
  <2>6. CASE client.next = 0
    <3>1. session.csOffset = 0
      BY <1>3, <2>6 DEF RetryPhase
    <3>2. server.expect = 0
      BY <1>3, <2>6, <3>1 DEF Answered, Last, TypeOK
    <3>3. PICK m \in Nat : Len(server.stream) = m /\ DOMAIN server.stream = 1 .. m
      BY StreamDomain
    <3>4. m = 0
      BY <1>3, <3>2, <3>3 DEF Answered
    <3>5. d # <<>> /\ d \in Seq(ServerSubs)
      BY DEF SentDatagrams
    <3>6. 1 \in DOMAIN d
      BY <3>5
    <3>7. Sent(d[1])
      BY <2>4, <3>6
    <3>8. QED
      BY <3>2, <3>3, <3>4, <3>7 DEF Sent, ServerSubs
  <2>7. QED
    BY <2>2, <2>5, <2>6
<1>5. client'.open /\ client'.next = client.next /\ client'.acked = st.acked
  BY <1>1 DEF TypeOK
<1>6. retry'.armed => Unseen(Unrelayed, "Good")'
  <2> SUFFICES ASSUME retry'.armed PROVE Unseen(st, "Good")
    BY <1>1 DEF Unseen, Unrelayed
  <2>1. retry.armed /\ ~retry.fired /\ ~Intercepts(d) /\ Unseen(Unrelayed, "Good")
    BY <1>1, <1>3 DEF RetryPhase
  <2>2. AnswerIn(d) = 0
    BY <2>1 DEF Intercepts
  <2>3. d # <<>> /\ d \in Seq(ServerSubs) /\ Len(d) <= 2
    BY DEF SentDatagrams
  <2>4. \A k \in DOMAIN d : k = 1 \/ (k = 2 /\ Len(d) = 2)
    <3>1. PICK m \in Nat : Len(d) = m /\ DOMAIN d = 1 .. m
      BY <2>3
    <3>2. QED
      BY <2>3, <3>1
  <2>5. \A k \in DOMAIN d : d[k].item # "Good"
    BY <2>2, <2>4 DEF AnswerIn, LoginAnswers
  <2>6. QED
    BY <2>1, <2>3, <2>5, UnrelayedType, RelayedAllUnseen
<1> HIDE DEF st
<1>7. Last' = Last /\ Due' = Due /\ ForwardedPackets' = ForwardedPackets
  BY <1>1, <1>2, <1>5 DEF Last, Due, ForwardedPackets
<1>8. Numbering' /\ Answered'
  BY <1>2, <1>3, <1>5, <1>7 DEF Numbering, Answered
<1>9. RetryPhase'
  BY <1>1, <1>2, <1>3, <1>5, <1>6 DEF RetryPhase
<1>10. AckedWasIssued'
  BY <1>4, <1>5 DEF AckedWasIssued
<1>11. QED
  BY <1>2, <1>5, <1>8, <1>9, <1>10 DEF NumbersInv

LEMMA SuppressNumbers ==
  ASSUME MaxClient < SeqMod, ~server.opening, TypeOK, RetryInv, AckInv, NumbersInv, client.open,
         NEW d \in SentDatagrams, HandleServerData(d), Intercepts(d), SuppressRejection(d)
  PROVE  NumbersInv'
<1>1. PICK n : n = d[AnswerIn(d)].seq
  OBVIOUS
<1>2. d \in Seq(ServerSubs) /\ d # <<>>
  BY DEF SentDatagrams
<1>3. /\ Rest(d) \in RelayStates
      /\ WithoutAnswer(d) \in Seq(ServerSubs)
      /\ session' \in Sessions /\ session'.csOffset = session.csOffset + 1
      /\ shown' = Rest(d).shown
      /\ client' = [client EXCEPT !.acked = Rest(d).acked]
      /\ toServer' = toServer \cup {Ack(n)} \cup SubsOf(Adjust(session', retry.original))
      /\ retry'.original = retry.original /\ retry'.fired /\ ~retry'.armed
  BY <1>1, <1>2, SuppressEffect
<1>4. UNCHANGED <<auth, server>>
  BY DEF HandleServerData
<1>5. Numbering /\ RetryPhase /\ Answered
  BY DEF NumbersInv
<1>6. /\ client.next = 2 /\ auth = <<>> /\ session.csOffset = 0
      /\ Replayable(retry.original)
  BY <1>5 DEF Intercepts, RetryPhase
<1>7. client'.open /\ client'.next = 2 /\ client'.acked = Rest(d).acked
  BY <1>3, <1>6 DEF TypeOK
<1>8. AckedWasIssued'
  <2>1. Unrelayed \in RelayStates /\ Unrelayed.acked = client.acked
        /\ Unrelayed.session.csOffset = session.csOffset
    BY UnrelayedType DEF Unrelayed
  <2>2. client.acked < client.next
    BY DEF NumbersInv, AckedWasIssued
  <2>3. server.expect <= client.next + Unrelayed.session.csOffset
    BY <1>5, <2>1 DEF Answered, Last
  <2>4. \A k \in DOMAIN WithoutAnswer(d) : Sent(WithoutAnswer(d)[k])
    BY WithoutAnswerSent DEF SentDatagrams, Intercepts
  <2>5. RelayedAll(Unrelayed, WithoutAnswer(d)).acked < client.next
    BY <1>3, <1>6, <2>1, <2>2, <2>3, <2>4, RelayedAllAcked
  <2>6. QED
    BY <1>6, <1>7, <2>5 DEF Rest, AckedWasIssued
<1> DEFINE replay == Adjust(session', retry.original)
<1>9. retry.original \in Datagrams /\ 1 \in DOMAIN retry.original /\ 2 \in DOMAIN retry.original
      /\ \A i \in DOMAIN retry.original : i = 1 \/ i = 2
  BY <1>6 DEF TypeOK, Datagrams, Replayable
<1>10. /\ DOMAIN replay = DOMAIN retry.original /\ replay[1].op = "Ack"
       /\ replay[2].op = "Packet" /\ replay[2].seq = ShiftPacketSeq(session', 1)
  BY <1>3, <1>6, <1>9, AdjustedSubs DEF Replayable
<1>11. replay[2].seq = 2
  <2>1. MaxClient \in Nat /\ SeqMod \in Nat /\ 2 <= MaxClient
    BY <1>5, <1>6, ProxyAssumption, SeqModAssumption DEF Numbering
  <2>2. 2 % SeqMod = 2
    BY <2>1
  <2>3. QED
    BY <1>3, <1>6, <1>10, <2>2 DEF ShiftPacketSeq
<1> HIDE DEF replay
<1>12. PacketsOf({Ack(n)} \cup SubsOf(replay)) = {replay[2]}
  BY <1>9, <1>10 DEF PacketsOf, SubsOf, Ack
<1>13. Last = 2 /\ Last' = 3 /\ Due = {} /\ Due' = {}
  BY <1>3, <1>4, <1>6, <1>7 DEF Last, Due
<1>14. /\ Exact(ForwardedPackets', (0 .. (Last' - 1)) \ Due')
       /\ ForwardedPackets' = ForwardedPackets \cup {replay[2]}
  <2>1. PICK p, subs : p = replay[2] /\ subs = {Ack(n)} \cup SubsOf(replay)
    OBVIOUS
  <2>2. (0 .. (Last' - 1)) \ Due' = ((0 .. (Last - 1)) \ Due) \cup {p.seq}
    BY <1>11, <1>13, <2>1
  <2>3. p.seq \notin (0 .. (Last - 1)) \ Due
    BY <1>11, <1>13, <2>1
  <2>4. toServer' = toServer \cup subs /\ PacketsOf(subs) = {p}
    BY <1>3, <1>12, <2>1 DEF replay
  <2>5. Exact(ForwardedPackets, (0 .. (Last - 1)) \ Due)
    BY <1>5 DEF Numbering
  <2>6. /\ Exact(ForwardedPackets', ((0 .. (Last - 1)) \ Due) \cup {p.seq})
        /\ ForwardedPackets' = ForwardedPackets \cup {p}
    BY <2>3, <2>4, <2>5, NumberTaken
  <2>7. QED
    BY <2>1, <2>2, <2>6
<1>15. Numbering'
  BY <1>5, <1>6, <1>7, <1>11, <1>14 DEF Numbering
<1>16. Answered'
  BY <1>4, <1>5, <1>13 DEF Answered, TypeOK
<1>17. RetryPhase'
  BY <1>3, <1>4, <1>6, <1>7 DEF RetryPhase
<1>18. QED
  BY <1>4, <1>7, <1>8, <1>15, <1>16, <1>17 DEF NumbersInv

LEMMA ServerDataNumbers ==
  ASSUME MaxClient < SeqMod, TypeOK, RetryInv, StreamInv, AckInv, NumbersInv,
         client.open, NEW d \in SentDatagrams, HandleServerData(d)
  PROVE  NumbersInv'
<1>1. ~server.opening
  BY DEF StreamInv
<1>2. PassOn(d) \/ (Intercepts(d) /\ SuppressRejection(d))
  BY DEF HandleServerData
<1>3. QED
  BY <1>1, <1>2, PassOnNumbers, SuppressNumbers

LEMMA ReceivesNumbers ==
  ASSUME TypeOK, AckInv, NumbersInv, ServerReceives
  PROVE  NumbersInv'
<1>1. UNCHANGED <<session, retry, auth, client, shown, toServer>> /\ client.open
  BY DEF ServerReceives, proxyVars, clientVars, AckInv, Apart
<1>2. Numbering /\ RetryPhase /\ Answered
  BY <1>1 DEF NumbersInv
<1>3. PICK m \in toServer : \E answer \in Answers(m) :
        /\ m.op = "Packet" /\ m.seq = server.expect /\ m \in ClientSubs
        /\ answer \in Seq(ServerItems) /\ Len(answer) > 0
        /\ server'.expect = server.expect + 1
        /\ server'.stream = server.stream \o answer
        /\ server'.opening = server.opening
  BY ReceivesEffect
<1>4. PICK answer \in Answers(m) :
        /\ answer \in Seq(ServerItems) /\ Len(answer) > 0
        /\ server'.stream = server.stream \o answer
  BY <1>3
<1>5. PICK e \in Nat : e = server.expect /\ m.seq = e /\ server'.expect = e + 1
  BY <1>3 DEF TypeOK
<1>6. m \in ForwardedPackets
  BY <1>3 DEF ForwardedPackets
<1>7. e \in (0 .. (Last - 1)) \ Due
  BY <1>2, <1>5, <1>6 DEF Numbering, Exact
<1>8. Last' = Last /\ Due' = Due /\ ForwardedPackets' = ForwardedPackets
  BY <1>1 DEF Last, Due, ForwardedPackets
<1>9. Numbering'
  BY <1>1, <1>2, <1>8 DEF Numbering
<1>10. Last \in Nat
  BY DEF Last, TypeOK, Sessions
<1>11. server'.expect <= Last'
  BY <1>5, <1>7, <1>8, <1>10
<1>12. RetryPhase'
  <2>1. auth # <<>> => server'.expect <= 1
    <3>1. auth # <<>> => e <= 1 /\ e # 1
      BY <1>2, <1>5, <1>7 DEF RetryPhase, Due
    <3>2. QED
      BY <1>5, <3>1
  <2>2. QED
    BY <1>1, <1>2, <2>1 DEF RetryPhase, Unseen, Unrelayed
<1>13. PICK n \in Nat : Len(server.stream) = n /\ DOMAIN server.stream = 1 .. n
  BY StreamDomain
<1>14. PICK k \in Nat : k = Len(answer) /\ k > 0
  BY <1>4
<1>15. /\ Len(server'.stream) = n + k
       /\ \A j \in 1 .. n : server'.stream[j] = server.stream[j]
       /\ \A j \in 1 .. k : server'.stream[n + j] = answer[j]
       /\ \A j \in DOMAIN server'.stream : j \in 1 .. n \/ j - n \in 1 .. k
  BY <1>4, <1>13, <1>14, StreamGrows
<1>16. Answered'
  <2>1. CASE e = 0
    <3>1. answer = <<"Hello">>
      BY <1>2, <1>4, <1>5, <1>6, <2>1 DEF Numbering, Answers
    <3>2. n = 0 /\ k = 1 /\ answer[1] = "Hello"
      BY <1>2, <1>5, <1>13, <1>14, <2>1, <3>1 DEF Answered
    <3>3. \A j \in DOMAIN server'.stream : j = 1 /\ server'.stream[j] = "Hello"
      BY <1>15, <3>2
    <3>4. QED
      BY <1>5, <1>11, <1>15, <2>1, <3>2, <3>3 DEF Answered
  <2>2. CASE e = 1
    <3>1. answer \in {<<"Good">>, <<"SsoRejected">>, <<"Rejected">>}
      BY <1>2, <1>4, <1>5, <1>6, <2>2 DEF Numbering, Answers
    <3>2. n = 1 /\ k = 1 /\ answer[1] \in LoginAnswers
      BY <1>2, <1>5, <1>13, <1>14, <2>2, <3>1 DEF Answered, LoginAnswers, Rejections
    <3>3. \A j \in DOMAIN server'.stream : j = 1 \/ (j = 2 /\ server'.stream[j] \in LoginAnswers)
      BY <1>15, <3>2
    <3>4. server'.stream[1] = "Hello"
      BY <1>2, <1>13, <1>15, <3>2 DEF Answered
    <3>5. QED
      BY <1>5, <1>11, <1>15, <2>2, <3>2, <3>3, <3>4 DEF Answered
  <2>3. CASE e >= 2
    <3>1. n >= 2
      BY <1>2, <1>5, <1>13, <2>3 DEF Answered
    <3>2. \A j \in DOMAIN server'.stream : j \in {1, 2} => server'.stream[j] = server.stream[j]
      BY <1>15, <3>1
    <3>3. \A j \in DOMAIN server'.stream : /\ j = 1 => server'.stream[j] = "Hello"
                                           /\ j = 2 => server'.stream[j] \in LoginAnswers
      BY <1>2, <1>13, <3>1, <3>2 DEF Answered
    <3>4. QED
      BY <1>5, <1>11, <1>14, <1>15, <2>3, <3>1, <3>3 DEF Answered
  <2>4. QED
    BY <2>1, <2>2, <2>3
<1>17. QED
  BY <1>1, <1>3, <1>9, <1>12, <1>16 DEF NumbersInv, AckedWasIssued

LEMMA NumbersStep ==
  ASSUME ~Impatient, ~ClientRetransmits, ~IdleGaps, ~RepeatedResponses, MaxClient < SeqMod
  PROVE  TypeOK /\ RetryInv /\ StreamInv /\ AckInv /\ NumbersInv /\ [Next]_vars => NumbersInv'
<1> SUFFICES ASSUME TypeOK, RetryInv, StreamInv, AckInv, NumbersInv, [Next]_vars
             PROVE  NumbersInv'
  OBVIOUS
<1>1. CASE ClientIssues
  BY <1>1, IssueNumbers
<1>2. CASE ClientRepeats
  BY <1>2 DEF ClientRepeats
<1>3. CASE ClientAcks
  <2>1. client.open /\ UNCHANGED <<client, shown>> /\ HandleClientData(<<ClientAck>>)
        /\ shown # <<>>
    BY <1>3 DEF ClientAcks, clientVars
  <2>2. session' = session /\ retry' = retry /\ server' = server
    BY <2>1 DEF HandleClientData, StreamInv, CurrentSession, CurrentRetry, Lapsed
  <2>3. ForwardClientData(<<ClientAck>>)
    BY <2>1 DEF HandleClientData, DropLogin, StartAuth, NeedsSso
  <2>4. auth' = auth
        /\ toServer' = toServer \cup SubsOf(SyncRewrite(Adjust(session, <<ClientAck>>)))
    BY <2>1, <2>2, <2>3 DEF ForwardClientData, SendToLoginServer, HandleClientData
  <2>5. \A m \in SubsOf(SyncRewrite(Adjust(session, <<ClientAck>>))) : m.op = "Ack"
    <3>1. <<ClientAck>> \in Datagrams /\ session \in Sessions
      BY <2>1, ClientAckType DEF Datagrams, TypeOK
    <3>2. Adjust(session, <<ClientAck>>) \in Datagrams
          /\ DOMAIN Adjust(session, <<ClientAck>>) = {1}
          /\ Adjust(session, <<ClientAck>>)[1].op = "Ack"
      <4>1. DOMAIN Adjust(session, <<ClientAck>>) = {1}
        BY DEF Adjust
      <4>2. 1 \in DOMAIN <<ClientAck>> /\ <<ClientAck>>[1] = ClientAck
        OBVIOUS
      <4>3. QED
        BY <3>1, <4>1, <4>2, AdjustType DEF ClientAck, Ack
    <3>3. DOMAIN SyncRewrite(Adjust(session, <<ClientAck>>)) = {1}
      BY <3>2 DEF SyncRewrite, WithCredentials
    <3>4. SyncRewrite(Adjust(session, <<ClientAck>>))[1].op = "Ack"
      BY <3>2, RewrittenSubs
    <3>5. QED
      BY <3>3, <3>4 DEF SubsOf
  <2>6. PacketsOf(toServer') = PacketsOf(toServer)
    BY <2>4, <2>5 DEF PacketsOf
  <2>7. QED
    BY <2>1, <2>2, <2>4, <2>6, QuietNumbers
<1>4. CASE ClientKeepsAlive
  <2>1. client.open /\ UNCHANGED <<auth, client, shown, server, toServer>>
        /\ session' = CurrentSession /\ retry' = CurrentRetry
    BY <1>4 DEF ClientKeepsAlive, clientVars, serverVars
  <2>2. session' = session /\ retry' = retry
    BY <2>1 DEF StreamInv, CurrentSession, CurrentRetry, Lapsed
  <2>3. QED
    BY <2>1, <2>2, QuietNumbers
<1>5. CASE ClientConnects
  <2>1. ~client'.open /\ client'.next = 0 /\ client'.acked = -1
    BY <1>5 DEF ClientConnects
  <2>2. QED
    BY <2>1 DEF NumbersInv, AckedWasIssued
<1>6. CASE ClientDisconnects
  <2>1. ~client'.open /\ client'.next = client.next /\ client'.acked = client.acked
    BY <1>6 DEF ClientDisconnects, TypeOK
  <2>2. ~server'.opening
    BY <1>6 DEF ClientDisconnects, NoServer
  <2>3. QED
    BY <2>1, <2>2 DEF NumbersInv, AckedWasIssued
<1>7. CASE ClientIdles
  BY <1>7 DEF ClientIdles
<1>8. CASE AuthEnds
  BY <1>8, AuthNumbers
<1>9. ASSUME NEW i \in DOMAIN server.stream
      PROVE  client.open
  BY <1>9 DEF AckInv, Apart
<1>10. ASSUME NEW i \in DOMAIN server.stream, ServerSendsPacket(i)
       PROVE  NumbersInv'
  BY <1>9, <1>10, ServerSendsPacketSent, ServerDataNumbers
<1>11. ASSUME NEW i \in DOMAIN server.stream, ServerSendsFragment(i)
       PROVE  NumbersInv'
  <2>1. PICK f \in Fragments : HandleFragment(f)
    BY <1>11, ServerSendsFragmentData
  <2>2. UNCHANGED <<retry, auth, client, server, toServer>>
        /\ session'.csOffset = session.csOffset
    BY <2>1, RecvFragmentType DEF HandleFragment, TypeOK
  <2>3. \A i2 \in DOMAIN shown' : shown'[i2].item = "List"
          \/ (i2 \in DOMAIN shown /\ shown'[i2] = shown[i2])
    <3>1. [seq |-> session.seqToClient, item |-> "List"] \in ShownPackets
          /\ shown \in Seq(ShownPackets)
      BY DEF TypeOK, Sessions, ShownPackets
    <3>2. shown' = shown
            \/ shown' = Append(shown, [seq |-> session.seqToClient, item |-> "List"])
      BY <2>1 DEF HandleFragment
    <3>3. QED
      BY <3>1, <3>2, AppendItems
  <2>4. Unseen(Unrelayed, "Good") => Unseen(Unrelayed, "Good")'
    BY <2>3 DEF Unseen, Unrelayed
  <2>5. RetryPhase => RetryPhase'
    BY <2>2, <2>4 DEF RetryPhase
  <2>6. (Numbering => Numbering') /\ (Answered => Answered')
    BY <2>2 DEF Numbering, Answered, Last, Due, ForwardedPackets
  <2>7. QED
    BY <2>2, <2>5, <2>6 DEF NumbersInv, AckedWasIssued
<1>12. CASE ServerSendsAck
  <2>1. client.open
    BY <1>12, ServerSendsAckSent DEF AckInv, Apart
  <2>2. QED
    BY <1>12, <2>1, ServerSendsAckSent, ServerDataNumbers
<1>13. CASE ServerResponds
  <2>1. server.opening /\ client.next = 0 /\ ~client.open
    BY <1>13 DEF ServerResponds, NumbersInv, StreamInv
  <2>2. session' = NewSession /\ retry' = NoRetry /\ UNCHANGED <<auth, shown, toServer>>
    BY <1>13 DEF ServerResponds
  <2>3. /\ client'.open /\ client'.next = 0 /\ client'.acked = client.acked
        /\ ~server'.opening /\ server'.expect = server.expect
        /\ server'.stream = server.stream
    BY <1>13, <2>1 DEF ServerResponds, TypeOK
  <2>4. auth' = <<>> /\ toServer' = {} /\ server'.stream = <<>> /\ server'.expect = 0
    BY <2>1, <2>2, <2>3 DEF AckInv, Apart
  <2>5. Last' = 0 /\ Due' = {} /\ ForwardedPackets' = {}
    BY <2>2, <2>3, <2>4 DEF Last, Due, NewSession, ForwardedPackets
  <2>6. Numbering'
    BY <2>3, <2>5, ProxyAssumption DEF Numbering, Exact
  <2>7. RetryPhase'
    BY <2>2, <2>3, <2>4 DEF RetryPhase, NewSession, NoRetry
  <2>8. Answered'
    BY <2>4, <2>5 DEF Answered
  <2>9. AckedWasIssued'
    BY <2>1, <2>3 DEF NumbersInv, AckedWasIssued
  <2>10. QED
    BY <2>3, <2>6, <2>7, <2>8, <2>9 DEF NumbersInv
<1>14. CASE ServerReceives
  BY <1>14, ReceivesNumbers
<1>15. CASE UNCHANGED vars
  BY <1>15, QuietNumbers DEF vars, proxyVars, clientVars, serverVars
<1>16. QED
  BY <1>1, <1>2, <1>3, <1>4, <1>5, <1>6, <1>7, <1>8, <1>10, <1>11, <1>12, <1>13,
     <1>14, <1>15
  DEF Next, ClientStep, ServerSends

LEMMA NumbersExact ==
  ASSUME TypeOK, NumbersInv
  PROVE  ServerStreamExact /\ AckedWasIssued
<1> SUFFICES ASSUME client.open PROVE ServerStreamExact
  BY DEF NumbersInv, ServerStreamExact
<1>1. Numbering /\ RetryPhase
  BY DEF NumbersInv
<1>2. PICK last \in Nat : last = client.next + session.csOffset
  BY DEF TypeOK, Sessions
<1>3. Exact(ForwardedPackets, (0 .. (last - 1)) \ Due)
  BY <1>1, <1>2 DEF Numbering, Last
<1>4. IsFiniteSet((0 .. (last - 1)) \ Due)
  <2>1. IsFiniteSet(0 .. (last - 1))
    BY FS_Interval
  <2>2. QED
    BY <2>1, FS_Subset
<1>5. PICK used : used = {m.seq : m \in ForwardedPackets}
  OBVIOUS
<1>6. Cardinality(ForwardedPackets) = Cardinality(used)
  BY <1>3, <1>4, <1>5, ExactCardinality
<1>7. used = (0 .. (last - 1)) \ Due
  BY <1>3, <1>5 DEF Exact
<1>8. Due = (IF auth = <<>> THEN {} ELSE {auth[2].seq}) /\ Due \subseteq 0 .. (last - 1)
  <2>1. CASE auth = <<>>
    BY <2>1 DEF Due
  <2>2. CASE auth # <<>>
    <3>1. auth[2].seq = 1 /\ client.next = 2 /\ session.csOffset = 0
      BY <1>1, <2>2 DEF RetryPhase, Replayable
    <3>2. QED
      BY <1>2, <2>2, <3>1 DEF Due
  <2>3. QED
    BY <2>1, <2>2
<1>9. used \cup Due = 0 .. (last - 1) /\ used \cap Due = {}
  BY <1>7, <1>8
<1>10. PICK due : due = IF auth = <<>> THEN {} ELSE {auth[2].seq}
  OBVIOUS
<1>11. used \cup due = 0 .. (client.next + session.csOffset - 1) /\ used \cap due = {}
  <2>1. due = Due
    BY <1>8, <1>10
  <2>2. client.next + session.csOffset - 1 = last - 1
    <3>1. PICK n \in Nat, cs \in Nat : n = client.next /\ cs = session.csOffset
      BY DEF TypeOK, Sessions
    <3>2. last = n + cs
      BY <1>2, <3>1
    <3>3. n + cs - 1 = last - 1
      BY <3>2
    <3>4. QED
      BY <3>1, <3>3
  <2>3. QED
    BY <1>9, <2>1, <2>2
<1>12. QED
  BY <1>5, <1>6, <1>10, <1>11 DEF ServerStreamExact

LEMMA NumbersAlways ==
  ASSUME ~Impatient, ~ClientRetransmits, ~IdleGaps, ~RepeatedResponses, MaxClient < SeqMod
  PROVE  Spec => [](TypeOK /\ RetryInv /\ StreamInv /\ AckInv /\ NumbersInv)
<1>1. Init => RetryInv /\ StreamInv /\ NumbersInv
  BY DEF Init, NoRetry, NoServer, RetryInv, RetryConsistent, AuthIsLogin, StreamInv,
         ClientStreamContiguous, NumbersInv, AckedWasIssued
<1>2. TypeOK /\ StreamInv /\ [Next]_vars => StreamInv'
  BY StreamStep
<1>3. TypeOK /\ RetryInv /\ AckInv /\ [Next]_vars => AckInv'
  BY AckStep
<1>4. TypeOK /\ RetryInv /\ StreamInv /\ AckInv /\ NumbersInv /\ [Next]_vars => NumbersInv'
  BY NumbersStep
<1>5. QED
  BY <1>1, <1>2, <1>3, <1>4, AckInit, TypeCorrect, RetryStep, PTL DEF Spec

(* The client's packets, the SSO login and the replay fill the server's      *)
(* number space without hole or repeat, on any link: cs_offset shifts the    *)
(* packets after a replay by one and nothing else, and the Login that waits  *)
(* for the SSO keeps its number. The session is shorter than the sequence    *)
(* space, which the code reduces by only after a replay.                     *)
THEOREM NumbersAreExact ==
  ASSUME ~Impatient, ~ClientRetransmits, ~IdleGaps, ~RepeatedResponses, MaxClient < SeqMod
  PROVE  Spec => []ServerStreamExact
<1>1. TypeOK /\ NumbersInv => ServerStreamExact
  BY NumbersExact
<1>2. QED
  BY <1>1, NumbersAlways, PTL

(* The client is acknowledged only what it has issued, on any link: an Ack   *)
(* older than the replay, or one for the replay itself, is translated back   *)
(* into the client's own numbers.                                            *)
THEOREM NoForeignAck ==
  ASSUME ~Impatient, ~ClientRetransmits, ~IdleGaps, ~RepeatedResponses, MaxClient < SeqMod
  PROVE  Spec => []AckedWasIssued
<1>1. TypeOK /\ NumbersInv => AckedWasIssued
  BY NumbersExact
<1>2. QED
  BY <1>1, NumbersAlways, PTL

=============================================================================
