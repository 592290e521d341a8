------------------------ MODULE LoginReliable_proofs ------------------------
(***************************************************************************)
(* A session of LoginProxy on a link that hands over the server's          *)
(* datagrams once each and in order: every packet of the server is counted *)
(* as received, none is acknowledged before it came, and the rejection of  *)
(* the password from the SSO stays in the proxy.                           *)
(***************************************************************************)
EXTENDS LoginNumbers_proofs

----------------------------------------------------------------------------
(* The datagram whose turn it is *)

(* The next k packets of the server are in d, in the shapes it sends. *)
InTurn(d, k) ==
  LET next == session.seqFromServer + 1
  IN  /\ session.seqFromServer + k <= Len(server.stream)
      /\ \/ k = 0 /\ \E a \in ServerAcks : d = <<a>>
         \/ k = 1 /\ \/ d = <<ServerPacket(next)>>
                     \/ \E a \in ServerAcks : d = <<a, ServerPacket(next)>>
         \/ k = 2 /\ d = <<ServerPacket(next), ServerPacket(next + 1)>>

(* None of them is a fragment. *)
Unfragmented(k) ==
  \A p \in (session.seqFromServer + 1) .. (session.seqFromServer + k) :
    server.stream[p] \notin FragmentItems

(* Everything that has arrived has been counted. *)
Counted == arrived = 0 .. (session.seqFromServer - 1)

LEMMA IntervalGrows ==
  ASSUME NEW s \in Nat
  PROVE  /\ (0 .. (s - 1)) \cup {s} = 0 .. ((s + 1) - 1)
         /\ (0 .. (s - 1)) \cup {s, s + 1} = 0 .. ((s + 2) - 1)
         /\ Cardinality(0 .. (s - 1)) = s
<1>1. s - 1 \in Int /\ 0 \in Int
  OBVIOUS
<1>2. Cardinality(0 .. (s - 1)) = IF 0 > s - 1 THEN 0 ELSE (s - 1) - 0 + 1
  BY <1>1, FS_Interval
<1>3. QED
  BY <1>2

LEMMA PacketInTurn ==
  ASSUME ~LossyServerLink, TypeOK, Counted, NEW i \in DOMAIN server.stream, MayArrive(i)
  PROVE  i = session.seqFromServer + 1 /\ i <= Len(server.stream)
<1>1. PICK s \in Nat : s = session.seqFromServer
  BY DEF TypeOK, Sessions
<1>2. Cardinality(arrived) = s
  BY <1>1, IntervalGrows DEF Counted
<1>3. PICK m \in Nat : Len(server.stream) = m /\ DOMAIN server.stream = 1 .. m
  BY StreamDomain
<1>4. QED
  BY <1>1, <1>2, <1>3 DEF MayArrive

LEMMA SendsInTurn ==
  ASSUME ~LossyServerLink, TypeOK, Counted, NEW i \in DOMAIN server.stream,
         ServerSendsPacket(i)
  PROVE  \E k \in {1, 2} : \E d \in SentDatagrams :
           /\ InTurn(d, k) /\ Unfragmented(k) /\ HandleServerData(d)
           /\ arrived' = 0 .. (session.seqFromServer + k - 1)
<1>1. PICK s \in Nat : s = session.seqFromServer
  BY DEF TypeOK, Sessions
<1>2. PICK m \in Nat : Len(server.stream) = m /\ DOMAIN server.stream = 1 .. m
  BY StreamDomain
<1>3. i = s + 1 /\ i <= m
  BY <1>1, <1>2, PacketInTurn DEF ServerSendsPacket, Sequenced
<1>4. Sent(ServerPacket(i)) /\ ServerPacket(i) \in ServerSubs
  BY ServerPacketSent, ServerDatagramType
<1>4a. server.stream[i] \notin FragmentItems
  BY DEF ServerSendsPacket, Sequenced
<1>4b. Unfragmented(1)
  BY <1>1, <1>3, <1>4a DEF Unfragmented
<1>5. CASE /\ \/ HandleServerData(<<ServerPacket(i)>>)
              \/ \E a \in ServerAcks : HandleServerData(<<a, ServerPacket(i)>>)
           /\ arrived' = arrived \cup {i - 1}
  <2>1. arrived' = 0 .. (s + 1 - 1)
    BY <1>1, <1>3, <1>5, IntervalGrows DEF Counted
  <2>2. ASSUME HandleServerData(<<ServerPacket(i)>>)
        PROVE  \E d \in SentDatagrams : InTurn(d, 1) /\ HandleServerData(d)
    <3>1. <<ServerPacket(i)>> \in SentDatagrams
      BY <1>4 DEF SentDatagrams
    <3>2. InTurn(<<ServerPacket(i)>>, 1)
      BY <1>1, <1>2, <1>3 DEF InTurn
    <3>3. QED
      BY <2>2, <3>1, <3>2
  <2>3. ASSUME NEW a \in ServerAcks, HandleServerData(<<a, ServerPacket(i)>>)
        PROVE  \E d \in SentDatagrams : InTurn(d, 1) /\ HandleServerData(d)
    <3>1. Sent(a) /\ a \in ServerSubs
      BY ServerAckSent, ServerAckType
    <3>2. <<a, ServerPacket(i)>> \in SentDatagrams
      BY <1>4, <3>1 DEF SentDatagrams
    <3>3. InTurn(<<a, ServerPacket(i)>>, 1)
      BY <1>1, <1>2, <1>3 DEF InTurn
    <3>4. QED
      BY <2>3, <3>2, <3>3
  <2>4. PICK d \in SentDatagrams : InTurn(d, 1) /\ HandleServerData(d)
    BY <1>5, <2>2, <2>3
  <2>5. arrived' = 0 .. (session.seqFromServer + 1 - 1)
    BY <1>1, <2>1
  <2>6. QED
    BY <1>4b, <2>4, <2>5
<1>6. CASE /\ i + 1 \in DOMAIN server.stream
           /\ server.stream[i + 1] \notin FragmentItems
           /\ HandleServerData(<<ServerPacket(i), ServerPacket(i + 1)>>)
           /\ arrived' = arrived \cup {i - 1, i}
  <2>1. arrived' = 0 .. (s + 2 - 1)
    BY <1>1, <1>3, <1>6, IntervalGrows DEF Counted
  <2>2. Sent(ServerPacket(i + 1)) /\ ServerPacket(i + 1) \in ServerSubs
    BY <1>6, ServerPacketSent, ServerDatagramType
  <2>3. <<ServerPacket(i), ServerPacket(i + 1)>> \in SentDatagrams
    BY <1>4, <2>2 DEF SentDatagrams
  <2>4. InTurn(<<ServerPacket(i), ServerPacket(i + 1)>>, 2)
    BY <1>1, <1>2, <1>3, <1>6 DEF InTurn
  <2>5. Unfragmented(2)
    <3>1. \A p \in (s + 1) .. (s + 2) : p = i \/ p = i + 1
      BY <1>3
    <3>2. QED
      BY <1>1, <1>4a, <1>6, <3>1 DEF Unfragmented
  <2>6. QED
    BY <1>1, <1>6, <2>1, <2>3, <2>4, <2>5
<1>7. QED
  BY <1>5, <1>6 DEF ServerSendsPacket

LEMMA AcksInTurn ==
  ASSUME TypeOK, FromServer(Unrelayed), ServerSendsAck
  PROVE  \E d \in SentDatagrams : InTurn(d, 0) /\ HandleServerData(d)
<1>1. PICK a \in ServerAcks : HandleServerData(<<a>>)
  BY DEF ServerSendsAck
<1>2. <<a>> \in SentDatagrams
  BY ServerAckSent, ServerAckType DEF SentDatagrams
<1>3. session.seqFromServer + 0 <= Len(server.stream)
  BY DEF FromServer, Unrelayed, TypeOK, Sessions
<1>4. InTurn(<<a>>, 0)
  BY <1>3 DEF InTurn
<1>5. QED
  BY <1>1, <1>2, <1>4

LEMMA RelayedCount ==
  ASSUME NEW st \in RelayStates, NEW sub \in ServerSubs
  PROVE  /\ sub.op = "Ack" => Relayed(st, sub).session.seqFromServer = st.session.seqFromServer
         /\ sub.op = "Packet" /\ sub.seq = st.session.seqFromServer =>
              Relayed(st, sub).session.seqFromServer = st.session.seqFromServer + 1
  BY RelayedParts

LEMMA TurnRelayed ==
  ASSUME TypeOK, NEW k \in 0 .. 2, NEW d \in SentDatagrams, InTurn(d, k)
  PROVE  RelayedAll(Unrelayed, d).session.seqFromServer = session.seqFromServer + k
<1>1. PICK s \in Nat : s = session.seqFromServer
  BY DEF TypeOK, Sessions
<1>2. Unrelayed \in RelayStates /\ Unrelayed.session.seqFromServer = s
  BY <1>1, UnrelayedType DEF Unrelayed
<1>3. PICK m \in Nat : Len(server.stream) = m /\ DOMAIN server.stream = 1 .. m
  BY StreamDomain
<1>4. \A p \in 1 .. m : /\ ServerPacket(p) \in ServerSubs /\ ServerPacket(p).op = "Packet"
                        /\ ServerPacket(p).seq = p - 1
  BY <1>3, ServerDatagramType DEF ServerPacket
<1>5. \A a \in ServerAcks : a \in ServerSubs /\ a.op = "Ack"
  BY ServerAckType DEF ServerAcks, ServerAck
<1>6. ASSUME NEW a \in ServerAcks, k = 0, d = <<a>>
      PROVE  RelayedAll(Unrelayed, d).session.seqFromServer = s
  <2>1. RelayedAll(Unrelayed, d) = Relayed(Unrelayed, a)
    BY <1>6 DEF RelayedAll
  <2>2. QED
    BY <1>2, <1>5, <2>1, RelayedCount
<1>7. CASE k = 1 /\ d = <<ServerPacket(s + 1)>>
  <2>1. RelayedAll(Unrelayed, d) = Relayed(Unrelayed, ServerPacket(s + 1))
    BY <1>7 DEF RelayedAll
  <2>2. s + 1 \in 1 .. m
    BY <1>1, <1>3, <1>7 DEF InTurn
  <2>3. QED
    BY <1>1, <1>2, <1>4, <1>7, <2>1, <2>2, RelayedCount
<1>8. ASSUME NEW a \in ServerAcks, k = 1, d = <<a, ServerPacket(s + 1)>>
      PROVE  RelayedAll(Unrelayed, d).session.seqFromServer = s + 1
  <2>1. RelayedAll(Unrelayed, d) = Relayed(Relayed(Unrelayed, a), ServerPacket(s + 1))
    BY <1>8 DEF RelayedAll
  <2>2. s + 1 \in 1 .. m
    BY <1>1, <1>3, <1>8 DEF InTurn
  <2>3. /\ Relayed(Unrelayed, a) \in RelayStates
        /\ Relayed(Unrelayed, a).session.seqFromServer = s
    BY <1>2, <1>5, RelayedType, RelayedCount
  <2>4. QED
    BY <1>4, <2>1, <2>2, <2>3, RelayedCount
<1>9. CASE k = 2 /\ d = <<ServerPacket(s + 1), ServerPacket(s + 1 + 1)>>
  <2>1. RelayedAll(Unrelayed, d)
          = Relayed(Relayed(Unrelayed, ServerPacket(s + 1)), ServerPacket(s + 1 + 1))
    BY <1>9 DEF RelayedAll
  <2>2. s + 1 \in 1 .. m /\ s + 1 + 1 \in 1 .. m
    BY <1>1, <1>3, <1>9 DEF InTurn
  <2>3. /\ Relayed(Unrelayed, ServerPacket(s + 1)) \in RelayStates
        /\ Relayed(Unrelayed, ServerPacket(s + 1)).session.seqFromServer = s + 1
    BY <1>2, <1>4, <2>2, RelayedType, RelayedCount
  <2>4. QED
    BY <1>1, <1>4, <1>9, <2>1, <2>2, <2>3, RelayedCount
<1>10. QED
  BY <1>1, <1>6, <1>7, <1>8, <1>9 DEF InTurn

(* Which packets are in the datagram. *)
LEMMA TurnPackets ==
  ASSUME TypeOK, NEW k \in 0 .. 2, NEW d, InTurn(d, k), NEW s \in Nat,
         s = session.seqFromServer
  PROVE  /\ \A j \in DOMAIN d : \/ d[j].op = "Ack" /\ d[j].item = "none"
                                \/ \E p \in (s + 1) .. (s + k) : d[j] = ServerPacket(p)
         /\ \A p \in (s + 1) .. (s + k) : \E j \in {1, 2} : j \in DOMAIN d /\ d[j] = ServerPacket(p)
         /\ DOMAIN d = {1} \/ DOMAIN d = {1, 2}
<1>1. \A a \in ServerAcks : a.op = "Ack" /\ a.item = "none"
  BY DEF ServerAcks, ServerAck
<1> DEFINE first == ServerPacket(s + 1)
           second == ServerPacket(s + 1 + 1)
<1>2. \/ k = 0 /\ \E a \in ServerAcks : d = <<a>>
      \/ k = 1 /\ d = <<first>>
      \/ k = 1 /\ \E a \in ServerAcks : d = <<a, first>>
      \/ k = 2 /\ d = <<first, second>>
  BY DEF InTurn
<1>3. \A p \in (s + 1) .. (s + k) : p = s + 1 \/ (k = 2 /\ p = s + 1 + 1)
  OBVIOUS
<1>4. \A p \in (s + 1) .. (s + k) : \/ ServerPacket(p) = first
                                    \/ k = 2 /\ ServerPacket(p) = second
  BY <1>3
<1>5. /\ k >= 1 => \E p \in (s + 1) .. (s + k) : first = ServerPacket(p)
      /\ k = 2 => \E p \in (s + 1) .. (s + k) : second = ServerPacket(p)
  <2>1. (k >= 1 => s + 1 \in (s + 1) .. (s + k)) /\ (k = 2 => s + 1 + 1 \in (s + 1) .. (s + k))
    OBVIOUS
  <2>2. QED
    BY <2>1
<1> HIDE DEF first, second
<1>6. CASE k = 0 /\ \E a \in ServerAcks : d = <<a>>
  BY <1>1, <1>6
<1>7. CASE k = 1 /\ d = <<first>>
  BY <1>4, <1>5, <1>7
<1>8. CASE k = 1 /\ \E a \in ServerAcks : d = <<a, first>>
  BY <1>1, <1>4, <1>5, <1>8
<1>9. CASE k = 2 /\ d = <<first, second>>
  BY <1>4, <1>5, <1>9
<1>10. QED
  BY <1>2, <1>6, <1>7, <1>8, <1>9

(* While a retry is armed the answer to the Login is the last thing sent. *)
LEMMA ArmedAnswers ==
  ASSUME TypeOK, NumbersInv, client.open, retry.armed
  PROVE  Len(server.stream) <= 2
<1>1. Numbering /\ RetryPhase /\ Answered
  BY DEF NumbersInv
<1>2. Last = 2
  BY <1>1 DEF RetryPhase, Last
<1>3. PICK e \in Nat : e = server.expect /\ e <= 2
  BY <1>1, <1>2 DEF Answered, TypeOK
<1>4. Len(server.stream) = e
  BY <1>1, <1>3 DEF Answered
<1>5. QED
  BY <1>3, <1>4

LEMMA TurnAnswer ==
  ASSUME TypeOK, NumbersInv, client.open, NEW k \in 0 .. 2, NEW d \in SentDatagrams,
         InTurn(d, k), Intercepts(d)
  PROVE  /\ Len(server.stream) = 2 /\ session.seqFromServer + k = 2
         /\ d[AnswerIn(d)].seq = 1 /\ d[AnswerIn(d)].item = server.stream[2]
         /\ \A j \in DOMAIN d : j # AnswerIn(d) => d[j].item \notin LoginAnswers
<1>1. PICK s \in Nat : s = session.seqFromServer
  BY DEF TypeOK, Sessions
<1>2. PICK m \in Nat : Len(server.stream) = m /\ DOMAIN server.stream = 1 .. m
  BY StreamDomain
<1>3. m <= 2 /\ s + k <= m
  BY <1>1, <1>2, ArmedAnswers DEF Intercepts, InTurn
<1>4. Answered
  BY DEF NumbersInv
<1>5. PICK a : a = AnswerIn(d) /\ a \in DOMAIN d /\ d[a].item \in LoginAnswers
  BY AnswerIsSent
<1>6. PICK p \in (s + 1) .. (s + k) : d[a] = ServerPacket(p)
  BY <1>1, <1>5, TurnPackets DEF LoginAnswers, Rejections
<1>7. p \in 1 .. m /\ ServerPacket(p).item = server.stream[p] /\ ServerPacket(p).seq = p - 1
  BY <1>3, <1>6 DEF ServerPacket
<1>8. p # 1
  BY <1>2, <1>4, <1>5, <1>6, <1>7 DEF Answered, LoginAnswers, Rejections
<1>9. p = 2 /\ m = 2 /\ s + k = 2
  BY <1>3, <1>6, <1>7, <1>8
<1>10. \A j \in DOMAIN d : j # a => d[j].item \notin LoginAnswers
  <2>1. DOMAIN d = {1} \/ DOMAIN d = {1, 2}
    BY <1>1, TurnPackets
  <2>2. CASE k = 2
    <3>1. s = 0 /\ d = <<ServerPacket(1), ServerPacket(2)>>
      BY <1>1, <1>9, <2>2 DEF InTurn
    <3>2. d[1].item \notin LoginAnswers
      BY <1>2, <1>4, <1>9, <3>1 DEF ServerPacket, Answered, LoginAnswers, Rejections
    <3>3. a = 2
      BY <1>5, <2>1, <3>2
    <3>4. QED
      BY <2>1, <3>2, <3>3
  <2>3. CASE k # 2
    <3>1. s = 1 /\ k = 1
      BY <1>3, <1>6, <1>9, <2>3
    <3>2. CASE d = <<ServerPacket(2)>>
      BY <1>5, <3>2
    <3>3. ASSUME NEW ack \in ServerAcks, d = <<ack, ServerPacket(2)>>
          PROVE  \A j \in DOMAIN d : j # a => d[j].item \notin LoginAnswers
      <4>1. d[1].item \notin LoginAnswers
        BY <3>3 DEF ServerAcks, ServerAck, LoginAnswers, Rejections
      <4>2. a = 2
        BY <1>5, <2>1, <4>1
      <4>3. QED
        BY <2>1, <4>1, <4>2
    <3>4. QED
      BY <1>1, <3>1, <3>2, <3>3 DEF InTurn
  <2>4. QED
    BY <2>2, <2>3
<1>11. QED
  BY <1>1, <1>2, <1>5, <1>6, <1>7, <1>9, <1>10

----------------------------------------------------------------------------
(* Everything that has come is counted, and nothing else is acknowledged *)

(* AcksAreTruthful and NothingLeftUnacked are one fact once seq_from_server  *)
(* is known to count what has arrived; it stays so because an intercepted    *)
(* answer is the last thing the server sent, so that counting the withheld   *)
(* rejection passes over no packet.                                          *)
CountedInv ==
  /\ ~client.open => arrived = {}
  /\ client.open =>
       /\ Counted
       /\ Len(server.stream) <= MaxStream
       /\ AcksBelow(toServer, session.seqFromServer)
       /\ AcksBelow(SubsOf(auth), session.seqFromServer)
       /\ shown # <<>> => session.seqFromServer > 0

LEMMA AcksOfSession ==
  ASSUME NEW s \in Sessions, NEW d \in Datagrams,
         (\E i \in DOMAIN d : d[i].op = "Ack") => s.seqFromServer > 0
  PROVE  AcksBelow(SubsOf(Adjust(s, d)), s.seqFromServer)
<1> SUFFICES ASSUME NEW i \in DOMAIN Adjust(s, d), Adjust(s, d)[i].op = "Ack"
             PROVE  Adjust(s, d)[i].seq < s.seqFromServer
  BY DEF AcksBelow, SubsOf
<1>1. i \in DOMAIN d
  BY DEF Adjust
<1>2. d[i].op = "Ack"
  BY <1>1, AdjustedSubs
<1>3. Adjust(s, d)[i].seq = RewriteAck(s)
  BY <1>1, <1>2, AdjustedSubs
<1>4. PICK n \in Nat : s.seqFromServer = n /\ n > 0
  BY <1>1, <1>2 DEF Sessions
<1>5. QED
  BY <1>3, <1>4 DEF RewriteAck, Monus

LEMMA AcksStayBelow ==
  ASSUME NEW subs \in SUBSET ClientSubs, NEW m \in Nat, NEW n \in Nat, m <= n,
         AcksBelow(subs, m)
  PROVE  AcksBelow(subs, n)
  BY DEF AcksBelow, ClientSubs

LEMMA ClientDataCounted ==
  ASSUME TypeOK, StreamInv, CountedInv, NEW d \in Datagrams, HandleClientData(d),
         UNCHANGED shown, client.open, client'.open,
         (\E i \in DOMAIN d : d[i].op = "Ack") => shown # <<>>
  PROVE  CountedInv'
<1>1. session' = session /\ UNCHANGED <<server, arrived>> /\ CurrentSession = session
  BY DEF HandleClientData, StreamInv, CurrentSession, Lapsed
<1>2. AcksBelow(SubsOf(Adjust(session, d)), session.seqFromServer)
  BY AcksOfSession DEF CountedInv, TypeOK
<1>3. CASE DropLogin(d)
  BY <1>1, <1>3 DEF DropLogin, CountedInv, Counted
<1>4. CASE StartAuth(d)
  BY <1>1, <1>2, <1>4 DEF StartAuth, CountedInv, Counted
<1>5. CASE ForwardClientData(d)
  <2>1. AcksBelow(SubsOf(SyncRewrite(Adjust(session, d))), session.seqFromServer)
    BY <1>2, AdjustType, SyncAcks DEF TypeOK
  <2>2. /\ auth' = auth
        /\ toServer' = toServer \cup SubsOf(SyncRewrite(Adjust(session, d)))
    BY <1>1, <1>5 DEF ForwardClientData, SendToLoginServer
  <2>3. QED
    BY <1>1, <2>1, <2>2 DEF CountedInv, Counted, AcksBelow
<1>6. QED
  BY <1>3, <1>4, <1>5 DEF HandleClientData

(* A datagram whose turn it is moves seq_from_server past its packets,       *)
(* whether it is passed on or its rejection is withheld.                     *)
LEMMA TurnCounted ==
  ASSUME TypeOK, RetryInv, AckInv, NumbersInv, CountedInv, client.open,
         NEW k \in 0 .. 2, NEW d \in SentDatagrams, InTurn(d, k), HandleServerData(d)
  PROVE  /\ session'.seqFromServer = session.seqFromServer + k
         /\ client'.open
         /\ AcksBelow(toServer', session'.seqFromServer)
<1>1. d \in Seq(ServerSubs) /\ d # <<>>
  BY DEF SentDatagrams
<1>2. PICK s \in Nat : s = session.seqFromServer
  BY DEF TypeOK, Sessions
<1>3. AcksBelow(toServer, s) /\ toServer \in SUBSET ClientSubs
  BY <1>2 DEF CountedInv, TypeOK
<1>4. CASE PassOn(d)
  <2>1. /\ session' = RelayedAll(Unrelayed, d).session /\ toServer' = toServer
        /\ client' = [client EXCEPT !.acked = RelayedAll(Unrelayed, d).acked]
    BY <1>1, <1>4, PassOnEffect
  <2>2. session'.seqFromServer = s + k
    BY <1>2, <2>1, TurnRelayed
  <2>3. client'.open
    BY <2>1 DEF TypeOK
  <2>4. AcksBelow(toServer', s + k)
    BY <1>3, <2>1, AcksStayBelow
  <2>5. QED
    BY <1>2, <2>2, <2>3, <2>4
<1>5. CASE Intercepts(d) /\ SuppressRejection(d)
  <2>1. /\ Len(server.stream) = 2 /\ s + k = 2 /\ d[AnswerIn(d)].seq = 1
    BY <1>2, <1>5, TurnAnswer
  <2>2. PICK n \in Nat : n = 1 /\ d[AnswerIn(d)].seq = n
    BY <2>1
  <2>3. /\ Rest(d) \in RelayStates
        /\ WithoutAnswer(d) \in Seq(ServerSubs)
        /\ session' \in Sessions
        /\ session'.seqFromServer = Larger(Rest(d).session.seqFromServer, n + 1)
        /\ client' = [client EXCEPT !.acked = Rest(d).acked]
        /\ toServer' = toServer \cup {Ack(n)} \cup SubsOf(Adjust(session', retry.original))
    BY <1>1, <1>5, <2>2, SuppressEffect
  <2>4. Rest(d).session.seqFromServer <= 2
    <3>1. \A j \in DOMAIN WithoutAnswer(d) : Sent(WithoutAnswer(d)[j])
      BY <1>5, WithoutAnswerSent DEF SentDatagrams, Intercepts
    <3>2. Unrelayed \in RelayStates /\ FromServer(Unrelayed)
      BY UnrelayedType DEF AckInv
    <3>3. FromServer(RelayedAll(Unrelayed, WithoutAnswer(d)))
      BY <2>3, <3>1, <3>2, RelayedAllFromServer
    <3>4. QED
      BY <2>1, <3>3 DEF FromServer, Rest
  <2>5. session'.seqFromServer = 2
    <3>1. PICK r \in Nat : r = Rest(d).session.seqFromServer
      BY <2>3 DEF RelayStates, Sessions
    <3>2. QED
      BY <2>2, <2>3, <2>4, <3>1 DEF Larger
  <2>6. AcksBelow(SubsOf(Adjust(session', retry.original)), 2)
    <3>1. retry.original \in Datagrams
      BY DEF TypeOK
    <3>2. PICK new \in Sessions : new = session'
      BY <2>3
    <3>3. new.seqFromServer = 2
      BY <2>5, <3>2
    <3>4. AcksBelow(SubsOf(Adjust(new, retry.original)), 2)
      BY <3>1, <3>3, AcksOfSession
    <3>5. QED
      BY <3>2, <3>4
  <2>7. AcksBelow({Ack(n)}, 2)
    BY <2>2 DEF AcksBelow, Ack
  <2>8. AcksBelow(toServer, 2)
    <3>1. s <= 2
      BY <2>1
    <3>2. QED
      BY <1>3, <3>1, AcksStayBelow
  <2>9. client'.open
    BY <2>3 DEF TypeOK
  <2>10. AcksBelow(toServer', 2)
    BY <2>3, <2>6, <2>7, <2>8 DEF AcksBelow
  <2>11. QED
    BY <1>2, <2>1, <2>5, <2>9, <2>10
<1>6. QED
  BY <1>4, <1>5 DEF HandleServerData

LEMMA ServerDataCounted ==
  ASSUME TypeOK, RetryInv, AckInv, NumbersInv, CountedInv, client.open,
         NEW k \in 0 .. 2, NEW d \in SentDatagrams, InTurn(d, k), HandleServerData(d),
         arrived' = 0 .. (session.seqFromServer + k - 1),
         k = 0 => shown' = shown \/ session.seqFromServer > 0
  PROVE  CountedInv'
<1>1. UNCHANGED <<auth, server>>
  BY DEF HandleServerData
<1>2. PICK s \in Nat : s = session.seqFromServer
  BY DEF TypeOK, Sessions
<1>3. session'.seqFromServer = s + k /\ client'.open /\ AcksBelow(toServer', s + k)
  BY <1>2, TurnCounted
<1>4. arrived' = 0 .. (session'.seqFromServer - 1)
  BY <1>2, <1>3
<1>5. AcksBelow(SubsOf(auth'), s + k)
  <2>1. SubsOf(auth) \in SUBSET ClientSubs
    BY SubsOfType DEF TypeOK
  <2>2. AcksBelow(SubsOf(auth), s)
    BY <1>2 DEF CountedInv
  <2>3. QED
    BY <1>1, <2>1, <2>2, AcksStayBelow
<1>6. shown' # <<>> => s + k > 0
  BY <1>2 DEF CountedInv
<1>7. QED
  BY <1>1, <1>3, <1>4, <1>5, <1>6 DEF CountedInv, Counted

LEMMA AcksShowNothing ==
  ASSUME TypeOK, NumbersInv, client.open, NEW d \in SentDatagrams, InTurn(d, 0),
         HandleServerData(d)
  PROVE  shown' = shown \/ session.seqFromServer > 0
<1>1. CASE PassOn(d)
  <2>1. PICK a \in ServerAcks : d = <<a>>
    BY DEF InTurn
  <2>2. a \in ServerSubs /\ a.op = "Ack" /\ Unrelayed \in RelayStates
    BY ServerAckType, UnrelayedType DEF ServerAcks, ServerAck
  <2>3. RelayedAll(Unrelayed, d) = Relayed(Unrelayed, a)
    BY <2>1 DEF RelayedAll
  <2>4. Relayed(Unrelayed, a).shown = shown
    BY <2>2, RelayedParts DEF Unrelayed
  <2>5. shown' = RelayedAll(Unrelayed, d).shown
    BY <1>1, PassOnEffect DEF SentDatagrams
  <2>6. QED
    BY <2>3, <2>4, <2>5
<1>2. CASE Intercepts(d)
  <2>1. session.seqFromServer + 0 = 2
    BY <1>2, TurnAnswer
  <2>2. QED
    BY <2>1 DEF TypeOK, Sessions
<1>3. QED
  BY <1>1, <1>2 DEF HandleServerData

LEMMA FragmentCountedInv ==
  ASSUME ~LossyServerLink, MaxStream < SeqMod, TypeOK, AckInv, CountedInv,
         NEW i \in DOMAIN server.stream, ServerSendsFragment(i)
  PROVE  CountedInv' /\ i = session.seqFromServer + 1 /\ session'.seqFromServer = i
<1>1. client.open
  BY DEF AckInv, Apart
<1>2. PICK s \in Nat : s = session.seqFromServer
  BY DEF TypeOK, Sessions
<1>3. PICK m \in Nat : Len(server.stream) = m /\ DOMAIN server.stream = 1 .. m
  BY StreamDomain
<1>4. Counted /\ m <= MaxStream /\ MaxStream \in Nat /\ SeqMod \in Nat
  BY <1>1, <1>3, ProxyAssumption, SeqModAssumption DEF CountedInv
<1>5. i = s + 1 /\ i <= m
  BY <1>2, <1>3, <1>4, PacketInTurn DEF ServerSendsFragment
<1>6. PICK total \in IF server.stream[i] = "Head" THEN {NFrags} ELSE GarbageTotals :
        HandleFragment(ServerFragment(i, total))
  BY DEF ServerSendsFragment
<1>7. total \in Nat
  BY <1>6, ProxyAssumption
<1> DEFINE f == ServerFragment(i, total)
<1>8. f \in Fragments /\ f.seq = (i - 1) % SeqMod
  BY <1>7, ServerFragmentType DEF ServerFragment
<1>9. session'.seqFromServer = (((i - 1) % SeqMod) + 1) % SeqMod
  BY <1>6, <1>8, FragmentCounted DEF HandleFragment, TypeOK
<1>10. session'.seqFromServer = s + 1
  <2>1. s < SeqMod /\ s + 1 < SeqMod
    BY <1>4, <1>5
  <2>2. s % SeqMod = s /\ (s + 1) % SeqMod = s + 1
    BY <1>4, <2>1
  <2>3. QED
    BY <1>5, <1>9, <2>2
<1>11. UNCHANGED <<auth, client, server, toServer>> /\ arrived' = arrived \cup {i - 1}
  BY <1>6 DEF HandleFragment, ServerSendsFragment
<1>12. arrived' = 0 .. (s + 1 - 1)
  BY <1>2, <1>4, <1>5, <1>11, IntervalGrows DEF Counted
<1>13. AcksBelow(toServer, s + 1) /\ AcksBelow(SubsOf(auth), s + 1)
  <2>1. toServer \in SUBSET ClientSubs /\ SubsOf(auth) \in SUBSET ClientSubs
    BY SubsOfType DEF TypeOK
  <2>2. AcksBelow(toServer, s) /\ AcksBelow(SubsOf(auth), s)
    BY <1>1, <1>2 DEF CountedInv
  <2>3. QED
    BY <2>1, <2>2, AcksStayBelow
<1>14. CountedInv'
  BY <1>1, <1>3, <1>4, <1>10, <1>11, <1>12, <1>13 DEF CountedInv, Counted
<1>15. QED
  BY <1>2, <1>5, <1>10, <1>14

LEMMA CountedStep ==
  ASSUME ~Impatient, ~LossyServerLink, ~RepeatedResponses, MaxStream < SeqMod,
         TypeOK, RetryInv, StreamInv, AckInv, NumbersInv, CountedInv, [Next]_vars
  PROVE  CountedInv'
<1>1. CASE ClientIssues
  <2>1. client.open /\ client'.open /\ UNCHANGED shown
    BY <1>1 DEF ClientIssues, TypeOK
  <2>2. PICK d \in ClientDatagrams(client.next) : HandleClientData(d)
    BY <1>1 DEF ClientIssues
  <2>3. d \in Datagrams
    BY <2>2, ClientDatagramsType DEF TypeOK
  <2>4. (\E i \in DOMAIN d : d[i].op = "Ack") => shown # <<>>
    BY <2>2 DEF ClientDatagrams, ClientPacket
  <2>5. QED
    BY <2>1, <2>2, <2>3, <2>4, ClientDataCounted
<1>2. CASE ClientRepeats
  <2>1. PICK n \in (client.acked + 1) .. (client.next - 1) :
          \E d \in ClientDatagrams(n) : HandleClientData(d)
    BY <1>2 DEF ClientRepeats
  <2>2. PICK d \in ClientDatagrams(n) : HandleClientData(d)
    BY <2>1
  <2>3. n \in Nat
    BY <2>1 DEF TypeOK
  <2>4. d \in Datagrams
    BY <2>2, <2>3, ClientDatagramsType
  <2>5. (\E i \in DOMAIN d : d[i].op = "Ack") => shown # <<>>
    BY <2>2 DEF ClientDatagrams, ClientPacket
  <2>6. client.open /\ client' = client /\ UNCHANGED shown
    BY <1>2 DEF ClientRepeats, clientVars
  <2>7. QED
    BY <2>2, <2>4, <2>5, <2>6, ClientDataCounted
<1>3. CASE ClientAcks
  <2>1. client.open /\ client' = client /\ UNCHANGED shown /\ shown # <<>>
        /\ HandleClientData(<<ClientAck>>)
    BY <1>3 DEF ClientAcks, clientVars
  <2>2. <<ClientAck>> \in Datagrams
    BY <2>1, ClientAckType DEF Datagrams
  <2>3. QED
    BY <2>1, <2>2, ClientDataCounted
<1>4. CASE ClientKeepsAlive
  <2>1. UNCHANGED <<auth, client, shown, server, toServer, arrived>> /\ session' = session
    BY <1>4 DEF ClientKeepsAlive, clientVars, serverVars, StreamInv, CurrentSession, Lapsed
  <2>2. QED
    BY <2>1 DEF CountedInv, Counted
<1>5. CASE ClientConnects
  <2>1. ~client'.open /\ arrived' = {}
    BY <1>5 DEF ClientConnects
  <2>2. QED
    BY <2>1 DEF CountedInv
<1>6. CASE ClientDisconnects
  <2>1. ~client'.open /\ arrived' = {}
    BY <1>6 DEF ClientDisconnects, TypeOK
  <2>2. QED
    BY <2>1 DEF CountedInv
<1>7. CASE ClientIdles
  BY <1>7 DEF ClientIdles, clientVars, serverVars, CountedInv, Counted
<1>8. CASE AuthEnds
  <2>1. auth' = <<>> /\ UNCHANGED <<session, client, shown, server, arrived>> /\ client.open
    BY <1>8 DEF AuthEnds, AuthSucceeds, AuthFails, clientVars, AckInv, Apart
  <2>2. AcksBelow(SubsOf(WithCredentials(auth, "sso")), session.seqFromServer)
    BY <2>1, CredentialAcks DEF CountedInv, TypeOK, Creds
  <2>3. \/ toServer' = toServer \cup SubsOf(WithCredentials(auth, "sso"))
        \/ toServer' = toServer \cup SubsOf(auth)
    BY <1>8 DEF AuthEnds, AuthSucceeds, AuthFails, SendToLoginServer
  <2>4. AcksBelow(toServer', session.seqFromServer)
    BY <2>1, <2>2, <2>3 DEF CountedInv, AcksBelow
  <2>5. AcksBelow(SubsOf(auth'), session.seqFromServer)
    BY <2>1 DEF AcksBelow, SubsOf
  <2>6. QED
    BY <2>1, <2>4, <2>5 DEF CountedInv, Counted
<1>9. ASSUME NEW i \in DOMAIN server.stream, ServerSendsPacket(i)
      PROVE  CountedInv'
  <2>1. client.open
    BY <1>9 DEF AckInv, Apart
  <2>2. PICK k \in {1, 2} : \E d \in SentDatagrams :
          /\ InTurn(d, k) /\ HandleServerData(d)
          /\ arrived' = 0 .. (session.seqFromServer + k - 1)
    BY <1>9, <2>1, SendsInTurn DEF CountedInv
  <2>3. k \in 0 .. 2 /\ k # 0
    OBVIOUS
  <2>4. QED
    BY <2>1, <2>2, <2>3, ServerDataCounted
<1>10. ASSUME NEW i \in DOMAIN server.stream, ServerSendsFragment(i)
       PROVE  CountedInv'
  BY <1>10, FragmentCountedInv
<1>11. CASE ServerSendsAck
  <2>1. client.open
    BY <1>11, ServerSendsAckSent DEF AckInv, Apart
  <2>2. PICK d \in SentDatagrams : InTurn(d, 0) /\ HandleServerData(d)
    BY <1>11, AcksInTurn DEF AckInv
  <2>3. arrived' = 0 .. (session.seqFromServer + 0 - 1)
    BY <1>11, <2>1 DEF ServerSendsAck, CountedInv, Counted, TypeOK, Sessions
  <2>4. 0 \in 0 .. 2
    OBVIOUS
  <2>5. QED
    BY <2>1, <2>2, <2>3, <2>4, AcksShowNothing, ServerDataCounted
<1>12. CASE ServerResponds
  <2>1. ~client.open
    BY <1>12 DEF ServerResponds, StreamInv
  <2>2. /\ auth' = <<>> /\ shown' = <<>> /\ toServer' = {} /\ arrived' = {}
        /\ session' = NewSession /\ server'.stream = <<>>
    BY <1>12, <2>1 DEF ServerResponds, AckInv, Apart, CountedInv, TypeOK
  <2>3. client'.open
    BY <1>12 DEF ServerResponds, TypeOK
  <2>4. QED
    BY <2>2, <2>3, ProxyAssumption
    DEF CountedInv, Counted, NewSession, AcksBelow, SubsOf
<1>13. CASE ServerReceives
  <2>1. UNCHANGED <<session, auth, client, shown, toServer, arrived>>
    BY <1>13 DEF ServerReceives, proxyVars, clientVars
  <2>2. PICK answer \in Seq(ServerItems) :
          /\ Len(answer) > 0 /\ server'.stream = server.stream \o answer
          /\ Len(server.stream) + Len(answer) <= MaxStream
    BY <1>13, ReceivesEffect
  <2>3. Len(server'.stream) <= MaxStream
    BY <2>2, StreamGrows
  <2>4. QED
    BY <2>1, <2>3 DEF CountedInv, Counted
<1>14. CASE UNCHANGED vars
  BY <1>14 DEF vars, proxyVars, clientVars, serverVars, CountedInv, Counted
<1>15. QED
  BY <1>1, <1>2, <1>3, <1>4, <1>5, <1>6, <1>7, <1>8, <1>9, <1>10, <1>11, <1>12,
     <1>13, <1>14
  DEF Next, ClientStep, ServerSends

----------------------------------------------------------------------------
(* The rejection of the password from the SSO *)

SsoLogins == {m \in ForwardedPackets : m.cred = "sso"}

(* The SSO's password goes out once, with number 1, and until its answer has *)
(* come the retry waits for it: no rejection of it can slip through.         *)
WithheldInv ==
  client.open =>
    /\ \A m \in SsoLogins : m.seq = 1
    /\ SsoLogins # {} /\ session.seqFromServer <= 1 => retry.armed /\ ~retry.fired
    /\ \A i \in DOMAIN server.stream :
         server.stream[i] = "SsoRejected" => i = 2 /\ SsoLogins # {}
    /\ Unseen(Unrelayed, "SsoRejected")

(* Handlers that send no Login with the SSO's password. *)
LEMMA QuietWithheld ==
  ASSUME WithheldInv, client.open, SsoLogins' = SsoLogins,
         UNCHANGED <<session, retry, shown>>, server'.stream = server.stream
  PROVE  WithheldInv'
  BY DEF WithheldInv, Unseen, Unrelayed

LEMMA IssueWithheld ==
  ASSUME TypeOK, StreamInv, WithheldInv, ClientIssues
  PROVE  WithheldInv'
<1>1. client.open /\ UNCHANGED shown
  BY DEF ClientIssues
<1>2. PICK n \in Nat : n = client.next
  BY DEF TypeOK
<1>3. PICK d \in ClientDatagrams(n) : HandleClientData(d)
  BY <1>2 DEF ClientIssues
<1>4. /\ session' = session /\ retry' = retry /\ UNCHANGED server
      /\ CurrentSession = session
  BY <1>1, <1>3 DEF HandleClientData, StreamInv, CurrentSession, CurrentRetry, Lapsed
<1>5. SsoLogins' = SsoLogins
  <2>1. CASE UNCHANGED toServer
    BY <2>1 DEF SsoLogins, ForwardedPackets
  <2>2. CASE ForwardClientData(d)
    <3>1. toServer' = toServer \cup SubsOf(SyncRewrite(Adjust(session, d)))
      BY <1>4, <2>2 DEF ForwardClientData, SendToLoginServer
    <3>2. PICK p \in ClientSubs :
            /\ PacketsOf(SubsOf(SyncRewrite(Adjust(session, d)))) = {p}
            /\ p.cred # "sso"
      BY <1>3, OnePacket DEF TypeOK
    <3>3. ForwardedPackets' = ForwardedPackets \cup {p}
      BY <3>1, <3>2 DEF ForwardedPackets, PacketsOf
    <3>4. QED
      BY <3>2, <3>3 DEF SsoLogins
  <2>3. QED
    BY <1>3, <2>1, <2>2 DEF HandleClientData, DropLogin, StartAuth
<1>6. QED
  BY <1>1, <1>4, <1>5, QuietWithheld

LEMMA AuthWithheld ==
  ASSUME TypeOK, RetryInv, AckInv, NumbersInv, WithheldInv, AuthEnds
  PROVE  WithheldInv'
<1>1. auth # <<>> /\ UNCHANGED <<session, client, shown, server>>
  BY DEF AuthEnds, AuthSucceeds, AuthFails, clientVars
<1>2. client.open /\ RetryPhase /\ TypedLogin(auth)
  BY <1>1 DEF AckInv, Apart, NumbersInv, RetryInv, AuthIsLogin
<1>3. Replayable(auth) /\ server.expect <= 1
  BY <1>1, <1>2 DEF RetryPhase
<1>4. auth \in Datagrams /\ 2 \in DOMAIN auth /\ \A i \in DOMAIN auth : i = 1 \/ i = 2
  BY <1>3 DEF TypeOK, Datagrams, Replayable
<1>5. CASE AuthSucceeds
  <2>1. /\ retry'.armed /\ ~retry'.fired
        /\ toServer' = toServer \cup SubsOf(WithCredentials(auth, "sso"))
    BY <1>5 DEF AuthSucceeds, SendToLoginServer
  <2>2. \A i \in DOMAIN WithCredentials(auth, "sso") :
          WithCredentials(auth, "sso")[i].op = "Packet" =>
            WithCredentials(auth, "sso")[i].seq = 1
    <3>1. "sso" \in Creds /\ DOMAIN WithCredentials(auth, "sso") = DOMAIN auth
      BY DEF Creds, WithCredentials
    <3>2. \A i \in DOMAIN auth : auth[i].op = "Packet" => auth[i].seq = 1
      BY <1>3, <1>4 DEF Replayable
    <3>3. QED
      BY <1>4, <3>1, <3>2, CredentialSubs
  <2>3. \A m \in SsoLogins' : m \in SsoLogins \/ m.seq = 1
    BY <2>1, <2>2 DEF SsoLogins, ForwardedPackets, SubsOf
  <2>4. SsoLogins \subseteq SsoLogins'
    BY <2>1 DEF SsoLogins, ForwardedPackets
  <2>5. QED
    BY <1>1, <1>2, <2>1, <2>3, <2>4 DEF WithheldInv, Unseen, Unrelayed
<1>6. CASE AuthFails
  <2>1. retry' = retry /\ toServer' = toServer \cup SubsOf(auth)
    BY <1>6 DEF AuthFails, SendToLoginServer
  <2>2. \A i \in DOMAIN auth : auth[i].op = "Packet" => auth[i].cred # "sso"
    BY <1>2, <1>3, <1>4 DEF Replayable, TypedLogin
  <2>3. SsoLogins' = SsoLogins
    BY <2>1, <2>2 DEF SsoLogins, ForwardedPackets, SubsOf
  <2>4. QED
    BY <1>1, <1>2, <2>1, <2>3, QuietWithheld
<1>7. QED
  BY <1>5, <1>6 DEF AuthEnds

(* The server rejects the SSO's password once, as its second answer. *)
LEMMA ReceivesWithheld ==
  ASSUME TypeOK, AckInv, NumbersInv, WithheldInv, ServerReceives
  PROVE  WithheldInv'
<1>1. UNCHANGED <<session, retry, client, shown, toServer>> /\ client.open
  BY DEF ServerReceives, proxyVars, clientVars, AckInv, Apart
<1>2. Numbering /\ Answered
  BY <1>1 DEF NumbersInv
<1>3. PICK m \in toServer : \E answer \in Answers(m) :
        /\ m.op = "Packet" /\ m.seq = server.expect
        /\ answer \in Seq(ServerItems) /\ Len(answer) > 0
        /\ server'.stream = server.stream \o answer
  BY ReceivesEffect
<1>4. PICK answer \in Answers(m) :
        /\ answer \in Seq(ServerItems) /\ Len(answer) > 0
        /\ server'.stream = server.stream \o answer
  BY <1>3
<1>5. PICK n \in Nat : Len(server.stream) = n /\ DOMAIN server.stream = 1 .. n
  BY StreamDomain
<1>6. PICK k \in Nat : k = Len(answer) /\ k > 0
  BY <1>4
<1>7. /\ \A j \in 1 .. n : server'.stream[j] = server.stream[j]
      /\ \A j \in 1 .. k : server'.stream[n + j] = answer[j]
      /\ \A j \in DOMAIN server'.stream : j \in 1 .. n \/ j - n \in 1 .. k
  BY <1>4, <1>5, <1>6, StreamGrows
<1>8. \A j \in 1 .. k : answer[j] = "SsoRejected" => m \in SsoLogins /\ k = 1 /\ j = 1
  <2>1. m \in SsoLogins \/ m.cred # "sso"
    BY <1>3 DEF SsoLogins, ForwardedPackets
  <2>2. CASE m.kind = "Ready"
    BY <1>4, <1>6, <2>2 DEF Answers
  <2>3. CASE m.kind = "Login"
    <3>1. answer \in {<<"Good">>, <<IF m.cred = "sso" THEN "SsoRejected" ELSE "Rejected">>}
      BY <1>4, <2>3 DEF Answers
    <3>2. QED
      BY <1>6, <2>1, <3>1
  <2>4. CASE m.kind # "Ready" /\ m.kind # "Login"
    <3>1. PICK last \in {"Tail", "Stub"} : answer = ListFragments(last)
      BY <1>4, <2>4 DEF Answers
    <3>2. \A j \in DOMAIN ListFragments(last) : ListFragments(last)[j] # "SsoRejected"
      BY DEF ListFragments
    <3>3. \A j \in 1 .. k : j \in DOMAIN answer
      BY <1>4, <1>6
    <3>4. QED
      BY <3>1, <3>2, <3>3
  <2>5. QED
    BY <2>2, <2>3, <2>4
<1>9. m \in SsoLogins => n = 1
  <2> SUFFICES ASSUME m \in SsoLogins PROVE n = 1
    OBVIOUS
  <2>1. server.expect = 1
    BY <1>1, <1>3 DEF WithheldInv
  <2>2. QED
    BY <1>2, <1>5, <2>1 DEF Answered
<1>10. SsoLogins' = SsoLogins
  BY <1>1 DEF SsoLogins, ForwardedPackets
<1>11. ASSUME NEW j \in DOMAIN server'.stream, server'.stream[j] = "SsoRejected"
       PROVE  j = 2 /\ SsoLogins # {}
  <2>1. CASE j \in 1 .. n
    BY <1>1, <1>5, <1>7, <1>11, <2>1 DEF WithheldInv
  <2>2. CASE j - n \in 1 .. k
    <3>0. server.stream \in Seq(ServerItems)
      BY DEF TypeOK
    <3>1. j \in Nat
      BY <1>4, <1>11, <3>0
    <3>2. PICK i \in 1 .. k : i = j - n /\ j = n + i
      BY <1>5, <1>6, <2>2, <3>1
    <3>3. answer[i] = "SsoRejected"
      BY <1>7, <1>11, <3>2
    <3>4. m \in SsoLogins /\ i = 1
      BY <1>8, <3>3
    <3>5. QED
      BY <1>9, <3>2, <3>4
  <2>3. QED
    BY <1>7, <2>1, <2>2
<1>12. QED
  BY <1>1, <1>10, <1>11 DEF WithheldInv, Unseen, Unrelayed

(* The rejection of the SSO's password comes while the retry waits for it,   *)
(* and is the answer that is intercepted.                                    *)
LEMMA RejectionIntercepted ==
  ASSUME TypeOK, NumbersInv, WithheldInv, client.open,
         NEW k \in 0 .. 2, NEW d \in SentDatagrams, InTurn(d, k),
         NEW j \in DOMAIN d, d[j].item = "SsoRejected"
  PROVE  Intercepts(d) /\ AnswerIn(d) = j
<1>1. PICK s \in Nat : s = session.seqFromServer
  BY DEF TypeOK, Sessions
<1>2. PICK m \in Nat : Len(server.stream) = m /\ DOMAIN server.stream = 1 .. m
  BY StreamDomain
<1>3. PICK p \in (s + 1) .. (s + k) : d[j] = ServerPacket(p)
  BY <1>1, TurnPackets
<1>4. p \in 1 .. m /\ server.stream[p] = "SsoRejected"
  BY <1>1, <1>2, <1>3 DEF InTurn, ServerPacket
<1>5. p = 2 /\ SsoLogins # {}
  BY <1>2, <1>4 DEF WithheldInv
<1>6. s <= 1
  BY <1>3, <1>5
<1>7. retry.armed /\ ~retry.fired
  BY <1>1, <1>5, <1>6 DEF WithheldInv
<1>8. DOMAIN d = {1} \/ DOMAIN d = {1, 2}
  BY <1>1, TurnPackets
<1>9. Len(d) = 2 <=> 2 \in DOMAIN d
  <2>1. PICK n \in Nat : Len(d) = n /\ DOMAIN d = 1 .. n
    BY DEF SentDatagrams
  <2>2. n <= 2
    BY <2>1 DEF SentDatagrams
  <2>3. QED
    BY <2>1, <2>2
<1>10. d[j].item \in LoginAnswers
  BY DEF LoginAnswers, Rejections
<1>11. Intercepts(d)
  BY <1>7, <1>8, <1>9, <1>10 DEF Intercepts, AnswerIn
<1>12. AnswerIn(d) = j
  BY <1>10, <1>11, TurnAnswer
<1>13. QED
  BY <1>11, <1>12

LEMMA ServerDataWithheld ==
  ASSUME TypeOK, RetryInv, AckInv, NumbersInv, CountedInv, WithheldInv, client.open,
         NEW k \in 0 .. 2, NEW d \in SentDatagrams, InTurn(d, k), HandleServerData(d)
  PROVE  WithheldInv'
<1>1. d \in Seq(ServerSubs) /\ d # <<>> /\ UNCHANGED server
  BY DEF SentDatagrams, HandleServerData
<1>2. PICK s \in Nat : s = session.seqFromServer /\ session'.seqFromServer = s + k
  BY TurnCounted DEF TypeOK, Sessions
<1>3. Unrelayed \in RelayStates /\ Unseen(Unrelayed, "SsoRejected")
  BY UnrelayedType DEF WithheldInv
<1>4. CASE PassOn(d)
  <2>1. /\ shown' = RelayedAll(Unrelayed, d).shown /\ toServer' = toServer
        /\ retry'.fired = retry.fired
        /\ retry'.armed <=> retry.armed /\ ~Intercepts(d)
    BY <1>1, <1>4, PassOnEffect
  <2>2. \A j \in DOMAIN d : d[j].item # "SsoRejected"
    <3> SUFFICES ASSUME NEW j \in DOMAIN d, d[j].item = "SsoRejected" PROVE FALSE
      OBVIOUS
    <3>1. Intercepts(d) /\ d[AnswerIn(d)].item = "SsoRejected"
      BY RejectionIntercepted
    <3>2. SuppressRejection(d)
      BY <3>1 DEF HandleServerData
    <3>3. retry'.fired
      BY <1>1, <3>1, <3>2, SuppressEffect
    <3>4. QED
      BY <2>1, <3>1, <3>3 DEF Intercepts
  <2>3. Unseen(RelayedAll(Unrelayed, d), "SsoRejected")
    BY <1>1, <1>3, <2>2, RelayedAllUnseen
  <2>4. SsoLogins' = SsoLogins
    BY <2>1 DEF SsoLogins, ForwardedPackets
  <2>5. SsoLogins # {} /\ s + k <= 1 => retry'.armed /\ ~retry'.fired
    <3> SUFFICES ASSUME SsoLogins # {}, s + k <= 1 PROVE retry'.armed /\ ~retry'.fired
      OBVIOUS
    <3>1. retry.armed /\ ~retry.fired
      BY <1>2 DEF WithheldInv
    <3>2. ~Intercepts(d)
      BY <1>2, TurnAnswer
    <3>3. QED
      BY <2>1, <3>1, <3>2
  <2>6. QED
    BY <1>1, <1>2, <2>1, <2>3, <2>4, <2>5 DEF WithheldInv, Unseen, Unrelayed
<1>5. CASE Intercepts(d) /\ SuppressRejection(d)
  <2>1. s + k = 2
    BY <1>2, <1>5, TurnAnswer
  <2>2. WithoutAnswer(d) \in Seq(ServerSubs) /\ shown' = Rest(d).shown
        /\ toServer' = toServer \cup {Ack(d[AnswerIn(d)].seq)}
                         \cup SubsOf(Adjust(session', retry.original))
        /\ session' \in Sessions
    BY <1>1, <1>5, SuppressEffect
  <2>3. \A j \in DOMAIN WithoutAnswer(d) : WithoutAnswer(d)[j].item # "SsoRejected"
    <3>1. \A j \in DOMAIN d : j # AnswerIn(d) => d[j].item # "SsoRejected"
      BY <1>5, TurnAnswer DEF LoginAnswers, Rejections
    <3>2. QED
      BY <1>5, <3>1, WithoutAnswerSent DEF Intercepts
  <2>4. Unseen(Rest(d), "SsoRejected")
    BY <1>3, <2>2, <2>3, RelayedAllUnseen DEF Rest
  <2>5. SsoLogins' = SsoLogins
    <3>1. /\ Len(retry.original) = 2 /\ retry.original[2].cred = "typed"
          /\ retry.original \in Datagrams
      BY <1>5 DEF RetryInv, RetryConsistent, Intercepts, TypeOK
    <3>2. retry.original[1].op = "Ack"
      BY <1>5 DEF NumbersInv, RetryPhase, Replayable, Intercepts
    <3>3. \A i \in DOMAIN retry.original : i = 1 \/ i = 2
      BY <3>1 DEF Datagrams
    <3>4. PICK new \in Sessions : new = session'
      BY <2>2
    <3>5. \A i \in DOMAIN Adjust(new, retry.original) :
            \/ Adjust(new, retry.original)[i].op = "Ack"
            \/ Adjust(new, retry.original)[i].cred # "sso"
      <4>1. DOMAIN Adjust(new, retry.original) = DOMAIN retry.original
        BY DEF Adjust
      <4>2. \A i \in DOMAIN retry.original :
              /\ Adjust(new, retry.original)[i].op = retry.original[i].op
              /\ Adjust(new, retry.original)[i].cred = retry.original[i].cred
        BY <3>1, AdjustedSubs
      <4>3. QED
        BY <3>1, <3>2, <3>3, <4>1, <4>2
    <3>6. \A m \in SubsOf(Adjust(session', retry.original)) : m.op = "Ack" \/ m.cred # "sso"
      BY <3>4, <3>5 DEF SubsOf
    <3>7. QED
      BY <2>2, <3>6 DEF SsoLogins, ForwardedPackets, Ack
  <2>6. QED
    BY <1>1, <1>2, <2>1, <2>2, <2>4, <2>5 DEF WithheldInv, Unseen, Unrelayed
<1>6. QED
  BY <1>4, <1>5 DEF HandleServerData

LEMMA WithheldStep ==
  ASSUME ~Impatient, ~ClientRetransmits, ~LossyServerLink, ~RepeatedResponses,
         MaxStream < SeqMod,
         TypeOK, RetryInv, StreamInv, AckInv, NumbersInv, CountedInv, WithheldInv,
         [Next]_vars
  PROVE  WithheldInv'
<1>1. CASE ClientIssues
  BY <1>1, IssueWithheld
<1>2. CASE ClientRepeats
  BY <1>2 DEF ClientRepeats
<1>3. CASE ClientAcks
  <2>1. client.open /\ UNCHANGED <<client, shown>> /\ HandleClientData(<<ClientAck>>)
        /\ shown # <<>>
    BY <1>3 DEF ClientAcks, clientVars
  <2>2. /\ session' = session /\ retry' = retry /\ server' = server
        /\ CurrentSession = session
    BY <2>1 DEF HandleClientData, StreamInv, CurrentSession, CurrentRetry, Lapsed
  <2>3. ForwardClientData(<<ClientAck>>)
    BY <2>1 DEF HandleClientData, DropLogin, StartAuth, NeedsSso
  <2>4. toServer' = toServer \cup SubsOf(SyncRewrite(Adjust(session, <<ClientAck>>)))
    BY <2>2, <2>3 DEF ForwardClientData, SendToLoginServer
  <2>5. <<ClientAck>> \in Datagrams /\ session \in Sessions
    BY <2>1, ClientAckType DEF Datagrams, TypeOK
  <2>6. \A m \in SubsOf(SyncRewrite(Adjust(session, <<ClientAck>>))) : m.op = "Ack"
    <3>1. Adjust(session, <<ClientAck>>) \in Datagrams
          /\ DOMAIN Adjust(session, <<ClientAck>>) = {1}
      BY <2>5, AdjustType DEF Adjust
    <3>2. 1 \in DOMAIN <<ClientAck>> /\ <<ClientAck>>[1].op = "Ack"
      BY DEF ClientAck, Ack
    <3>3. Adjust(session, <<ClientAck>>)[1].op = "Ack"
      BY <2>5, <3>2, AdjustedSubs
    <3>4. /\ SyncRewrite(Adjust(session, <<ClientAck>>))[1].op = "Ack"
          /\ DOMAIN SyncRewrite(Adjust(session, <<ClientAck>>)) = {1}
      BY <3>1, <3>3, RewrittenSubs
    <3>5. QED
      BY <3>4 DEF SubsOf
  <2>7. SsoLogins' = SsoLogins
    BY <2>4, <2>6 DEF SsoLogins, ForwardedPackets
  <2>8. QED
    BY <2>1, <2>2, <2>7, QuietWithheld
<1>4. CASE ClientKeepsAlive
  <2>1. client.open /\ UNCHANGED <<shown, server, toServer>>
        /\ session' = session /\ retry' = retry
    BY <1>4 DEF ClientKeepsAlive, clientVars, serverVars, StreamInv, CurrentSession,
                CurrentRetry, Lapsed
  <2>2. QED
    BY <2>1, QuietWithheld DEF SsoLogins, ForwardedPackets
<1>5. CASE ClientConnects
  BY <1>5 DEF ClientConnects, WithheldInv
<1>6. CASE ClientDisconnects
  <2>1. ~client'.open
    BY <1>6 DEF ClientDisconnects, TypeOK
  <2>2. QED
    BY <2>1 DEF WithheldInv
<1>7. CASE ClientIdles
  <2>1. client.open /\ UNCHANGED <<shown, server, toServer, session, retry>>
    BY <1>7 DEF ClientIdles, clientVars, serverVars
  <2>2. QED
    BY <2>1, QuietWithheld DEF SsoLogins, ForwardedPackets
<1>8. CASE AuthEnds
  BY <1>8, AuthWithheld
<1>9. ASSUME NEW i \in DOMAIN server.stream, ServerSendsPacket(i)
      PROVE  WithheldInv'
  <2>1. client.open
    BY <1>9 DEF AckInv, Apart
  <2>2. PICK k \in {1, 2} : \E d \in SentDatagrams : InTurn(d, k) /\ HandleServerData(d)
    BY <1>9, <2>1, SendsInTurn DEF CountedInv
  <2>3. k \in 0 .. 2
    OBVIOUS
  <2>4. QED
    BY <2>1, <2>2, <2>3, ServerDataWithheld
<1>10. ASSUME NEW i \in DOMAIN server.stream, ServerSendsFragment(i)
       PROVE  WithheldInv'
  <2>1. client.open
    BY <1>10 DEF AckInv, Apart
  <2>2. PICK f \in Fragments : HandleFragment(f)
    BY <1>10, ServerSendsFragmentData
  <2>3. UNCHANGED <<retry, server, toServer>>
    BY <2>2 DEF HandleFragment
  <2>4. session.seqFromServer \in Nat /\ session'.seqFromServer = session.seqFromServer + 1
    BY <1>10, FragmentCountedInv DEF TypeOK, Sessions
  <2>5. \A j \in DOMAIN shown' : shown'[j].item = "List"
          \/ (j \in DOMAIN shown /\ shown'[j] = shown[j])
    <3>1. [seq |-> session.seqToClient, item |-> "List"] \in ShownPackets
          /\ shown \in Seq(ShownPackets)
      BY DEF TypeOK, Sessions, ShownPackets
    <3>2. shown' = shown
            \/ shown' = Append(shown, [seq |-> session.seqToClient, item |-> "List"])
      BY <2>2 DEF HandleFragment
    <3>3. QED
      BY <3>1, <3>2, AppendItems
  <2>6. Unseen(Unrelayed, "SsoRejected")'
    BY <2>1, <2>5 DEF WithheldInv, Unseen, Unrelayed
  <2>7. SsoLogins' = SsoLogins
    BY <2>3 DEF SsoLogins, ForwardedPackets
  <2>8. QED
    BY <2>1, <2>3, <2>4, <2>6, <2>7 DEF WithheldInv
<1>11. CASE ServerSendsAck
  <2>1. client.open
    BY <1>11, ServerSendsAckSent DEF AckInv, Apart
  <2>2. PICK d \in SentDatagrams : InTurn(d, 0) /\ HandleServerData(d)
    BY <1>11, AcksInTurn DEF AckInv
  <2>3. 0 \in 0 .. 2
    OBVIOUS
  <2>4. QED
    BY <2>1, <2>2, <2>3, ServerDataWithheld
<1>12. CASE ServerResponds
  <2>1. ~client.open
    BY <1>12 DEF ServerResponds, StreamInv
  <2>2. shown' = <<>> /\ toServer' = {} /\ server'.stream = <<>>
    BY <1>12, <2>1 DEF ServerResponds, AckInv, Apart, TypeOK
  <2>3. QED
    BY <2>2 DEF WithheldInv, SsoLogins, ForwardedPackets, Unseen, Unrelayed
<1>13. CASE ServerReceives
  BY <1>13, ReceivesWithheld
<1>14. CASE UNCHANGED vars
  BY <1>14 DEF vars, proxyVars, clientVars, serverVars, WithheldInv, SsoLogins,
               ForwardedPackets, Unseen, Unrelayed
<1>15. QED
  BY <1>1, <1>2, <1>3, <1>4, <1>5, <1>6, <1>7, <1>8, <1>9, <1>10, <1>11, <1>12,
     <1>13, <1>14
  DEF Next, ClientStep, ServerSends

----------------------------------------------------------------------------
(* The theorems *)

(* What the run LoginReliable assumes too: nothing is lost or repeated, the  *)
(* client is patient, and the session is shorter than the sequence space.    *)
ReliableSession ==
  /\ ~LossyServerLink /\ ~ClientRetransmits
  /\ ~Impatient /\ ~IdleGaps /\ ~RepeatedResponses
  /\ MaxClient < SeqMod /\ MaxStream < SeqMod

LEMMA ReliableInit == Init => CountedInv /\ WithheldInv
  BY DEF Init, CountedInv, WithheldInv

LEMMA ReliableAlways ==
  ASSUME ReliableSession
  PROVE  Spec => [](TypeOK /\ AckInv /\ NumbersInv /\ CountedInv /\ WithheldInv)
<1>1. Init => RetryInv /\ StreamInv /\ NumbersInv
  BY DEF Init, NoRetry, NoServer, RetryInv, RetryConsistent, AuthIsLogin, StreamInv,
         ClientStreamContiguous, NumbersInv, AckedWasIssued
<1>2. TypeOK /\ StreamInv /\ [Next]_vars => StreamInv'
  BY StreamStep DEF ReliableSession
<1>3. TypeOK /\ RetryInv /\ AckInv /\ [Next]_vars => AckInv'
  BY AckStep DEF ReliableSession
<1>4. TypeOK /\ RetryInv /\ StreamInv /\ AckInv /\ NumbersInv /\ [Next]_vars => NumbersInv'
  BY NumbersStep DEF ReliableSession
<1>5. TypeOK /\ RetryInv /\ StreamInv /\ AckInv /\ NumbersInv /\ CountedInv /\ [Next]_vars
        => CountedInv'
  BY CountedStep DEF ReliableSession
<1>6. TypeOK /\ RetryInv /\ StreamInv /\ AckInv /\ NumbersInv /\ CountedInv /\ WithheldInv
        /\ [Next]_vars => WithheldInv'
  BY WithheldStep DEF ReliableSession
<1>7. QED
  BY <1>1, <1>2, <1>3, <1>4, <1>5, <1>6, AckInit, ReliableInit, TypeCorrect, RetryStep, PTL
  DEF Spec

(* Whatever the proxy acknowledges, rewritten, behind a replay or of its     *)
(* own, has reached it, and so has everything before.                        *)
THEOREM NothingAckedUnseen ==
  ASSUME ReliableSession
  PROVE  Spec => []AcksAreTruthful
<1>1. TypeOK /\ AckInv /\ CountedInv => AcksAreTruthful
  <2> SUFFICES ASSUME TypeOK, AckInv, CountedInv, NEW m \in toServer, m.op = "Ack"
               PROVE  0 .. m.seq \subseteq arrived
    BY DEF AcksAreTruthful
  <2>1. client.open
    BY DEF AckInv, Apart
  <2>2. PICK s \in Nat, n \in Nat : s = session.seqFromServer /\ n = m.seq
    BY DEF TypeOK, Sessions, ClientSubs
  <2>3. arrived = 0 .. (s - 1) /\ n < s
    BY <2>1, <2>2 DEF CountedInv, Counted, AcksBelow
  <2>4. QED
    BY <2>2, <2>3
<1>2. QED
  BY <1>1, ReliableAlways, PTL

(* An Ack of the client covers all that has arrived, the rejection that was  *)
(* withheld and the fragments too, so that the server has nothing to repeat. *)
THEOREM AllAcknowledged ==
  ASSUME ReliableSession
  PROVE  Spec => []NothingLeftUnacked
<1>1. TypeOK /\ CountedInv => NothingLeftUnacked
  <2> SUFFICES ASSUME TypeOK, CountedInv, client.open
               PROVE  session.seqFromServer = Cardinality(arrived)
    BY DEF NothingLeftUnacked
  <2>1. PICK s \in Nat : s = session.seqFromServer
    BY DEF TypeOK, Sessions
  <2>2. arrived = 0 .. (s - 1)
    BY <2>1 DEF CountedInv, Counted
  <2>3. QED
    BY <2>1, <2>2, IntervalGrows
<1>2. QED
  BY <1>1, ReliableAlways, PTL

(* The player never sees the rejection of a password that was not typed: it  *)
(* arrives while the retry waits for it, and no second one can.              *)
THEOREM RejectionStaysInProxy ==
  ASSUME ReliableSession
  PROVE  Spec => []SsoRejectionWithheld
<1>1. AckInv /\ WithheldInv => SsoRejectionWithheld
  BY DEF AckInv, Apart, WithheldInv, SsoRejectionWithheld, WasShown, Unseen, Unrelayed
<1>2. QED
  BY <1>1, ReliableAlways, PTL

=============================================================================
