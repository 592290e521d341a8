-------------------------- MODULE LoginProxy_proofs --------------------------
(***************************************************************************)
(* LoginProxy for every value of its constants: it keeps its types, the    *)
(* fields of the retry stay in step whatever the client and the network    *)
(* do, and, under the assumptions each theorem names, the retry belongs to *)
(* a session and the client's packets are numbered without a hole.         *)
(***************************************************************************)
EXTENDS LoginProxy, TLAPS

(* Sub-packets of server datagrams, and what forwarding them works on. *)
ServerSubs ==
  {sub \in [op : {"Ack", "Packet"}, seq : Nat, item : ServerItems \cup {"none"}] :
     sub.op = "Packet" => sub.item # "none"}

ShownPackets == [seq : Nat, item : ServerItems \cup {"List"}]

RelayStates ==
  [session : Sessions, shown : Seq(ShownPackets), acked : Nat \cup {-1}]

Fragments ==
  [seq : Nat, head : BOOLEAN, total : Nat, short : BOOLEAN, chunk : Nat]

----------------------------------------------------------------------------
(* The operators of a session stay within the types. *)

LEMMA NewSessionType == NewSession \in Sessions
  BY DEF NewSession, Sessions, Assemblers, Idle

LEMMA RewriteAckType ==
  ASSUME NEW s \in Sessions
  PROVE  RewriteAck(s) \in Nat
  BY DEF RewriteAck, Monus, Sessions

LEMMA ShiftType ==
  ASSUME NEW s \in Sessions, NEW n \in Nat
  PROVE  ShiftPacketSeq(s, n) \in Nat
  BY SeqModAssumption DEF ShiftPacketSeq, Sessions

LEMMA AdjustServerAckType ==
  ASSUME NEW s \in Sessions, NEW n \in Nat
  PROVE  AdjustServerAck(s, n) \in Nat
  BY DEF AdjustServerAck, Monus, Sessions

LEMMA RewriteServerPacketType ==
  ASSUME NEW s \in Sessions, NEW n \in Nat
  PROVE  /\ RewriteServerPacket(s, n) \in Sessions
         /\ RewriteServerPacket(s, n).csOffset = s.csOffset
         /\ RewriteServerPacket(s, n).seqToClient = s.seqToClient + 1
<1> DEFINE counted == IF n = s.seqFromServer THEN s.seqFromServer + 1 ELSE s.seqFromServer
           moved == [s EXCEPT !.seqToClient = s.seqToClient + 1, !.seqFromServer = counted]
<1>1. counted \in Nat /\ s.seqToClient + 1 \in Nat
  BY DEF Sessions
<1>2. moved \in Sessions /\ moved.csOffset = s.csOffset
      /\ moved.seqToClient = s.seqToClient + 1
  <2> HIDE DEF counted
  <2> QED
    BY <1>1 DEF Sessions
<1>3. RewriteServerPacket(s, n) = moved
  BY DEF RewriteServerPacket
<1>4. QED
  BY <1>2, <1>3

LEMMA NoteSuppressedType ==
  ASSUME NEW s \in Sessions, NEW n \in Nat
  PROVE  /\ NoteSuppressedServerPacket(s, n) \in Sessions
         /\ NoteSuppressedServerPacket(s, n).csOffset = s.csOffset
         /\ NoteSuppressedServerPacket(s, n).seqToClient = s.seqToClient
  BY DEF NoteSuppressedServerPacket, Larger, Sessions

LEMMA NoteInjectedType ==
  ASSUME NEW s \in Sessions
  PROVE  /\ NoteInjectedClientPacket(s) \in Sessions
         /\ NoteInjectedClientPacket(s).csOffset = s.csOffset + 1
         /\ NoteInjectedClientPacket(s).seqToClient = s.seqToClient
  BY DEF NoteInjectedClientPacket, Sessions

LEMMA AddType ==
  ASSUME NEW a \in Assemblers, NEW f \in Fragments
  PROVE  Add(a, f) \in Assemblers
<1> DEFINE Stored == SUBSET [seq : Nat, chunk : Nat]
<1>1. \A asFirst \in BOOLEAN : StoredAs(f, asFirst) \in [seq : Nat, chunk : Nat]
  BY DEF StoredAs, Fragments, Mangled
<1>2. \A fr \in Stored : \A asFirst \in BOOLEAN : Store(fr, f, asFirst) \in Stored
  BY <1>1 DEF Store
<1>3. a.frags \in Stored /\ {} \in Stored /\ f.seq \in Nat /\ f.total \in Nat
  BY DEF Assemblers, Fragments
<1>4. Store({}, f, TRUE) \in Stored /\ Store(a.frags, f, TRUE) \in Stored
      /\ Store(a.frags, f, FALSE) \in Stored
  BY <1>2, <1>3
<1>5. QED
  BY <1>3, <1>4 DEF Add, Assemblers

LEMMA RecvFragmentType ==
  ASSUME NEW s \in Sessions, NEW f \in Fragments
  PROVE  /\ RecvFragment(s, f) \in Sessions
         /\ RecvFragment(s, f).csOffset = s.csOffset
         /\ RecvFragment(s, f).seqToClient
              = IF CompletesList(s, f) THEN s.seqToClient + 1 ELSE s.seqToClient
<1>1. Add(s.asm, f) \in Assemblers
  BY AddType DEF Sessions
<1>2. PendingList(s, f) \in BOOLEAN
  BY DEF PendingList, Sessions, Fragments
<1>3. Idle \in Assemblers
  BY DEF Idle, Assemblers
<1>4. (f.seq + 1) % SeqMod \in Nat
  BY SeqModAssumption DEF Fragments
<1>5. Completes(s, f) => ~HeaderUnreadable(s, f)
  BY DEF Completes
<1> DEFINE Ok(t, to) == t \in Sessions /\ t.csOffset = s.csOffset /\ t.seqToClient = to
<1>6. \A from, to \in Nat : \A asm \in Assemblers : \A pending \in BOOLEAN :
        Ok([s EXCEPT !.seqFromServer = from, !.asm = asm, !.pendingList = pending,
                     !.seqToClient = to], to)
  BY DEF Sessions
<1>7. CASE HeaderUnreadable(s, f)
  <2>1. RecvFragment(s, f) = [s EXCEPT !.seqFromServer = (f.seq + 1) % SeqMod]
    BY <1>5, <1>7, Zenon DEF RecvFragment
  <2>2. ~CompletesList(s, f)
    BY <1>7, <1>5 DEF CompletesList
  <2>3. QED
    BY <2>1, <2>2, <1>4 DEF Sessions
<1>8. CASE ~HeaderUnreadable(s, f) /\ Completes(s, f)
  <2> DEFINE to == IF PendingList(s, f) THEN s.seqToClient + 1 ELSE s.seqToClient
  <2>1. RecvFragment(s, f) =
          [s EXCEPT !.seqFromServer = (f.seq + 1) % SeqMod, !.asm = Idle,
                    !.pendingList = FALSE, !.seqToClient = to]
    BY <1>8, Zenon DEF RecvFragment
  <2>2. to \in Nat
    BY <1>2 DEF Sessions
  <2>3. Ok(RecvFragment(s, f), to)
    <3> HIDE DEF to, Ok
    <3> QED
      BY <2>1, <2>2, <1>3, <1>4, <1>6
  <2>4. QED
    BY <2>3, <1>8 DEF CompletesList
<1>9. CASE ~HeaderUnreadable(s, f) /\ ~Completes(s, f)
  <2>1. RecvFragment(s, f) =
          [s EXCEPT !.seqFromServer = (f.seq + 1) % SeqMod, !.asm = Add(s.asm, f),
                    !.pendingList = PendingList(s, f)]
    BY <1>9, Zenon DEF RecvFragment
  <2>2. \A from \in Nat : \A asm \in Assemblers : \A pending \in BOOLEAN :
          Ok([s EXCEPT !.seqFromServer = from, !.asm = asm, !.pendingList = pending],
             s.seqToClient)
    BY DEF Sessions
  <2>3. Ok(RecvFragment(s, f), s.seqToClient)
    <3> HIDE DEF Ok
    <3> QED
      BY <2>1, <2>2, <1>1, <1>2, <1>4
  <2>4. QED
    BY <2>3, <1>9 DEF CompletesList
<1>10. QED
  BY <1>7, <1>8, <1>9

LEMMA AdjustSubType ==
  ASSUME NEW s \in Sessions, NEW sub \in ClientSubs
  PROVE  /\ AdjustSub(s, sub) \in ClientSubs
         /\ AdjustSub(s, sub).op = sub.op
         /\ AdjustSub(s, sub).kind = sub.kind
         /\ AdjustSub(s, sub).cred = sub.cred
<1>1. PICK n \in Nat : AdjustSub(s, sub) = [sub EXCEPT !.seq = n]
  <2>1. RewriteAck(s) \in Nat
    BY RewriteAckType
  <2>2. sub.seq \in Nat
    BY DEF ClientSubs
  <2>3. ShiftPacketSeq(s, sub.seq) \in Nat
    BY <2>2, ShiftType
  <2>4. QED
    BY <2>1, <2>3 DEF AdjustSub
<1>2. QED
  BY <1>1 DEF ClientSubs

LEMMA AdjustType ==
  ASSUME NEW s \in Sessions, NEW d \in Datagrams
  PROVE  /\ Adjust(s, d) \in Datagrams
         /\ Len(Adjust(s, d)) = Len(d)
         /\ \A i \in DOMAIN d : /\ Adjust(s, d)[i].op = d[i].op
                                /\ Adjust(s, d)[i].kind = d[i].kind
                                /\ Adjust(s, d)[i].cred = d[i].cred
<1>1. \A i \in DOMAIN d : d[i] \in ClientSubs
  BY DEF Datagrams
<1>2. \A i \in DOMAIN d : /\ AdjustSub(s, d[i]) \in ClientSubs
                          /\ AdjustSub(s, d[i]).op = d[i].op
                          /\ AdjustSub(s, d[i]).kind = d[i].kind
                          /\ AdjustSub(s, d[i]).cred = d[i].cred
  BY <1>1, AdjustSubType
<1>3. QED
  BY <1>2 DEF Adjust, Datagrams

LEMMA WithCredentialsType ==
  ASSUME NEW d \in Datagrams, NEW c \in Creds
  PROVE  WithCredentials(d, c) \in Datagrams
<1>1. \A i \in DOMAIN d : d[i] \in ClientSubs
  BY DEF Datagrams
<1>2. \A i \in DOMAIN d : WithCredentials(d, c)[i] \in ClientSubs
  BY <1>1 DEF WithCredentials, ClientSubs
<1>3. QED
  BY <1>2 DEF WithCredentials, Datagrams

LEMMA SubsOfType ==
  ASSUME NEW d \in Datagrams
  PROVE  SubsOf(d) \subseteq ClientSubs
  BY DEF SubsOf, Datagrams

LEMMA RelayedType ==
  ASSUME NEW st \in RelayStates, NEW sub \in ServerSubs
  PROVE  /\ Relayed(st, sub) \in RelayStates
         /\ Relayed(st, sub).session.csOffset = st.session.csOffset
<1>1. CASE sub.op = "Ack"
  <2>1. sub.seq \in Nat /\ st.session \in Sessions
    BY DEF RelayStates, ServerSubs
  <2>2. AdjustServerAck(st.session, sub.seq) \in Nat
    BY <2>1, AdjustServerAckType
  <2>3. PICK n \in Nat \cup {-1} : Relayed(st, sub) = [st EXCEPT !.acked = n]
    BY <1>1, <2>2 DEF Relayed, RelayStates, Larger
  <2>4. QED
    BY <2>3 DEF RelayStates
<1>2. CASE sub.op # "Ack"
  <2>1. sub.seq \in Nat /\ st.session \in Sessions /\ st.shown \in Seq(ShownPackets)
    BY DEF RelayStates, ServerSubs
  <2>2. RewriteServerPacket(st.session, sub.seq) \in Sessions
        /\ RewriteServerPacket(st.session, sub.seq).csOffset = st.session.csOffset
    BY <2>1, RewriteServerPacketType
  <2>3. [seq |-> st.session.seqToClient, item |-> sub.item] \in ShownPackets
    BY <1>2 DEF ShownPackets, RelayStates, Sessions, ServerSubs
  <2>4. PICK new \in Sessions, packet \in ShownPackets :
          /\ Relayed(st, sub)
               = [st EXCEPT !.session = new, !.shown = Append(st.shown, packet)]
          /\ new.csOffset = st.session.csOffset
    BY <1>2, <2>2, <2>3 DEF Relayed
  <2>5. Append(st.shown, packet) \in Seq(ShownPackets)
    BY <2>1
  <2>6. QED
    BY <2>4, <2>5 DEF RelayStates
<1>3. QED
  BY <1>1, <1>2

LEMMA RelayedAllType ==
  ASSUME NEW st \in RelayStates, NEW d \in Seq(ServerSubs)
  PROVE  /\ RelayedAll(st, d) \in RelayStates
         /\ RelayedAll(st, d).session.csOffset = st.session.csOffset
<1>1. CASE Len(d) = 0
  BY <1>1 DEF RelayedAll
<1>2. CASE Len(d) = 1
  <2>1. d[1] \in ServerSubs
    BY <1>2
  <2>2. RelayedAll(st, d) = Relayed(st, d[1])
    BY <1>2 DEF RelayedAll
  <2>3. QED
    BY <2>1, <2>2, RelayedType
<1>3. CASE Len(d) # 0 /\ Len(d) # 1
  <2>1. d[1] \in ServerSubs /\ d[2] \in ServerSubs
    <3>1. PICK n \in Nat : Len(d) = n
      OBVIOUS
    <3>2. n >= 2
      BY <1>3, <3>1
    <3>3. QED
      BY <3>1, <3>2
  <2>2. /\ Relayed(st, d[1]) \in RelayStates
        /\ Relayed(st, d[1]).session.csOffset = st.session.csOffset
    BY <2>1, RelayedType
  <2>3. RelayedAll(st, d) = Relayed(Relayed(st, d[1]), d[2])
    BY <1>3 DEF RelayedAll
  <2>4. QED
    BY <2>1, <2>2, <2>3, RelayedType
<1>4. QED
  BY <1>1, <1>2, <1>3

----------------------------------------------------------------------------
(* Type correctness, handler by handler *)

LEMMA InitType == Init => TypeOK
<1> SUFFICES ASSUME Init PROVE TypeOK
  OBVIOUS
<1>1. session \in Sessions
  BY NewSessionType DEF Init
<1>2. retry \in [original : Datagrams, armed : BOOLEAN, fired : BOOLEAN]
  BY DEF Init, NoRetry, Datagrams
<1>3. client \in [open : BOOLEAN, sess : Nat, next : Nat, acked : Nat \cup {-1},
                 route : {"sso", "local", "pass"}]
  BY DEF Init
<1>4. server \in [up : BOOLEAN, opening : BOOLEAN, expect : Nat, stream : Seq(ServerItems)]
  BY DEF Init, NoServer
<1>5. auth \in Datagrams /\ shown \in Seq([seq : Nat, item : ServerItems \cup {"List"}])
  BY DEF Init, Datagrams
<1>6. inSession \in BOOLEAN /\ stale \in BOOLEAN
  BY DEF Init
<1>7. toServer \in SUBSET ClientSubs /\ arrived \in SUBSET Nat
  BY DEF Init
<1>8. QED
  BY <1>1, <1>2, <1>3, <1>4, <1>5, <1>6, <1>7 DEF TypeOK

LEMMA CurrentType ==
  ASSUME TypeOK
  PROVE  /\ CurrentSession \in Sessions
         /\ CurrentRetry \in [original : Datagrams, armed : BOOLEAN, fired : BOOLEAN]
  BY NewSessionType DEF TypeOK, CurrentSession, CurrentRetry, NoRetry, Datagrams

LEMMA ClientPacketType ==
  ASSUME TypeOK, NEW n \in Nat
  PROVE  ClientPacket(n) \in ClientSubs
  BY DEF TypeOK, ClientPacket, ClientSubs, Kind, Kinds, Creds

LEMMA AckType ==
  ASSUME TypeOK, NEW n \in Nat
  PROVE  Ack(n) \in ClientSubs
  BY DEF TypeOK, Ack, ClientSubs, Kinds, Creds

LEMMA ClientAckType ==
  ASSUME TypeOK, shown # <<>>
  PROVE  ClientAck \in ClientSubs
<1>1. PICK n \in Nat : Len(shown) = n
  BY DEF TypeOK
<1>2. n > 0
  BY <1>1 DEF TypeOK
<1>3. QED
  BY <1>1, <1>2, AckType DEF ClientAck

LEMMA ClientDatagramsType ==
  ASSUME TypeOK, NEW n \in Nat, NEW d \in ClientDatagrams(n)
  PROVE  d \in Datagrams
<1>1. CASE d = <<ClientPacket(n)>>
  BY <1>1, ClientPacketType DEF Datagrams
<1>2. CASE d = <<ClientAck, ClientPacket(n)>>
  <2>1. shown # <<>>
    BY <1>2 DEF ClientDatagrams
  <2>2. QED
    BY <1>2, <2>1, ClientAckType, ClientPacketType DEF Datagrams
<1>3. QED
  BY <1>1, <1>2 DEF ClientDatagrams

LEMMA HandleClientDataType ==
  ASSUME TypeOK, NEW d \in Datagrams, HandleClientData(d)
  PROVE  /\ session' \in Sessions
         /\ retry' \in [original : Datagrams, armed : BOOLEAN, fired : BOOLEAN]
         /\ auth' \in Datagrams
         /\ stale' \in BOOLEAN
         /\ toServer' \in SUBSET ClientSubs
         /\ UNCHANGED <<inSession, server, arrived>>
<1>1. /\ session' \in Sessions
      /\ retry' \in [original : Datagrams, armed : BOOLEAN, fired : BOOLEAN]
      /\ UNCHANGED <<inSession, server, arrived>>
  BY CurrentType DEF HandleClientData
<1>2. Adjust(CurrentSession, d) \in Datagrams
  BY CurrentType, AdjustType
<1>3. CASE DropLogin(d)
  BY <1>1, <1>3 DEF DropLogin, TypeOK
<1>4. CASE StartAuth(d)
  BY <1>1, <1>2, <1>4 DEF StartAuth, TypeOK
<1>5. CASE ForwardClientData(d)
  <2>1. SyncRewrite(Adjust(CurrentSession, d)) \in Datagrams
    BY <1>2, WithCredentialsType DEF SyncRewrite, Creds
  <2>2. SubsOf(SyncRewrite(Adjust(CurrentSession, d))) \subseteq ClientSubs
    BY <2>1, SubsOfType
  <2>3. QED
    BY <1>1, <1>5, <2>2 DEF ForwardClientData, SendToLoginServer, TypeOK
<1>6. QED
  BY <1>3, <1>4, <1>5 DEF HandleClientData

LEMMA ServerDatagramType ==
  ASSUME TypeOK, NEW i \in DOMAIN server.stream
  PROVE  /\ i \in Nat /\ i > 0
         /\ ServerPacket(i) \in ServerSubs
<1>1. server.stream \in Seq(ServerItems)
  BY DEF TypeOK
<1>2. i \in Nat /\ i > 0 /\ server.stream[i] \in ServerItems
  BY <1>1
<1>3. server.stream[i] # "none"
  BY <1>2 DEF ServerItems, LoginAnswers, Rejections, FragmentItems
<1>4. QED
  BY <1>2, <1>3 DEF ServerPacket, ServerSubs

LEMMA ServerFragmentType ==
  ASSUME TypeOK, NEW i \in DOMAIN server.stream, NEW total \in Nat
  PROVE  ServerFragment(i, total) \in Fragments
<1>1. i \in Nat /\ i > 0
  BY ServerDatagramType
<1>2. (i - 1) % SeqMod \in Nat
  BY <1>1, SeqModAssumption
<1>3. QED
  BY <1>1, <1>2 DEF ServerFragment, Fragments

LEMMA ServerAckType ==
  ASSUME TypeOK, NEW a \in ServerAcks
  PROVE  a \in ServerSubs
  BY DEF TypeOK, ServerAcks, ServerAck, ServerSubs

LEMMA UnrelayedType ==
  ASSUME TypeOK
  PROVE  Unrelayed \in RelayStates
  BY DEF TypeOK, Unrelayed, RelayStates, ShownPackets

LEMMA AnswerInType ==
  ASSUME NEW d \in Seq(ServerSubs), d # <<>>, AnswerIn(d) # 0
  PROVE  AnswerIn(d) \in DOMAIN d /\ d[AnswerIn(d)].item \in LoginAnswers
<1>1. PICK n \in Nat : Len(d) = n
  OBVIOUS
<1>2. n > 0
  BY <1>1
<1>3. QED
  BY <1>1, <1>2 DEF AnswerIn

(* What is forwarded of a datagram whose rejection is withheld. *)
LEMMA WithoutAnswerType ==
  ASSUME TypeOK, NEW d \in Seq(ServerSubs), d # <<>>, AnswerIn(d) # 0
  PROVE  /\ d[AnswerIn(d)].seq \in Nat
         /\ WithoutAnswer(d) \in Seq(ServerSubs)
         /\ RelayedAll(Unrelayed, WithoutAnswer(d)) \in RelayStates
         /\ RelayedAll(Unrelayed, WithoutAnswer(d)).session \in Sessions
         /\ RelayedAll(Unrelayed, WithoutAnswer(d)).session.csOffset = session.csOffset
<1> DEFINE k == AnswerIn(d)
<1>1. k \in DOMAIN d /\ d[k] \in ServerSubs /\ k \in {1, 2}
  <2>1. k \in DOMAIN d
    BY AnswerInType
  <2>2. QED
    BY <2>1 DEF AnswerIn
<1>2. WithoutAnswer(d) \in Seq(ServerSubs)
  <2>1. PICK n \in Nat : Len(d) = n
    OBVIOUS
  <2>2. n = 1 \/ n >= 2
    BY <1>1, <2>1
  <2>3. CASE n = 1
    BY <2>1, <2>3 DEF WithoutAnswer
  <2>4. CASE n >= 2
    <3>1. 3 - k \in 1 .. n
      BY <1>1, <2>4
    <3>2. d[3 - k] \in ServerSubs
      BY <2>1, <3>1
    <3> HIDE DEF k
    <3>3. QED
      BY <3>2, <2>1, <2>4 DEF WithoutAnswer, k
  <2>5. QED
    BY <2>2, <2>3, <2>4
<1>3. RelayedAll(Unrelayed, WithoutAnswer(d)) \in RelayStates
      /\ RelayedAll(Unrelayed, WithoutAnswer(d)).session.csOffset = session.csOffset
  <2>1. Unrelayed.session = session
    BY DEF Unrelayed
  <2>2. QED
    BY <1>2, <2>1, UnrelayedType, RelayedAllType
<1>4. d[k].seq \in Nat
  BY <1>1 DEF ServerSubs
<1>5. QED
  BY <1>2, <1>3, <1>4 DEF RelayStates

(* What HandleServerData leaves behind: the sub-packets it forwards are a   *)
(* sequence of those it was given.                                          *)
LEMMA HandleServerDataType ==
  ASSUME TypeOK, NEW d \in Seq(ServerSubs), d # <<>>, HandleServerData(d)
  PROVE  /\ session' \in Sessions
         /\ retry' \in [original : Datagrams, armed : BOOLEAN, fired : BOOLEAN]
         /\ toServer' \in SUBSET ClientSubs
         /\ shown' \in Seq(ShownPackets)
         /\ client' \in [open : BOOLEAN, sess : Nat, next : Nat, acked : Nat \cup {-1},
                         route : {"sso", "local", "pass"}]
         /\ UNCHANGED <<inSession, auth, stale, server>>
<1> DEFINE Clients == [open : BOOLEAN, sess : Nat, next : Nat, acked : Nat \cup {-1},
                       route : {"sso", "local", "pass"}]
<1>1. UNCHANGED <<inSession, auth, stale, server>>
  BY DEF HandleServerData
<1>2. ASSUME NEW st \in RelayStates, Forwarded(st)
      PROVE  shown' \in Seq(ShownPackets) /\ client' \in Clients
  BY <1>2 DEF Forwarded, RelayStates, TypeOK
<1>3. CASE PassOn(d)
  <2>1. RelayedAll(Unrelayed, d) \in RelayStates
    BY UnrelayedType, RelayedAllType
  <2>2. session' \in Sessions /\ toServer' \in SUBSET ClientSubs
    BY <1>3, <2>1 DEF PassOn, RelayStates, TypeOK
  <2>3. retry' \in [original : Datagrams, armed : BOOLEAN, fired : BOOLEAN]
    BY <1>3 DEF PassOn, TypeOK, Intercepts
  <2>4. Forwarded(RelayedAll(Unrelayed, d))
    BY <1>3 DEF PassOn
  <2>5. QED
    BY <1>1, <1>2, <2>1, <2>2, <2>3, <2>4
<1>4. CASE Intercepts(d) /\ SuppressRejection(d)
  <2> DEFINE n  == d[AnswerIn(d)].seq
             st == RelayedAll(Unrelayed, WithoutAnswer(d))
  <2>3. st \in RelayStates /\ st.session \in Sessions /\ n \in Nat
    BY <1>4, WithoutAnswerType DEF Intercepts
  <2>4. Forwarded(st) /\ FireSsoRetry(st.session, n)
    BY <1>4 DEF SuppressRejection
  <2>5. st.session \in Sessions /\ n \in Nat
    BY <2>3
  <2> HIDE DEF n, st
  <2>6. CASE retry.original = <<>>
    <3>1. /\ session' \in Sessions
          /\ retry' \in [original : Datagrams, armed : BOOLEAN, fired : BOOLEAN]
          /\ toServer' \in SUBSET ClientSubs
      BY <2>4, <2>5, <2>6 DEF FireSsoRetry, TypeOK
    <3>2. QED
      BY <1>1, <1>2, <2>3, <2>4, <3>1
  <2>7. CASE retry.original # <<>>
    <3> DEFINE counted == NoteSuppressedServerPacket(st.session, n)
               shifted == NoteInjectedClientPacket(counted)
               replay  == Adjust(shifted, retry.original)
    <3>1. shifted \in Sessions
      BY <2>5, NoteSuppressedType, NoteInjectedType
    <3>2. replay \in Datagrams
      BY <3>1, AdjustType DEF TypeOK
    <3>3. <<Ack(n)>> \in Datagrams
      BY <2>5, AckType DEF Datagrams
    <3>4. <<Ack(n)>> \o replay \in Datagrams
      <4> HIDE DEF replay
      <4> QED
        BY <3>2, <3>3 DEF Datagrams
    <3>5. SubsOf(<<Ack(n)>> \o replay) \subseteq ClientSubs
      BY <3>4, SubsOfType
    <3>6. /\ session' = shifted
          /\ toServer' = toServer \cup SubsOf(<<Ack(n)>> \o replay)
          /\ retry' = [retry EXCEPT !.armed = FALSE, !.fired = TRUE]
      BY <2>4, <2>7 DEF FireSsoRetry, SendToLoginServer
    <3>7. /\ session' \in Sessions
          /\ retry' \in [original : Datagrams, armed : BOOLEAN, fired : BOOLEAN]
          /\ toServer' \in SUBSET ClientSubs
      <4> HIDE DEF shifted, replay
      <4> QED
        BY <3>1, <3>5, <3>6 DEF TypeOK
    <3>8. QED
      BY <1>1, <1>2, <2>3, <2>4, <3>7
  <2>8. QED
    BY <2>6, <2>7
<1>5. QED
  BY <1>3, <1>4 DEF HandleServerData

(* Every sequenced packet reaches handle_server_packet in such a datagram. *)
LEMMA ServerSendsPacketData ==
  ASSUME TypeOK, NEW i \in DOMAIN server.stream, ServerSendsPacket(i)
  PROVE  \E d \in Seq(ServerSubs) : d # <<>> /\ HandleServerData(d)
<1>1. ServerPacket(i) \in ServerSubs
  BY ServerDatagramType
<1>2. CASE HandleServerData(<<ServerPacket(i)>>)
  <2>1. <<ServerPacket(i)>> \in Seq(ServerSubs) /\ <<ServerPacket(i)>> # <<>>
    BY <1>1
  <2>2. QED
    BY <1>2, <2>1
<1>3. ASSUME NEW a \in ServerAcks, HandleServerData(<<a, ServerPacket(i)>>)
      PROVE  \E d \in Seq(ServerSubs) : d # <<>> /\ HandleServerData(d)
  <2>1. <<a, ServerPacket(i)>> \in Seq(ServerSubs) /\ <<a, ServerPacket(i)>> # <<>>
    BY <1>1, ServerAckType
  <2>2. QED
    BY <1>3, <2>1
<1>4. CASE /\ i + 1 \in DOMAIN server.stream
           /\ HandleServerData(<<ServerPacket(i), ServerPacket(i + 1)>>)
  <2>1. ServerPacket(i + 1) \in ServerSubs
    BY <1>4, ServerDatagramType
  <2>2. /\ <<ServerPacket(i), ServerPacket(i + 1)>> \in Seq(ServerSubs)
        /\ <<ServerPacket(i), ServerPacket(i + 1)>> # <<>>
    BY <1>1, <2>1
  <2>3. QED
    BY <1>4, <2>2
<1>5. QED
  BY <1>2, <1>3, <1>4 DEF ServerSendsPacket

LEMMA ServerSendsFragmentData ==
  ASSUME TypeOK, NEW i \in DOMAIN server.stream, ServerSendsFragment(i)
  PROVE  \E f \in Fragments : HandleFragment(f)
<1>1. PICK total \in IF server.stream[i] = "Head" THEN {NFrags} ELSE GarbageTotals :
        HandleFragment(ServerFragment(i, total))
  BY DEF ServerSendsFragment
<1>2. total \in Nat
  BY <1>1, ProxyAssumption
<1>3. QED
  BY <1>1, <1>2, ServerFragmentType

LEMMA ServerDataStep ==
  ASSUME TypeOK, NEW d \in Seq(ServerSubs), d # <<>>, HandleServerData(d),
         arrived' \in SUBSET Nat
  PROVE  TypeOK'
  BY HandleServerDataType DEF TypeOK, ShownPackets

----------------------------------------------------------------------------
(* Every step keeps the types: one step of the proof for each action. *)

LEMMA NextType == TypeOK /\ [Next]_vars => TypeOK'
<1> SUFFICES ASSUME TypeOK, [Next]_vars PROVE TypeOK'
  OBVIOUS
<1> DEFINE Retries == [original : Datagrams, armed : BOOLEAN, fired : BOOLEAN]
           Clients == [open : BOOLEAN, sess : Nat, next : Nat, acked : Nat \cup {-1},
                       route : {"sso", "local", "pass"}]
           Servers == [up : BOOLEAN, opening : BOOLEAN, expect : Nat,
                       stream : Seq(ServerItems)]
<1>1. CASE ClientIssues
  <2>1. client.next \in Nat
    BY DEF TypeOK
  <2>2. PICK d \in ClientDatagrams(client.next) : HandleClientData(d)
    BY <1>1 DEF ClientIssues
  <2>3. d \in Datagrams
    BY <2>1, ClientDatagramsType
  <2>4. client' \in Clients /\ UNCHANGED shown
    <3>1. client' = [client EXCEPT !.next = client.next + 1] /\ UNCHANGED shown
      BY <1>1 DEF ClientIssues
    <3>2. client.next + 1 \in Nat
      BY <2>1
    <3>3. QED
      BY <3>1, <3>2 DEF TypeOK
  <2>5. QED
    BY <2>2, <2>3, <2>4, HandleClientDataType DEF TypeOK
<1>2. CASE ClientRepeats
  <2>1. PICK n \in (client.acked + 1) .. (client.next - 1) :
          \E d \in ClientDatagrams(n) : HandleClientData(d)
    BY <1>2 DEF ClientRepeats
  <2>2. n \in Nat
    BY <2>1 DEF TypeOK
  <2>3. PICK d \in ClientDatagrams(n) : HandleClientData(d)
    BY <2>1
  <2>4. d \in Datagrams
    BY <2>2, ClientDatagramsType
  <2>5. UNCHANGED <<client, shown>>
    BY <1>2 DEF ClientRepeats, clientVars
  <2>6. QED
    BY <2>3, <2>4, <2>5, HandleClientDataType DEF TypeOK
<1>3. CASE ClientAcks
  <2>1. <<ClientAck>> \in Datagrams
    BY <1>3, ClientAckType DEF ClientAcks, Datagrams
  <2>2. HandleClientData(<<ClientAck>>) /\ UNCHANGED <<client, shown>>
    BY <1>3 DEF ClientAcks, clientVars
  <2>3. QED
    BY <2>1, <2>2, HandleClientDataType DEF TypeOK
<1>4. CASE ClientKeepsAlive
  BY <1>4, CurrentType DEF ClientKeepsAlive, clientVars, serverVars, TypeOK
<1>5. CASE ClientConnects
  <2>1. client' \in Clients
    BY <1>5, ProxyAssumption DEF ClientConnects, TypeOK
  <2>2. server' \in Servers
    <3>1. server' = [up |-> FALSE, opening |-> TRUE, expect |-> 0, stream |-> <<>>]
      BY <1>5 DEF ClientConnects, NoServer
    <3>2. QED
      BY <3>1
  <2>3. session' \in Sessions /\ retry' \in Retries
    BY <1>5, CurrentType DEF ClientConnects
  <2>4. stale' \in BOOLEAN /\ shown' = <<>> /\ toServer' = {} /\ arrived' = {}
        /\ UNCHANGED <<inSession, auth>>
    BY <1>5 DEF ClientConnects
  <2>5. QED
    BY <2>1, <2>2, <2>3, <2>4 DEF TypeOK
<1>6. CASE ClientDisconnects
  <2>1. client' \in Clients
    BY <1>6 DEF ClientDisconnects, TypeOK
  <2>2. server' \in Servers
    BY <1>6 DEF ClientDisconnects, NoServer
  <2>3. session' \in Sessions /\ retry' \in Retries
    BY <1>6, NewSessionType DEF ClientDisconnects, NoRetry, Datagrams
  <2>4. inSession' \in BOOLEAN /\ stale' \in BOOLEAN /\ shown' = <<>>
        /\ toServer' = {} /\ arrived' = {} /\ UNCHANGED auth
    BY <1>6 DEF ClientDisconnects
  <2>5. QED
    BY <2>1, <2>2, <2>3, <2>4 DEF TypeOK
<1>7. CASE ClientIdles
  BY <1>7 DEF ClientIdles, clientVars, serverVars, TypeOK
<1>8. CASE AuthSucceeds
  <2>1. SubsOf(WithCredentials(auth, "sso")) \subseteq ClientSubs
    BY WithCredentialsType, SubsOfType DEF TypeOK, Creds
  <2>2. retry' \in Retries /\ stale' \in BOOLEAN
    BY <1>8 DEF AuthSucceeds, TypeOK
  <2>3. auth' \in Datagrams
    BY <1>8 DEF AuthSucceeds, Datagrams
  <2>4. toServer' \in SUBSET ClientSubs
    <3> DEFINE new == SubsOf(WithCredentials(auth, "sso"))
    <3>1. toServer' = toServer \cup new
      BY <1>8 DEF AuthSucceeds, SendToLoginServer
    <3>2. new \subseteq ClientSubs
      BY <2>1
    <3> HIDE DEF new
    <3>3. QED
      BY <3>1, <3>2 DEF TypeOK
  <2>5. QED
    BY <1>8, <2>2, <2>3, <2>4 DEF AuthSucceeds, clientVars, TypeOK
<1>9. CASE AuthFails
  <2>1. SubsOf(auth) \subseteq ClientSubs
    BY SubsOfType DEF TypeOK
  <2>2. stale' \in BOOLEAN /\ UNCHANGED retry
    BY <1>9 DEF AuthFails
  <2>3. auth' \in Datagrams
    BY <1>9 DEF AuthFails, Datagrams
  <2>4. toServer' \in SUBSET ClientSubs
    BY <1>9, <2>1 DEF AuthFails, SendToLoginServer, TypeOK
  <2>5. QED
    BY <1>9, <2>2, <2>3, <2>4 DEF AuthFails, clientVars, TypeOK
<1>10. ASSUME NEW i \in DOMAIN server.stream, ServerSendsPacket(i)
       PROVE  TypeOK'
  <2>1. PICK d \in Seq(ServerSubs) : d # <<>> /\ HandleServerData(d)
    BY <1>10, ServerSendsPacketData
  <2>2. arrived' \in SUBSET Nat
    <3>1. i \in Nat /\ i - 1 \in Nat
      BY ServerDatagramType
    <3>2. arrived' = arrived \cup {i - 1} \/ arrived' = arrived \cup {i - 1, i}
      BY <1>10 DEF ServerSendsPacket
    <3>3. QED
      BY <3>1, <3>2 DEF TypeOK
  <2>3. QED
    BY <2>1, <2>2, ServerDataStep
<1>11. ASSUME NEW i \in DOMAIN server.stream, ServerSendsFragment(i)
       PROVE  TypeOK'
  <2>1. PICK f \in Fragments : HandleFragment(f)
    BY <1>11, ServerSendsFragmentData
  <2>2. session' \in Sessions
    BY <2>1, RecvFragmentType DEF HandleFragment, TypeOK
  <2>3. [seq |-> session.seqToClient, item |-> "List"] \in ShownPackets
    BY DEF TypeOK, Sessions, ShownPackets
  <2>4. shown' \in Seq(ShownPackets)
    <3>1. shown \in Seq(ShownPackets)
      BY DEF TypeOK, ShownPackets
    <3>2. shown' = shown
            \/ shown' = Append(shown, [seq |-> session.seqToClient, item |-> "List"])
      BY <2>1 DEF HandleFragment
    <3>3. QED
      BY <2>3, <3>1, <3>2
  <2>5. arrived' \in SUBSET Nat
    <3>1. i - 1 \in Nat
      BY ServerDatagramType
    <3>2. QED
      BY <1>11, <3>1 DEF ServerSendsFragment, TypeOK
  <2>6. UNCHANGED <<inSession, retry, auth, stale, client, server, toServer>>
    BY <2>1 DEF HandleFragment
  <2>7. QED
    BY <2>2, <2>4, <2>5, <2>6 DEF TypeOK, ShownPackets
<1>12. CASE ServerSendsAck
  <2>1. PICK a \in ServerAcks : HandleServerData(<<a>>)
    BY <1>12 DEF ServerSendsAck
  <2>2. a \in ServerSubs
    BY ServerAckType
  <2>3. <<a>> \in Seq(ServerSubs) /\ <<a>> # <<>>
    BY <2>2
  <2>4. arrived' \in SUBSET Nat
    BY <1>12 DEF ServerSendsAck, TypeOK
  <2>5. QED
    BY <2>1, <2>3, <2>4, ServerDataStep
<1>13. CASE ServerResponds
  <2>1. client' \in Clients /\ server' \in Servers
    BY <1>13 DEF ServerResponds, TypeOK
  <2>2. session' \in Sessions /\ retry' \in Retries /\ inSession' \in BOOLEAN
    BY <1>13, NewSessionType DEF ServerResponds, NoRetry, Datagrams
  <2>3. QED
    BY <1>13, <2>1, <2>2 DEF ServerResponds, TypeOK
<1>14. CASE ServerReceives
  <2>1. PICK m \in toServer : \E answer \in Answers(m) :
          server' = [server EXCEPT !.expect = @ + 1, !.stream = @ \o answer]
    BY <1>14 DEF ServerReceives
  <2>2. PICK answer \in Answers(m) :
          server' = [server EXCEPT !.expect = @ + 1, !.stream = @ \o answer]
    BY <2>1
  <2>3. \A last \in {"Tail", "Stub"} : ListFragments(last) \in Seq(ServerItems)
    <3>1. NFrags \in Nat
      BY ProxyAssumption
    <3>2. \A last \in {"Tail", "Stub"} : ListFragments(last) \in [1 .. NFrags -> ServerItems]
      BY DEF ListFragments, ServerItems, FragmentItems
    <3>3. QED
      BY <3>1, <3>2
  <2>4. answer \in Seq(ServerItems)
    <3>1. \A item \in {"Hello", "Good", "SsoRejected", "Rejected"} :
            <<item>> \in Seq(ServerItems)
      BY DEF ServerItems, LoginAnswers, Rejections
    <3>2. CASE m.kind = "Ready"
      BY <2>2, <3>1, <3>2 DEF Answers
    <3>3. CASE m.kind = "Login"
      BY <2>2, <3>1, <3>3 DEF Answers
    <3>4. CASE m.kind # "Ready" /\ m.kind # "Login"
      BY <2>2, <2>3, <3>4 DEF Answers
    <3>5. QED
      BY <3>2, <3>3, <3>4
  <2>5. server.stream \o answer \in Seq(ServerItems)
    BY <2>4 DEF TypeOK
  <2>6. server' \in Servers
    <3> DEFINE stream == server.stream \o answer
    <3>1. server' = [server EXCEPT !.expect = server.expect + 1, !.stream = stream]
      BY <2>2
    <3>2. stream \in Seq(ServerItems)
      BY <2>5
    <3>3. server.expect + 1 \in Nat /\ server \in Servers
      BY DEF TypeOK
    <3> HIDE DEF stream
    <3>4. QED
      BY <3>1, <3>2, <3>3
  <2>7. QED
    BY <1>14, <2>6 DEF ServerReceives, proxyVars, clientVars, TypeOK
<1>15. CASE UNCHANGED vars
  BY <1>15 DEF vars, proxyVars, clientVars, serverVars, TypeOK
<1>16. QED
  BY <1>1, <1>2, <1>3, <1>4, <1>5, <1>6, <1>7, <1>8, <1>9, <1>10, <1>11, <1>12,
     <1>13, <1>14, <1>15
  DEF Next, ClientStep, AuthEnds, ServerSends

(* The program's state stays within its types, whatever the network and the *)
(* client do: in particular no sequence number of the session record is     *)
(* ever negative.                                                           *)
THEOREM TypeCorrect == Spec => []TypeOK
<1>1. Init => TypeOK
  BY InitType
<1>2. TypeOK /\ [Next]_vars => TypeOK'
  BY NextType
<1>3. QED
  BY <1>1, <1>2, PTL DEF Spec

----------------------------------------------------------------------------
(* The Login that is authenticated, and replayed *)

(* A datagram that carries the Login the player typed, behind an Ack. *)
TypedLogin(d) == Len(d) = 2 /\ d[2].kind = "Login" /\ d[2].cred = "typed"

(* RetryConsistent is not inductive alone: it holds after AuthSucceeds only *)
(* because what is being authenticated is a Login as the client typed it.   *)
AuthIsLogin == auth # <<>> => TypedLogin(auth)

RetryInv == RetryConsistent /\ AuthIsLogin

----------------------------------------------------------------------------
(* Lemmas on the datagrams *)

LEMMA ClientLoginIsTyped ==
  ASSUME TypeOK, NEW n \in Nat, NEW d \in ClientDatagrams(n), NeedsSso(d)
  PROVE  TypedLogin(d)
<1>1. d = <<ClientAck, ClientPacket(n)>>
  BY DEF ClientDatagrams, NeedsSso
<1>2. ClientPacket(n).kind = "Login" /\ d[2] = ClientPacket(n)
  BY <1>1 DEF NeedsSso
<1>3. n = 1
  BY <1>2 DEF ClientPacket, Kind
<1>4. ClientPacket(n).cred = "typed"
  BY <1>3 DEF ClientPacket
<1>5. QED
  BY <1>1, <1>2, <1>4 DEF TypedLogin

LEMMA AdjustKeepsLogin ==
  ASSUME NEW s \in Sessions, NEW d \in Datagrams, TypedLogin(d)
  PROVE  TypedLogin(Adjust(s, d)) /\ Adjust(s, d) # <<>>
<1>1. Len(Adjust(s, d)) = 2
  BY AdjustType DEF TypedLogin
<1>2. 2 \in DOMAIN d
  <2>1. PICK n \in Nat : Len(d) = n /\ DOMAIN d = 1 .. n
    BY DEF Datagrams
  <2>2. QED
    BY <2>1 DEF TypedLogin
<1>3. Adjust(s, d)[2].kind = d[2].kind /\ Adjust(s, d)[2].cred = d[2].cred
  BY <1>2, AdjustType
<1>4. QED
  BY <1>1, <1>3 DEF TypedLogin

----------------------------------------------------------------------------
(* The retry, handler by handler *)

LEMMA HandleClientDataRetry ==
  ASSUME TypeOK, RetryInv, NEW d \in Datagrams, HandleClientData(d),
         NeedsSso(d) => TypedLogin(d)
  PROVE  RetryInv'
<1>1. RetryConsistent'
  BY DEF HandleClientData, CurrentSession, CurrentRetry, NoRetry, RetryInv,
         RetryConsistent
<1>2. CASE DropLogin(d)
  BY <1>1, <1>2 DEF DropLogin, RetryInv, AuthIsLogin
<1>3. CASE StartAuth(d)
  <2>1. TypedLogin(Adjust(CurrentSession, d))
    BY <1>3, CurrentType, AdjustKeepsLogin DEF StartAuth
  <2>2. auth' = Adjust(CurrentSession, d)
    BY <1>3 DEF StartAuth
  <2>3. AuthIsLogin'
    BY <2>1, <2>2 DEF AuthIsLogin, TypedLogin
  <2>4. QED
    BY <1>1, <2>3 DEF RetryInv
<1>4. CASE ForwardClientData(d)
  BY <1>1, <1>4 DEF ForwardClientData, RetryInv, AuthIsLogin
<1>5. QED
  BY <1>2, <1>3, <1>4 DEF HandleClientData

LEMMA HandleServerDataRetry ==
  ASSUME TypeOK, RetryInv, NEW d \in Seq(ServerSubs), d # <<>>, HandleServerData(d)
  PROVE  RetryInv'
<1>1. AuthIsLogin'
  BY DEF HandleServerData, RetryInv, AuthIsLogin
<1>2. CASE PassOn(d)
  <2>1. /\ session' = RelayedAll(Unrelayed, d).session
        /\ RelayedAll(Unrelayed, d).session.csOffset = session.csOffset
    BY <1>2, UnrelayedType, RelayedAllType DEF PassOn, Unrelayed
  <2>2. retry' = [retry EXCEPT !.armed = retry.armed /\ ~Intercepts(d)]
    BY <1>2 DEF PassOn
  <2>3. /\ retry'.original = retry.original /\ retry'.fired = retry.fired
        /\ retry'.armed => retry.armed
    BY <2>2 DEF TypeOK
  <2>4. RetryConsistent'
    BY <2>1, <2>3 DEF RetryInv, RetryConsistent
  <2>5. QED
    BY <1>1, <2>4 DEF RetryInv
<1>3. CASE Intercepts(d) /\ SuppressRejection(d)
  <2> DEFINE n  == d[AnswerIn(d)].seq
             st == RelayedAll(Unrelayed, WithoutAnswer(d))
             counted == NoteSuppressedServerPacket(st.session, n)
  <2>1. /\ st.session \in Sessions /\ st.session.csOffset = session.csOffset
        /\ n \in Nat
    BY <1>3, WithoutAnswerType DEF Intercepts
  <2>2. FireSsoRetry(st.session, n)
    BY <1>3 DEF SuppressRejection
  <2>3. retry.original # <<>> /\ retry.armed
    BY <1>3 DEF RetryInv, RetryConsistent, Intercepts
  <2>4. session' = NoteInjectedClientPacket(counted)
        /\ retry' = [retry EXCEPT !.armed = FALSE, !.fired = TRUE]
    BY <2>2, <2>3 DEF FireSsoRetry
  <2> HIDE DEF n, st
  <2>5. counted \in Sessions /\ counted.csOffset = session.csOffset
    BY <2>1, NoteSuppressedType
  <2> HIDE DEF counted
  <2>6. session'.csOffset = session.csOffset + 1 /\ session.csOffset \in Nat
    BY <2>4, <2>5, NoteInjectedType DEF Sessions
  <2>7. retry'.original = retry.original /\ retry'.fired /\ ~retry'.armed
    BY <2>4 DEF TypeOK
  <2>8. RetryConsistent'
    BY <2>3, <2>6, <2>7 DEF RetryInv, RetryConsistent
  <2>9. QED
    BY <1>1, <2>8 DEF RetryInv
<1>4. QED
  BY <1>2, <1>3 DEF HandleServerData

LEMMA HandleFragmentRetry ==
  ASSUME TypeOK, RetryInv, NEW f \in Fragments, HandleFragment(f)
  PROVE  RetryInv'
<1>1. session'.csOffset = session.csOffset
  BY RecvFragmentType DEF HandleFragment, TypeOK
<1>2. QED
  BY <1>1 DEF HandleFragment, RetryInv, RetryConsistent, AuthIsLogin

----------------------------------------------------------------------------
(* The retry, action by action *)

LEMMA RetryStep == TypeOK /\ RetryInv /\ [Next]_vars => RetryInv'
<1> SUFFICES ASSUME TypeOK, RetryInv, [Next]_vars PROVE RetryInv'
  OBVIOUS
<1>1. CASE ClientIssues
  <2>1. PICK d \in ClientDatagrams(client.next) : HandleClientData(d)
    BY <1>1 DEF ClientIssues
  <2>2. client.next \in Nat
    BY DEF TypeOK
  <2>3. QED
    BY <2>1, <2>2, ClientDatagramsType, ClientLoginIsTyped, HandleClientDataRetry
<1>2. CASE ClientRepeats
  <2>1. PICK n \in (client.acked + 1) .. (client.next - 1) :
          \E d \in ClientDatagrams(n) : HandleClientData(d)
    BY <1>2 DEF ClientRepeats
  <2>2. n \in Nat
    BY <2>1 DEF TypeOK
  <2>3. PICK d \in ClientDatagrams(n) : HandleClientData(d)
    BY <2>1
  <2>4. QED
    BY <2>2, <2>3, ClientDatagramsType, ClientLoginIsTyped, HandleClientDataRetry
<1>3. CASE ClientAcks
  <2>1. <<ClientAck>> \in Datagrams /\ ~NeedsSso(<<ClientAck>>)
    BY <1>3, ClientAckType DEF ClientAcks, Datagrams, NeedsSso
  <2>2. HandleClientData(<<ClientAck>>)
    BY <1>3 DEF ClientAcks
  <2>3. QED
    BY <2>1, <2>2, HandleClientDataRetry
<1>4. CASE ClientKeepsAlive
  BY <1>4 DEF ClientKeepsAlive, CurrentSession, CurrentRetry, NoRetry, RetryInv,
              RetryConsistent, AuthIsLogin
<1>5. CASE ClientConnects
  BY <1>5 DEF ClientConnects, CurrentSession, CurrentRetry, NoRetry, RetryInv,
              RetryConsistent, AuthIsLogin
<1>6. CASE ClientDisconnects
  BY <1>6 DEF ClientDisconnects, NoRetry, RetryInv, RetryConsistent, AuthIsLogin
<1>7. CASE ClientIdles
  BY <1>7 DEF ClientIdles, RetryInv, RetryConsistent, AuthIsLogin
<1>8. CASE AuthSucceeds
  <2>1. TypedLogin(auth) /\ auth' = <<>>
    BY <1>8 DEF AuthSucceeds, RetryInv, AuthIsLogin
  <2>2. retry' = [original |-> auth, armed |-> TRUE, fired |-> FALSE]
    BY <1>8 DEF AuthSucceeds
  <2>3. QED
    BY <2>1, <2>2 DEF RetryInv, RetryConsistent, AuthIsLogin, TypedLogin
<1>9. CASE AuthFails
  BY <1>9 DEF AuthFails, RetryInv, RetryConsistent, AuthIsLogin
<1>10. ASSUME NEW i \in DOMAIN server.stream, ServerSendsPacket(i)
       PROVE  RetryInv'
  <2>1. PICK d \in Seq(ServerSubs) : d # <<>> /\ HandleServerData(d)
    BY <1>10, ServerSendsPacketData
  <2>2. QED
    BY <2>1, HandleServerDataRetry
<1>11. ASSUME NEW i \in DOMAIN server.stream, ServerSendsFragment(i)
       PROVE  RetryInv'
  <2>1. PICK f \in Fragments : HandleFragment(f)
    BY <1>11, ServerSendsFragmentData
  <2>2. QED
    BY <2>1, HandleFragmentRetry
<1>12. CASE ServerSendsAck
  <2>1. PICK a \in ServerAcks : HandleServerData(<<a>>)
    BY <1>12 DEF ServerSendsAck
  <2>2. <<a>> \in Seq(ServerSubs) /\ <<a>> # <<>>
    BY ServerAckType
  <2>3. QED
    BY <2>1, <2>2, HandleServerDataRetry
<1>13. CASE ServerResponds
  BY <1>13 DEF ServerResponds, NoRetry, RetryInv, RetryConsistent, AuthIsLogin
<1>14. CASE ServerReceives
  BY <1>14 DEF ServerReceives, proxyVars, RetryInv, RetryConsistent, AuthIsLogin
<1>15. CASE UNCHANGED vars
  BY <1>15 DEF vars, proxyVars, RetryInv, RetryConsistent, AuthIsLogin
<1>16. QED
  BY <1>1, <1>2, <1>3, <1>4, <1>5, <1>6, <1>7, <1>8, <1>9, <1>10, <1>11, <1>12,
     <1>13, <1>14, <1>15
  DEF Next, ClientStep, AuthEnds, ServerSends

(* An armed or fired retry always holds the Login the player typed, so       *)
(* _fire_sso_retry never finds its original missing, and a fired one is      *)
(* counted in cs_offset: for every client, network, clock and instance size. *)
THEOREM RetrySafe == Spec => []RetryConsistent
<1>1. Init => RetryInv
  BY DEF Init, NoRetry, RetryInv, RetryConsistent, AuthIsLogin
<1>2. RetryInv => RetryConsistent
  BY DEF RetryInv
<1>3. QED
  BY <1>1, <1>2, TypeCorrect, RetryStep, PTL DEF Spec

----------------------------------------------------------------------------
(* The retry belongs to a session *)

(* With a patient client an authentication ends in the session it began in. *)
SessionInv ==
  /\ RetryWithinSession
  /\ client.open => inSession
  /\ auth # <<>> => client.open

LEMMA HandleClientDataSession ==
  ASSUME SessionInv, NEW d, HandleClientData(d), client.open, client'.open
  PROVE  SessionInv'
  BY DEF HandleClientData, SessionInv, RetryWithinSession, CurrentRetry, NoRetry

LEMMA HandleServerDataSession ==
  ASSUME TypeOK, RetryInv, SessionInv, NEW d \in Seq(ServerSubs), d # <<>>,
         HandleServerData(d)
  PROVE  SessionInv'
<1>1. UNCHANGED <<inSession, auth>>
  BY DEF HandleServerData
<1>2. \A st : Forwarded(st) => client'.open = client.open
  BY DEF Forwarded, TypeOK
<1>3. client'.open = client.open
  BY <1>2, Zenon DEF HandleServerData, PassOn, SuppressRejection
<1>4. retry'.armed => retry.armed
  <2>1. CASE PassOn(d)
    BY <2>1 DEF PassOn, TypeOK
  <2>2. CASE Intercepts(d)
    BY <2>2 DEF Intercepts
  <2>3. QED
    BY <2>1, <2>2 DEF HandleServerData
<1>5. QED
  BY <1>1, <1>3, <1>4 DEF SessionInv, RetryWithinSession

LEMMA SessionStep ==
  ASSUME ~Impatient
  PROVE  TypeOK /\ RetryInv /\ SessionInv /\ [Next]_vars => SessionInv'
<1> SUFFICES ASSUME TypeOK, RetryInv, SessionInv, [Next]_vars PROVE SessionInv'
  OBVIOUS
<1>1. CASE ClientIssues
  <2>1. client.open /\ client'.open
    BY <1>1 DEF ClientIssues, TypeOK
  <2>2. QED
    BY <1>1, <2>1, HandleClientDataSession DEF ClientIssues
<1>2. CASE ClientRepeats
  BY <1>2, HandleClientDataSession DEF ClientRepeats, clientVars
<1>3. CASE ClientAcks
  BY <1>3, HandleClientDataSession DEF ClientAcks, clientVars
<1>4. CASE ClientKeepsAlive
  BY <1>4 DEF ClientKeepsAlive, clientVars, SessionInv, RetryWithinSession,
              CurrentRetry, NoRetry
<1>5. CASE ClientConnects
  <2>1. auth' = <<>> /\ ~client'.open
    BY <1>5 DEF ClientConnects
  <2>2. QED
    BY <1>5, <2>1 DEF ClientConnects, SessionInv, RetryWithinSession, CurrentRetry,
                      Lapsed, NoRetry
<1>6. CASE ClientDisconnects
  <2>1. auth' = <<>> /\ ~client'.open /\ ~retry'.armed
    BY <1>6 DEF ClientDisconnects, NoRetry, TypeOK
  <2>2. QED
    BY <2>1 DEF SessionInv, RetryWithinSession
<1>7. CASE ClientIdles
  BY <1>7 DEF ClientIdles, clientVars, SessionInv, RetryWithinSession
<1>8. CASE AuthEnds
  BY <1>8 DEF AuthEnds, AuthSucceeds, AuthFails, clientVars, SessionInv,
              RetryWithinSession
<1>9. ASSUME NEW i \in DOMAIN server.stream, ServerSendsPacket(i)
      PROVE  SessionInv'
  BY <1>9, ServerSendsPacketData, HandleServerDataSession
<1>10. ASSUME NEW i \in DOMAIN server.stream, ServerSendsFragment(i)
       PROVE  SessionInv'
  <2>1. PICK f \in Fragments : HandleFragment(f)
    BY <1>10, ServerSendsFragmentData
  <2>2. QED
    BY <2>1 DEF HandleFragment, SessionInv, RetryWithinSession
<1>11. CASE ServerSendsAck
  <2>1. PICK a \in ServerAcks : HandleServerData(<<a>>)
    BY <1>11 DEF ServerSendsAck
  <2>2. <<a>> \in Seq(ServerSubs) /\ <<a>> # <<>>
    BY ServerAckType
  <2>3. QED
    BY <2>1, <2>2, HandleServerDataSession
<1>12. CASE ServerResponds
  BY <1>12 DEF ServerResponds, NoRetry, TypeOK, SessionInv, RetryWithinSession
<1>13. CASE ServerReceives
  BY <1>13 DEF ServerReceives, proxyVars, clientVars, SessionInv, RetryWithinSession
<1>14. CASE UNCHANGED vars
  BY <1>14 DEF vars, proxyVars, clientVars, SessionInv, RetryWithinSession
<1>15. QED
  BY <1>1, <1>2, <1>3, <1>4, <1>5, <1>6, <1>7, <1>8, <1>9, <1>10, <1>11, <1>12,
     <1>13, <1>14
  DEF Next, ClientStep, ServerSends

(* For a client that neither leaves nor reconnects while its Login is being  *)
(* authenticated, no retry is armed outside a session: the disconnect, the   *)
(* SessionResponse and the lapse of a session all reset it.                  *)
THEOREM RetryStaysInSession ==
  ASSUME ~Impatient
  PROVE  Spec => []RetryWithinSession
<1>1. Init => SessionInv
  BY DEF Init, NoRetry, SessionInv, RetryWithinSession
<1>2. Init => RetryInv
  BY DEF Init, NoRetry, RetryInv, RetryConsistent, AuthIsLogin
<1>3. SessionInv => RetryWithinSession
  BY DEF SessionInv
<1>4. TypeOK /\ RetryInv /\ SessionInv /\ [Next]_vars => SessionInv'
  BY SessionStep
<1>5. QED
  BY <1>1, <1>2, <1>3, <1>4, TypeCorrect, RetryStep, PTL DEF Spec

----------------------------------------------------------------------------
(* The numbers of the packets the client is shown *)

(* A relay state numbered without a hole: the next number is the next free one. *)
Numbered(st) ==
  /\ \A i \in DOMAIN st.shown : st.shown[i].seq = i - 1
  /\ st.session.seqToClient = Len(st.shown)

(* Between two sessions the server sends nothing; in one, seq_to_client      *)
(* counts what the client was shown and the session cannot lapse.            *)
StreamInv ==
  /\ ClientStreamContiguous
  /\ client.open => inSession /\ ~stale /\ session.seqToClient = Len(shown)
  /\ server.opening => ~client.open /\ ~stale
  /\ ~client.open =>
       shown = <<>> /\ ~server.up /\ server.stream = <<>> /\ server.expect = 0

LEMMA RelayedNumbered ==
  ASSUME NEW st \in RelayStates, Numbered(st), NEW sub \in ServerSubs
  PROVE  Numbered(Relayed(st, sub))
<1>1. CASE sub.op = "Ack"
  BY <1>1 DEF Relayed, RelayStates, Numbered
<1>2. CASE sub.op # "Ack"
  <2> DEFINE packet == [seq |-> st.session.seqToClient, item |-> sub.item]
             new == RewriteServerPacket(st.session, sub.seq)
  <2>1. st.shown \in Seq(ShownPackets) /\ st.session \in Sessions /\ sub.seq \in Nat
    BY DEF RelayStates, ServerSubs
  <2>2. packet \in ShownPackets
    BY <1>2, <2>1 DEF ShownPackets, Sessions, ServerSubs
  <2>3. new.seqToClient = st.session.seqToClient + 1
    BY <2>1, RewriteServerPacketType
  <2>4. Relayed(st, sub) = [st EXCEPT !.session = new, !.shown = Append(st.shown, packet)]
    BY <1>2 DEF Relayed
  <2>5. packet.seq = Len(st.shown) /\ new.seqToClient = Len(st.shown) + 1
    BY <2>3 DEF Numbered
  <2> HIDE DEF packet, new
  <2>6. Relayed(st, sub).shown = Append(st.shown, packet)
        /\ Relayed(st, sub).session = new
    BY <2>4 DEF RelayStates
  <2>7. \A i \in DOMAIN Append(st.shown, packet) : Append(st.shown, packet)[i].seq = i - 1
    <3>1. PICK n \in Nat : Len(st.shown) = n
      BY <2>1
    <3>2. QED
      BY <2>1, <2>2, <2>5, <3>1 DEF Numbered
  <2>8. Len(Append(st.shown, packet)) = Len(st.shown) + 1
    BY <2>1, <2>2
  <2>9. QED
    BY <2>5, <2>6, <2>7, <2>8 DEF Numbered
<1>3. QED
  BY <1>1, <1>2

LEMMA RelayedAllNumbered ==
  ASSUME NEW st \in RelayStates, Numbered(st), NEW d \in Seq(ServerSubs)
  PROVE  Numbered(RelayedAll(st, d))
<1>1. CASE Len(d) = 0
  BY <1>1 DEF RelayedAll
<1>2. CASE Len(d) = 1
  <2>1. d[1] \in ServerSubs
    BY <1>2
  <2>2. RelayedAll(st, d) = Relayed(st, d[1])
    BY <1>2 DEF RelayedAll
  <2>3. QED
    BY <2>1, <2>2, RelayedNumbered
<1>3. CASE Len(d) # 0 /\ Len(d) # 1
  <2>1. d[1] \in ServerSubs /\ d[2] \in ServerSubs
    <3>1. PICK n \in Nat : Len(d) = n
      OBVIOUS
    <3>2. n >= 2
      BY <1>3, <3>1
    <3>3. QED
      BY <3>1, <3>2
  <2>2. Relayed(st, d[1]) \in RelayStates /\ Numbered(Relayed(st, d[1]))
    BY <2>1, RelayedType, RelayedNumbered
  <2>3. RelayedAll(st, d) = Relayed(Relayed(st, d[1]), d[2])
    BY <1>3 DEF RelayedAll
  <2>4. QED
    BY <2>1, <2>2, <2>3, RelayedNumbered
<1>4. QED
  BY <1>1, <1>2, <1>3

LEMMA HandleClientDataStream ==
  ASSUME TypeOK, StreamInv, NEW d, HandleClientData(d), UNCHANGED shown,
         client.open, client'.open
  PROVE  StreamInv'
<1>1. session' = session /\ ~stale' /\ UNCHANGED <<inSession, server>>
  BY DEF HandleClientData, DropLogin, StartAuth, ForwardClientData, StreamInv,
         CurrentSession, Lapsed
<1>2. QED
  BY <1>1 DEF StreamInv, ClientStreamContiguous

LEMMA HandleServerDataStream ==
  ASSUME TypeOK, StreamInv, client.open, NEW d \in Seq(ServerSubs), d # <<>>,
         HandleServerData(d)
  PROVE  StreamInv'
<1>1. UNCHANGED <<inSession, stale, server>>
  BY DEF HandleServerData
<1>2. Unrelayed \in RelayStates /\ Numbered(Unrelayed)
  BY UnrelayedType DEF Unrelayed, Numbered, StreamInv, ClientStreamContiguous
<1>3. ASSUME NEW st \in RelayStates, Numbered(st), Forwarded(st),
             session'.seqToClient = st.session.seqToClient
      PROVE  StreamInv'
  <2>1. shown' = st.shown /\ client'.open = client.open
    BY <1>3 DEF Forwarded, TypeOK
  <2>2. QED
    BY <1>1, <1>3, <2>1 DEF StreamInv, ClientStreamContiguous, Numbered
<1>4. CASE PassOn(d)
  <2> DEFINE st == RelayedAll(Unrelayed, d)
  <2>1. st \in RelayStates /\ Numbered(st)
    BY <1>2, RelayedAllType, RelayedAllNumbered
  <2>2. Forwarded(st) /\ session' = st.session
    BY <1>4 DEF PassOn
  <2> HIDE DEF st
  <2>3. QED
    BY <1>3, <2>1, <2>2
<1>5. CASE Intercepts(d) /\ SuppressRejection(d)
  <2> DEFINE n  == d[AnswerIn(d)].seq
             st == RelayedAll(Unrelayed, WithoutAnswer(d))
             counted == NoteSuppressedServerPacket(st.session, n)
  <2>1. /\ st \in RelayStates /\ st.session \in Sessions /\ n \in Nat
        /\ WithoutAnswer(d) \in Seq(ServerSubs)
    BY <1>5, WithoutAnswerType DEF Intercepts
  <2>2. Numbered(st)
    BY <1>2, <2>1, RelayedAllNumbered
  <2>3. Forwarded(st) /\ FireSsoRetry(st.session, n)
    BY <1>5 DEF SuppressRejection
  <2> HIDE DEF n, st
  <2>4. counted \in Sessions /\ counted.seqToClient = st.session.seqToClient
    BY <2>1, NoteSuppressedType
  <2>5. NoteInjectedClientPacket(counted).seqToClient = st.session.seqToClient
    BY <2>4, NoteInjectedType
  <2>6. session' = st.session \/ session' = NoteInjectedClientPacket(counted)
    BY <2>3 DEF FireSsoRetry
  <2>7. QED
    BY <1>3, <2>1, <2>2, <2>3, <2>5, <2>6
<1>6. QED
  BY <1>4, <1>5 DEF HandleServerData

LEMMA HandleFragmentStream ==
  ASSUME TypeOK, StreamInv, client.open, NEW f \in Fragments, HandleFragment(f)
  PROVE  StreamInv'
<1> DEFINE packet == [seq |-> session.seqToClient, item |-> "List"]
<1>1. UNCHANGED <<inSession, stale, server, client>>
  BY DEF HandleFragment
<1>2. session'.seqToClient
        = IF CompletesList(session, f) THEN session.seqToClient + 1
          ELSE session.seqToClient
  BY RecvFragmentType DEF HandleFragment, TypeOK
<1>3. CASE ~CompletesList(session, f)
  BY <1>1, <1>2, <1>3 DEF HandleFragment, StreamInv, ClientStreamContiguous
<1>4. CASE CompletesList(session, f)
  <2>1. shown' = Append(shown, packet)
    BY <1>4 DEF HandleFragment
  <2>2. packet \in ShownPackets /\ shown \in Seq(ShownPackets)
    BY DEF TypeOK, Sessions, ShownPackets
  <2>3. packet.seq = Len(shown) /\ session'.seqToClient = Len(shown) + 1
    BY <1>2, <1>4 DEF StreamInv
  <2> HIDE DEF packet
  <2>4. ClientStreamContiguous'
    <3>1. PICK n \in Nat : Len(shown) = n
      BY <2>2
    <3>2. QED
      BY <2>1, <2>2, <2>3, <3>1 DEF StreamInv, ClientStreamContiguous
  <2>5. Len(shown') = Len(shown) + 1
    BY <2>1, <2>2
  <2>6. QED
    BY <1>1, <2>3, <2>4, <2>5 DEF StreamInv
<1>5. QED
  BY <1>3, <1>4

LEMMA StreamStep ==
  ASSUME ~IdleGaps, ~RepeatedResponses
  PROVE  TypeOK /\ StreamInv /\ [Next]_vars => StreamInv'
<1> SUFFICES ASSUME TypeOK, StreamInv, [Next]_vars PROVE StreamInv'
  OBVIOUS
<1>1. CASE ClientIssues
  <2>1. client.open /\ client'.open
    BY <1>1 DEF ClientIssues, TypeOK
  <2>2. QED
    BY <1>1, <2>1, HandleClientDataStream DEF ClientIssues
<1>2. CASE ClientRepeats
  BY <1>2, HandleClientDataStream DEF ClientRepeats, clientVars
<1>3. CASE ClientAcks
  BY <1>3, HandleClientDataStream DEF ClientAcks, clientVars
<1>4. CASE ClientKeepsAlive
  BY <1>4 DEF ClientKeepsAlive, clientVars, serverVars, StreamInv,
              ClientStreamContiguous, CurrentSession, Lapsed
<1>5. CASE ClientConnects
  BY <1>5 DEF ClientConnects, NoServer, StreamInv, ClientStreamContiguous
<1>6. CASE ClientDisconnects
  <2>1. ~client'.open
    BY <1>6 DEF ClientDisconnects, TypeOK
  <2>2. QED
    BY <1>6, <2>1 DEF ClientDisconnects, NoServer, StreamInv, ClientStreamContiguous
<1>7. CASE ClientIdles
  BY <1>7 DEF ClientIdles
<1>8. CASE AuthEnds
  BY <1>8 DEF AuthEnds, AuthSucceeds, AuthFails, clientVars, StreamInv,
              ClientStreamContiguous
<1>9. ASSUME NEW i \in DOMAIN server.stream
      PROVE  client.open
  BY <1>9 DEF StreamInv
<1>10. ASSUME NEW i \in DOMAIN server.stream, ServerSendsPacket(i)
       PROVE  StreamInv'
  BY <1>9, <1>10, ServerSendsPacketData, HandleServerDataStream
<1>11. ASSUME NEW i \in DOMAIN server.stream, ServerSendsFragment(i)
       PROVE  StreamInv'
  BY <1>9, <1>11, ServerSendsFragmentData, HandleFragmentStream
<1>12. CASE ServerSendsAck
  <2>1. PICK a \in ServerAcks : HandleServerData(<<a>>)
    BY <1>12 DEF ServerSendsAck
  <2>2. <<a>> \in Seq(ServerSubs) /\ <<a>> # <<>>
    BY ServerAckType
  <2>3. client.open
    BY <2>1 DEF ServerAcks, StreamInv
  <2>4. QED
    BY <2>1, <2>2, <2>3, HandleServerDataStream
<1>13. CASE ServerResponds
  <2>1. server.opening /\ ~client.open /\ ~stale /\ shown = <<>>
    BY <1>13 DEF ServerResponds, StreamInv
  <2>2. /\ client'.open /\ ~server'.opening /\ inSession' /\ ~stale' /\ shown' = <<>>
        /\ session'.seqToClient = 0
    BY <1>13, <2>1 DEF ServerResponds, NewSession, TypeOK
  <2>3. QED
    BY <2>2 DEF StreamInv, ClientStreamContiguous
<1>14. CASE ServerReceives
  <2>1. client.open /\ UNCHANGED <<proxyVars, clientVars>>
    BY <1>14 DEF ServerReceives, StreamInv
  <2>2. server'.opening = server.opening
    BY <1>14 DEF ServerReceives, TypeOK
  <2>3. QED
    BY <2>1, <2>2 DEF proxyVars, clientVars, StreamInv, ClientStreamContiguous
<1>15. CASE UNCHANGED vars
  BY <1>15 DEF vars, proxyVars, clientVars, serverVars, StreamInv,
               ClientStreamContiguous
<1>16. QED
  BY <1>1, <1>2, <1>3, <1>4, <1>5, <1>6, <1>7, <1>8, <1>10, <1>11, <1>12, <1>13,
     <1>14, <1>15
  DEF Next, ClientStep, ServerSends

(* As long as no session lapses and none is opened twice, the packets the    *)
(* client is shown are numbered 0, 1, 2, ... without hole or repeat, however *)
(* the server's datagrams are lost, repeated or reordered and however the    *)
(* client repeats its own: rewriting, reassembly and suppression all agree   *)
(* on seq_to_client.                                                         *)
THEOREM StreamContiguous ==
  ASSUME ~IdleGaps, ~RepeatedResponses
  PROVE  Spec => []ClientStreamContiguous
<1>1. Init => StreamInv
  BY DEF Init, NoServer, StreamInv, ClientStreamContiguous
<1>2. StreamInv => ClientStreamContiguous
  BY DEF StreamInv
<1>3. TypeOK /\ StreamInv /\ [Next]_vars => StreamInv'
  BY StreamStep
<1>4. QED
  BY <1>1, <1>2, <1>3, TypeCorrect, PTL DEF Spec

=============================================================================
