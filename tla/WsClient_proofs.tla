-------------------------- MODULE WsClient_proofs --------------------------
(***************************************************************************)
(* What request_login_auth, the account cache and the location updates     *)
(* promise, for any number of requests, settings, accounts and failures:   *)
(* nobody waits for an answer that cannot come, an answer is the SSO's     *)
(* verdict on the request it is given to, the cache of an open connection  *)
(* is the SSO's list as soon as its messages are handled, and an update is *)
(* only suppressed when the SSO was told the same.                         *)
(***************************************************************************)
EXTENDS WsClient, SequenceTheorems, TLAPS

-----------------------------------------------------------------------------
(* Queues: sequences whose elements have no common type *)

IsQueue(s) == \E S : s \in Seq(S)

LEMMA AppendQueue ==
  ASSUME NEW s, IsQueue(s), NEW e
  PROVE  /\ IsQueue(Append(s, e))
         /\ Len(s) \in Nat /\ Len(Append(s, e)) = Len(s) + 1
         /\ \A i \in 1 .. Len(s) : Append(s, e)[i] = s[i]
         /\ Append(s, e)[Len(s) + 1] = e
<1>1. PICK S : s \in Seq(S)
  BY DEF IsQueue
<1>2. s \in Seq(S \cup {e})
  BY <1>1
<1>3. e \in S \cup {e}
  OBVIOUS
<1> QED BY <1>2, <1>3, AppendProperties DEF IsQueue

LEMMA TailQueue ==
  ASSUME NEW s, IsQueue(s), s # << >>
  PROVE  /\ IsQueue(Tail(s))
         /\ Len(s) \in Nat \ {0} /\ Len(Tail(s)) = Len(s) - 1
         /\ \A i \in 1 .. Len(Tail(s)) : Tail(s)[i] = s[i + 1]
         /\ Head(s) = s[1]
<1>1. PICK S : s \in Seq(S)
  BY DEF IsQueue
<1>2. /\ Tail(s) \in Seq(S) /\ Len(Tail(s)) = Len(s) - 1
      /\ \A i \in 1 .. Len(Tail(s)) : Tail(s)[i] = s[i + 1]
  BY <1>1, HeadTailProperties
<1>3. Len(s) \in Nat \ {0} /\ Head(s) = s[1]
  BY <1>1
<1> QED BY <1>2, <1>3 DEF IsQueue

-----------------------------------------------------------------------------
(* The invariant *)

Verdicts == {"granted", "denied"}
States == {"none", "open", "cancelled"} \cup Verdicts
Outcomes == {"idle", "asked", "failed"} \cup Verdicts

ClientShape ==
  /\ {"phase", "delay", "link", "url", "key", "error", "authFailed"} \subseteq DOMAIN client
  /\ client.link \in Nat

SsoShape ==
  /\ {"auth", "tree", "asked", "location"} \subseteq DOMAIN sso
  /\ sso.asked \subseteq Requests

RequestShape ==
  /\ pending \subseteq Requests
  /\ future \in [Requests -> [state : States, link : Nat]]
  /\ outcome \in [Requests -> Outcomes]
  /\ verdict \in [Requests -> Verdicts \cup {"none"}]

(* A request that is being sent is undecided and is being sent once; what the *)
(* SSO is considering was asked and is undecided.                             *)
OutboxUndecided ==
  /\ IsQueue(outbox)
  /\ \A i \in 1 .. Len(outbox) : outbox[i].kind = "auth" =>
       /\ outbox[i].id \in Requests \ sso.asked
       /\ outcome[outbox[i].id] = "asked"
       /\ verdict[outbox[i].id] = "none"
  /\ \A i, j \in 1 .. Len(outbox) :
       outbox[i].kind = "auth" /\ outbox[j].kind = "auth" /\ outbox[i].id = outbox[j].id
         => i = j

AskedUndecided ==
  /\ \A r \in sso.asked : outcome[r] # "idle" /\ verdict[r] = "none"
  /\ \A r \in Requests : outcome[r] = "idle" => verdict[r] = "none"
  /\ \A r \in Requests : outcome[r] = "asked" => future[r].state # "none"

(* An answer under way, or in a future, is the verdict on that request. *)
InboxTrue ==
  /\ IsQueue(inbox)
  /\ \A i \in 1 .. Len(inbox) : inbox[i].type = "login_auth_response" =>
       /\ inbox[i].id \in Requests
       /\ inbox[i].verdict \in Verdicts
       /\ verdict[inbox[i].id] = inbox[i].verdict

FuturesTrue ==
  \A r \in Requests : future[r].state \in Verdicts => verdict[r] = future[r].state

AnswerInv ==
  /\ ClientShape /\ SsoShape /\ RequestShape
  /\ OutboxUndecided /\ AskedUndecided /\ InboxTrue /\ FuturesTrue
  /\ connected => WsUp
  /\ WaitsOnThisLink

LEMMA AnswerInit ==
  ASSUME WsInit
  PROVE  AnswerInv
<1>1. IsQueue(<< >>)
  <2>1. << >> \in Seq({})
    OBVIOUS
  <2> QED BY <2>1 DEF IsQueue
<1>2. ClientShape /\ SsoShape /\ RequestShape
  BY DEF WsInit, ClientShape, SsoShape, RequestShape, States, Outcomes, Verdicts, NoFuture
<1>3. OutboxUndecided /\ InboxTrue
  BY <1>1 DEF WsInit, OutboxUndecided, InboxTrue
<1>4. sso.asked = {}
  BY DEF WsInit
<1>5. AskedUndecided /\ FuturesTrue /\ ~connected /\ WaitsOnThisLink
  BY <1>4 DEF WsInit, AskedUndecided, FuturesTrue, WaitsOnThisLink, NoFuture, Verdicts
<1> QED BY <1>2, <1>3, <1>5 DEF AnswerInv

-----------------------------------------------------------------------------
(* Steps that leave requests, queues and the SSO's list of them alone *)

LEMMA NoRequestTouched ==
  ASSUME AnswerInv, UNCHANGED <<authVars, outbox, inbox>>,
         ClientShape', SsoShape',
         sso'.asked \subseteq sso.asked,
         client'.link = client.link,
         connected' => WsUp',
         connected => connected'
  PROVE  AnswerInv'
<1>1. RequestShape' /\ OutboxUndecided' /\ AskedUndecided' /\ InboxTrue' /\ FuturesTrue'
  BY DEF AnswerInv, RequestShape, OutboxUndecided, AskedUndecided, InboxTrue, FuturesTrue,
         authVars, SsoShape
<1>2. WaitsOnThisLink'
  BY DEF AnswerInv, WaitsOnThisLink, authVars
<1> QED BY <1>1, <1>2 DEF AnswerInv

LEMMA UserStep ==
  ASSUME AnswerInv, User \/ TimerFires
  PROVE  AnswerInv'
<1>1. UNCHANGED <<loopVars, authVars, sendVars, ssoVars>>
  BY DEF User, BackendChosen, TokenEdited, RefreshClicked, TimerFires
<1>2. UNCHANGED <<client, connected, sso, inbox, outbox, authVars>>
  BY <1>1 DEF loopVars, sendVars, ssoVars
<1>3. ClientShape' /\ SsoShape' /\ (connected' => WsUp')
  BY <1>2 DEF AnswerInv, ClientShape, SsoShape, WsUp
<1> QED BY <1>2, <1>3, NoRequestTouched DEF SsoShape

LEMMA PhaseStep ==
  ASSUME AnswerInv, LoopTop \/ ParkedWakes \/ LinkFails \/ ReconnectSeen \/ BackoffEnds
  PROVE  AnswerInv'
<1>1. /\ UNCHANGED <<connected, sso, inbox, outbox, authVars>>
      /\ ClientShape' /\ client'.link = client.link
  BY DEF AnswerInv, ClientShape, LoopTop, ParkedWakes, LinkFails, ReconnectSeen, BackoffEnds,
         ssoVars, sendVars
<1>2. connected' => WsUp'
  BY DEF AnswerInv, ClientShape, WsUp, LoopTop, ParkedWakes, LinkFails, ReconnectSeen,
         BackoffEnds
<1>3. SsoShape'
  BY <1>1 DEF AnswerInv, SsoShape
<1> QED BY <1>1, <1>2, <1>3, NoRequestTouched

-----------------------------------------------------------------------------
(* The connection comes and goes *)

LEMMA ConnectsStep ==
  ASSUME AnswerInv, Connects
  PROVE  AnswerInv'
<1>1. /\ ClientShape' /\ SsoShape' /\ sso'.asked = sso.asked
      /\ UNCHANGED <<connected, inbox, outbox, authVars>>
  BY DEF AnswerInv, ClientShape, SsoShape, Connects, sendVars
<1>2. ~connected
  BY DEF AnswerInv, ClientShape, Connects, WsUp
<1>3. RequestShape' /\ OutboxUndecided' /\ AskedUndecided' /\ InboxTrue' /\ FuturesTrue'
  BY <1>1 DEF AnswerInv, RequestShape, OutboxUndecided, AskedUndecided, InboxTrue,
              FuturesTrue, authVars, SsoShape
<1>4. WaitsOnThisLink' /\ ~connected'
  BY <1>1, <1>2 DEF AnswerInv, WaitsOnThisLink, authVars
<1> QED BY <1>1, <1>3, <1>4 DEF AnswerInv

(* Every future of the table that is open is cancelled, and every request     *)
(* that waits is in the table: nobody waits across a connection.              *)
LEMMA FinallyStep ==
  ASSUME AnswerInv, Finally, UNCHANGED <<outcome, verdict, outbox>>,
         ClientShape', SsoShape', InboxTrue', sso'.asked \subseteq sso.asked
  PROVE  AnswerInv'
<1>1. \A r \in Requests :
        /\ future'[r] \in [state : States, link : Nat]
        /\ future'[r].state = IF r \in pending /\ future[r].state = "open"
                              THEN "cancelled" ELSE future[r].state
  BY DEF Finally, AnswerInv, RequestShape, States
<1>2. RequestShape'
  <2>1. pending' = {} /\ future' \in [Requests -> [state : States, link : Nat]]
    BY <1>1 DEF Finally
  <2> QED BY <2>1 DEF AnswerInv, RequestShape
<1>3. OutboxUndecided'
  BY DEF AnswerInv, OutboxUndecided
<1>4. AskedUndecided' /\ FuturesTrue'
  BY <1>1 DEF AnswerInv, AskedUndecided, FuturesTrue, SsoShape, Verdicts
<1>5. WaitsOnThisLink' /\ ~connected'
  BY <1>1 DEF AnswerInv, WaitsOnThisLink, Finally
<1> QED BY <1>2, <1>3, <1>4, <1>5 DEF AnswerInv

LEMMA ConnectFailsStep ==
  ASSUME AnswerInv, ConnectFails
  PROVE  AnswerInv'
<1>1. /\ Finally /\ UNCHANGED <<outcome, verdict, outbox, sso, inbox>>
      /\ ClientShape'
  BY DEF ConnectFails, AnswerInv, ClientShape, ssoVars
<1>2. SsoShape' /\ InboxTrue'
  BY <1>1 DEF AnswerInv, SsoShape, InboxTrue
<1> QED BY <1>1, <1>2, FinallyStep DEF SsoShape

LEMMA ClosesStep ==
  ASSUME AnswerInv, Closes
  PROVE  AnswerInv'
<1>1. /\ Finally /\ UNCHANGED <<outcome, verdict, outbox>>
      /\ ClientShape'
  BY DEF Closes, AnswerInv, ClientShape
<1>2. SsoShape' /\ sso'.asked = {}
  BY DEF Closes, AnswerInv, SsoShape
<1>3. InboxTrue'
  <2>1. inbox' = << >> /\ << >> \in Seq({})
    BY DEF Closes
  <2>2. IsQueue(inbox')
    BY <2>1 DEF IsQueue
  <2> QED BY <2>1, <2>2 DEF InboxTrue
<1> QED BY <1>1, <1>2, <1>3, FinallyStep

-----------------------------------------------------------------------------
(* Messages to the client *)

(* A push that is no answer, or is the answer just decided, keeps the inbox true. *)
LEMMA PushedTrue ==
  ASSUME InboxTrue, NEW msg, Push(msg),
         \A i \in 1 .. Len(inbox) : inbox[i].type = "login_auth_response" =>
           verdict'[inbox[i].id] = verdict[inbox[i].id],
         msg.type = "login_auth_response" =>
           /\ msg.id \in Requests /\ msg.verdict \in Verdicts
           /\ verdict'[msg.id] = msg.verdict
  PROVE  InboxTrue'
<1>1. /\ IsQueue(inbox') /\ Len(inbox) \in Nat /\ Len(inbox') = Len(inbox) + 1
      /\ \A i \in 1 .. Len(inbox) : inbox'[i] = inbox[i]
      /\ inbox'[Len(inbox) + 1] = msg
  BY AppendQueue DEF InboxTrue, Push
<1>2. ASSUME NEW i \in 1 .. Len(inbox'), inbox'[i].type = "login_auth_response"
      PROVE  /\ inbox'[i].id \in Requests
             /\ inbox'[i].verdict \in Verdicts
             /\ verdict'[inbox'[i].id] = inbox'[i].verdict
  <2>1. CASE i \in 1 .. Len(inbox)
    BY <1>1, <1>2, <2>1 DEF InboxTrue
  <2>2. CASE i = Len(inbox) + 1
    BY <1>1, <1>2, <2>2
  <2> QED BY <1>1, <2>1, <2>2
<1> QED BY <1>1, <1>2 DEF InboxTrue

(* Whatever is pushed, the requests see nothing of it yet. *)
LEMMA PushStep ==
  ASSUME AnswerInv, UNCHANGED <<authVars, outbox, client, connected>>,
         InboxTrue', SsoShape', sso'.asked \subseteq sso.asked
  PROVE  AnswerInv'
<1>1. RequestShape' /\ OutboxUndecided' /\ AskedUndecided' /\ FuturesTrue'
  BY DEF AnswerInv, RequestShape, OutboxUndecided, AskedUndecided, FuturesTrue,
         authVars, SsoShape
<1>2. WaitsOnThisLink' /\ ClientShape' /\ (connected' => WsUp')
  BY DEF AnswerInv, WaitsOnThisLink, authVars, ClientShape, WsUp
<1> QED BY <1>1, <1>2 DEF AnswerInv

LEMMA SsoAnswersAuthStep ==
  ASSUME AnswerInv, SsoAnswersAuth
  PROVE  AnswerInv'
<1>1. UNCHANGED <<authVars, outbox, client, connected>>
  BY DEF SsoAnswersAuth, loopVars, sendVars
<1>2. SsoShape' /\ sso'.asked = sso.asked
  BY DEF SsoAnswersAuth, AnswerInv, SsoShape
<1>3. InboxTrue'
  <2>1. \/ Push([type |-> "full_state", tree |-> sso.tree])
        \/ Push([type |-> "error"])
    BY DEF SsoAnswersAuth
  <2> QED BY <1>1, <2>1, PushedTrue DEF AnswerInv, authVars
<1> QED BY <1>1, <1>2, <1>3, PushStep

LEMMA SsoRevokesStep ==
  ASSUME AnswerInv, SsoRevokes
  PROVE  AnswerInv'
<1>1. UNCHANGED <<authVars, outbox, client, connected>>
  BY DEF SsoRevokes, loopVars, sendVars
<1>2. SsoShape' /\ sso'.asked = {}
  BY DEF SsoRevokes, AnswerInv, SsoShape
<1>3. InboxTrue'
  BY <1>1, PushedTrue DEF SsoRevokes, AnswerInv, authVars
<1> QED BY <1>1, <1>2, <1>3, PushStep

LEMMA SsoChangesStep ==
  ASSUME AnswerInv, NEW a \in Accounts, SsoChanges(a)
  PROVE  AnswerInv'
<1>1. UNCHANGED <<authVars, outbox, client, connected>>
  BY DEF SsoChanges, loopVars, sendVars
<1>2. /\ SsoShape' /\ sso'.asked = sso.asked
      /\ \/ UNCHANGED inbox
         \/ \E change : Push([type |-> "delta", change |-> change])
  <2> DEFINE old == sso.tree
             Told(change) == IF sso.auth = "live"
                             THEN Push([type |-> "delta", change |-> change])
                             ELSE UNCHANGED inbox
             Grown(e) == (a :> e) @@ old
             Cut == Without(old, {a})
  <2>1. /\ \/ \E t : sso' = [sso EXCEPT !.tree = t]
           \/ \E e : sso' = [sso EXCEPT !.tree[a] = e]
        /\ \E change : Told(change)
    <3>1. CASE \E e \in Entries : /\ sso' = [sso EXCEPT !.tree = Grown(e)]
                                 /\ Told([action |-> "add", account |-> a, data |-> e])
      <4> HIDE DEF Grown, Told
      <4> QED BY <3>1
    <3>2. CASE \E e \in Entries : /\ sso' = [sso EXCEPT !.tree[a] = e]
                                 /\ Told([action |-> "update", account |-> a,
                                          fields |-> Difference(old[a], e)])
      <4> HIDE DEF Told
      <4> QED BY <3>2
    <3>3. CASE /\ sso' = [sso EXCEPT !.tree = Cut]
               /\ Told([action |-> "remove", account |-> a])
      <4> HIDE DEF Cut, Told
      <4> QED BY <3>3
    <3> QED BY <3>1, <3>2, <3>3 DEF SsoChanges
  <2>2. \/ UNCHANGED inbox
        \/ \E change : Push([type |-> "delta", change |-> change])
    BY <2>1
  <2>3. SsoShape' /\ sso'.asked = sso.asked
    BY <2>1 DEF AnswerInv, SsoShape
  <2> QED BY <2>2, <2>3
<1>3. InboxTrue'
  <2>1. CASE UNCHANGED inbox
    BY <1>1, <2>1 DEF AnswerInv, InboxTrue, authVars
  <2>2. CASE \E change : Push([type |-> "delta", change |-> change])
    <3>1. PICK change : Push([type |-> "delta", change |-> change])
      BY <2>2
    <3> QED BY <1>1, <3>1, PushedTrue DEF AnswerInv, authVars
  <2> QED BY <1>2, <2>1, <2>2
<1> QED BY <1>1, <1>2, <1>3, PushStep

LEMMA TailTrue ==
  ASSUME InboxTrue, inbox # << >>, inbox' = Tail(inbox), UNCHANGED verdict
  PROVE  /\ InboxTrue'
         /\ LET msg == Head(inbox)
            IN  msg.type = "login_auth_response" =>
                  /\ msg.id \in Requests /\ msg.verdict \in Verdicts
                  /\ verdict[msg.id] = msg.verdict
<1>1. /\ IsQueue(Tail(inbox)) /\ Len(inbox) \in Nat \ {0}
      /\ Len(Tail(inbox)) = Len(inbox) - 1
      /\ \A i \in 1 .. Len(Tail(inbox)) : Tail(inbox)[i] = inbox[i + 1]
      /\ Head(inbox) = inbox[1]
  BY TailQueue DEF InboxTrue
<1>2. InboxTrue'
  <2>1. \A i \in 1 .. Len(inbox') : i + 1 \in 1 .. Len(inbox) /\ inbox'[i] = inbox[i + 1]
    BY <1>1
  <2> QED BY <1>1, <2>1 DEF InboxTrue
<1>3. 1 \in 1 .. Len(inbox)
  BY <1>1
<1> QED BY <1>1, <1>2, <1>3 DEF InboxTrue

(* An answer resolves the future it names, if that is still open. *)
LEMMA ReceiveStep ==
  ASSUME AnswerInv, Receive
  PROVE  AnswerInv'
<1> DEFINE msg == Head(inbox)
<1>1. /\ inbox # << >> /\ inbox' = Tail(inbox)
      /\ UNCHANGED <<pending, outcome, verdict, outbox, sso>>
  BY DEF Receive, sendVars
<1>2. /\ InboxTrue'
      /\ msg.type = "login_auth_response" =>
           /\ msg.id \in Requests /\ msg.verdict \in Verdicts
           /\ verdict[msg.id] = msg.verdict
  BY <1>1, TailTrue DEF AnswerInv
<1>3. /\ ClientShape' /\ client'.link = client.link /\ WsUp /\ WsUp'
      /\ connected => connected'
  <2>1. \/ connected' = TRUE /\ client' = [client EXCEPT !.delay = ReconnectMin]
        \/ UNCHANGED <<connected, client>>
        \/ /\ UNCHANGED connected
           /\ client' = [client EXCEPT !.phase = "closing", !.error = TRUE]
    BY DEF Receive
  <2>2. client.phase = "open" /\ ClientShape
    BY DEF Receive, AnswerInv
  <2>3. ASSUME client' = [client EXCEPT !.delay = ReconnectMin]
        PROVE  ClientShape' /\ client'.link = client.link /\ client'.phase = client.phase
    BY <2>2, <2>3 DEF ClientShape
  <2>4. ASSUME client' = [client EXCEPT !.phase = "closing", !.error = TRUE]
        PROVE  ClientShape' /\ client'.link = client.link /\ client'.phase = "closing"
    BY <2>2, <2>4 DEF ClientShape
  <2>5. ASSUME UNCHANGED client
        PROVE  ClientShape' /\ client'.link = client.link /\ client'.phase = client.phase
    BY <2>2, <2>5 DEF ClientShape
  <2>6. connected => connected'
    BY <2>1
  <2> QED BY <2>1, <2>2, <2>3, <2>4, <2>5, <2>6 DEF WsUp
<1>4. SsoShape' /\ OutboxUndecided'
  BY <1>1 DEF AnswerInv, SsoShape, OutboxUndecided
<1>5. \/ UNCHANGED future
      \/ /\ msg.type = "login_auth_response"
         /\ msg.id \in pending /\ future[msg.id].state = "open"
         /\ future' = [future EXCEPT ![msg.id].state = msg.verdict]
  <2> HIDE DEF msg
  <2>1. UNCHANGED future \/ (msg.type = "login_auth_response" /\ ResolveLoginAuthResponse(msg))
    BY DEF Receive, msg
  <2> QED BY <2>1 DEF ResolveLoginAuthResponse
<1>6. CASE UNCHANGED future
  <2>1. RequestShape' /\ AskedUndecided' /\ FuturesTrue'
    BY <1>1, <1>6 DEF AnswerInv, RequestShape, AskedUndecided, FuturesTrue
  <2>2. WaitsOnThisLink'
    BY <1>1, <1>3, <1>6 DEF AnswerInv, WaitsOnThisLink
  <2> QED BY <1>2, <1>3, <1>4, <2>1, <2>2 DEF AnswerInv
<1>7. CASE /\ msg.type = "login_auth_response"
           /\ msg.id \in pending /\ future[msg.id].state = "open"
           /\ future' = [future EXCEPT ![msg.id].state = msg.verdict]
  <2>1. /\ msg.id \in Requests /\ msg.verdict \in Verdicts
        /\ verdict[msg.id] = msg.verdict
    BY <1>2, <1>7
  <2>2. PICK r \in Requests, v \in Verdicts :
          /\ verdict[r] = v /\ future[r].state = "open"
          /\ future' = [future EXCEPT ![r].state = v]
    <3> HIDE DEF msg
    <3> QED BY <1>7, <2>1
  <2>3. /\ future' \in [Requests -> [state : States, link : Nat]]
        /\ future'[r].state = v
        /\ \A q \in Requests : q # r => future'[q] = future[q]
    BY <2>2 DEF AnswerInv, RequestShape, States
  <2>4. RequestShape'
    BY <1>1, <2>3 DEF AnswerInv, RequestShape
  <2>5. AskedUndecided' /\ FuturesTrue'
    BY <1>1, <2>2, <2>3 DEF AnswerInv, AskedUndecided, FuturesTrue, Verdicts
  <2>6. WaitsOnThisLink'
    BY <1>1, <1>3, <2>2, <2>3 DEF AnswerInv, WaitsOnThisLink, Verdicts
  <2> QED BY <1>2, <1>3, <1>4, <2>4, <2>5, <2>6 DEF AnswerInv
<1> QED BY <1>5, <1>6, <1>7

-----------------------------------------------------------------------------
(* The coroutines that send *)

LEMMA RequestAskedStep ==
  ASSUME AnswerInv, NEW r \in Requests, RequestAsked(r)
  PROVE  AnswerInv'
<1>1. /\ outcome[r] = "idle"
      /\ UNCHANGED <<client, connected, verdict, sso, inbox>>
  BY DEF RequestAsked, loopVars, ssoVars
<1>2. ClientShape' /\ SsoShape' /\ InboxTrue' /\ (connected' => WsUp')
  BY <1>1 DEF AnswerInv, ClientShape, SsoShape, InboxTrue, WsUp
<1>3. \A i \in 1 .. Len(outbox) : outbox[i].kind = "auth" => outbox[i].id # r
  BY <1>1 DEF AnswerInv, OutboxUndecided
<1>4. r \notin sso.asked /\ verdict[r] = "none"
  BY <1>1 DEF AnswerInv, AskedUndecided
<1>5. CASE outcome' = [outcome EXCEPT ![r] = "failed"] /\ UNCHANGED <<pending, future, outbox>>
  <2>1. RequestShape'
    BY <1>1, <1>5 DEF AnswerInv, RequestShape, Outcomes
  <2>2. OutboxUndecided'
    BY <1>1, <1>3, <1>5 DEF AnswerInv, RequestShape, OutboxUndecided
  <2>3. AskedUndecided' /\ FuturesTrue' /\ WaitsOnThisLink'
    BY <1>1, <1>5 DEF AnswerInv, RequestShape, SsoShape, AskedUndecided, FuturesTrue,
                      WaitsOnThisLink, WsUp
  <2> QED BY <1>2, <2>1, <2>2, <2>3 DEF AnswerInv
<1>6. CASE /\ WsUp /\ connected
           /\ outcome' = [outcome EXCEPT ![r] = "asked"]
           /\ pending' = pending \cup {r}
           /\ future' = [future EXCEPT ![r] = [state |-> "open", link |-> client.link]]
           /\ outbox' = Append(outbox, [kind |-> "auth", id |-> r, link |-> client.link])
  <2>1. /\ future'[r] = [state |-> "open", link |-> client.link]
        /\ \A q \in Requests : q # r => future'[q] = future[q] /\ outcome'[q] = outcome[q]
        /\ outcome'[r] = "asked"
    BY <1>6 DEF AnswerInv, RequestShape
  <2>2. RequestShape'
    BY <1>1, <1>6 DEF AnswerInv, RequestShape, Outcomes, States, ClientShape
  <2>3. OutboxUndecided'
    <3> DEFINE e == [kind |-> "auth", id |-> r, link |-> client.link]
    <3>1. /\ IsQueue(outbox') /\ Len(outbox) \in Nat /\ Len(outbox') = Len(outbox) + 1
          /\ \A i \in 1 .. Len(outbox) : outbox'[i] = outbox[i]
          /\ outbox'[Len(outbox) + 1] = e
      BY <1>6, AppendQueue DEF AnswerInv, OutboxUndecided
    <3>2. ASSUME NEW i \in 1 .. Len(outbox), outbox[i].kind = "auth"
          PROVE  /\ outbox[i].id \in Requests \ sso'.asked /\ outbox[i].id # r
                 /\ outcome'[outbox[i].id] = "asked" /\ verdict'[outbox[i].id] = "none"
      BY <1>1, <1>3, <2>1, <3>2 DEF AnswerInv, OutboxUndecided
    <3>3. e.kind = "auth" /\ e.id = r
      OBVIOUS
    <3> HIDE DEF e
    <3>4. \A i \in 1 .. Len(outbox') : outbox'[i].kind = "auth" =>
            /\ outbox'[i].id \in Requests \ sso'.asked
            /\ outcome'[outbox'[i].id] = "asked"
            /\ verdict'[outbox'[i].id] = "none"
      BY <1>1, <1>4, <2>1, <3>1, <3>2, <3>3
    <3>5. \A i, j \in 1 .. Len(outbox') :
            outbox'[i].kind = "auth" /\ outbox'[j].kind = "auth"
              /\ outbox'[i].id = outbox'[j].id => i = j
      <4> SUFFICES ASSUME NEW i \in 1 .. Len(outbox'), NEW j \in 1 .. Len(outbox'),
                          outbox'[i].kind = "auth", outbox'[j].kind = "auth",
                          outbox'[i].id = outbox'[j].id
                   PROVE  i = j
        OBVIOUS
      <4>1. i \in 1 .. Len(outbox) \/ i = Len(outbox) + 1
        BY <3>1
      <4>2. j \in 1 .. Len(outbox) \/ j = Len(outbox) + 1
        BY <3>1
      <4> QED BY <3>1, <3>2, <3>3, <4>1, <4>2 DEF AnswerInv, OutboxUndecided
    <3> QED BY <3>1, <3>4, <3>5 DEF OutboxUndecided
  <2>4. AskedUndecided' /\ FuturesTrue'
    BY <1>1, <1>4, <2>1 DEF AnswerInv, SsoShape, AskedUndecided, FuturesTrue, Verdicts
  <2>5. WaitsOnThisLink'
    BY <1>1, <1>2, <1>6, <2>1 DEF AnswerInv, WaitsOnThisLink, WsUp
  <2> QED BY <1>2, <2>2, <2>3, <2>4, <2>5 DEF AnswerInv
<1> QED BY <1>5, <1>6 DEF RequestAsked

LEMMA UpdateSentStep ==
  ASSUME AnswerInv, NEW f \in Updates, UpdateSent(f)
  PROVE  AnswerInv'
<1>1. /\ UNCHANGED <<client, connected, authVars, sso, inbox>>
      /\ \E e : e.kind # "auth" /\ outbox' = Append(outbox, e)
  <2>1. UNCHANGED <<client, connected, authVars, sso, inbox>>
    BY DEF UpdateSent, loopVars, ssoVars
  <2> DEFINE e(t) == [kind |-> "update", fields |-> f, tentative |-> t, link |-> client.link]
  <2>2. \E t : outbox' = Append(outbox, e(t))
    BY DEF UpdateSent
  <2>3. \A t : e(t).kind # "auth"
    OBVIOUS
  <2> HIDE DEF e
  <2> QED BY <2>1, <2>2, <2>3
<1>2. PICK e : e.kind # "auth" /\ outbox' = Append(outbox, e)
  BY <1>1
<1>3. OutboxUndecided'
  <2>1. /\ IsQueue(outbox') /\ Len(outbox) \in Nat /\ Len(outbox') = Len(outbox) + 1
        /\ \A i \in 1 .. Len(outbox) : outbox'[i] = outbox[i]
        /\ outbox'[Len(outbox) + 1] = e
    BY <1>2, AppendQueue DEF AnswerInv, OutboxUndecided
  <2>2. \A i \in 1 .. Len(outbox') : outbox'[i].kind = "auth" =>
          i \in 1 .. Len(outbox) /\ outbox'[i] = outbox[i]
    BY <1>2, <2>1
  <2> QED BY <1>1, <2>1, <2>2 DEF AnswerInv, OutboxUndecided, authVars
<1>4. RequestShape' /\ AskedUndecided' /\ InboxTrue' /\ FuturesTrue'
  BY <1>1 DEF AnswerInv, RequestShape, AskedUndecided, InboxTrue, FuturesTrue, authVars
<1>5. ClientShape' /\ SsoShape' /\ WaitsOnThisLink' /\ (connected' => WsUp')
  BY <1>1 DEF AnswerInv, ClientShape, SsoShape, WaitsOnThisLink, authVars, WsUp
<1> QED BY <1>3, <1>4, <1>5 DEF AnswerInv

(* The oldest message has left the outbox; the rest of it is undecided still. *)
LEMMA TailUndecided ==
  ASSUME OutboxUndecided, outbox # << >>, outbox' = Tail(outbox),
         \A r \in Requests :
           outcome[r] = "asked" /\ verdict[r] = "none" /\ r \notin sso.asked
             /\ ~(Head(outbox).kind = "auth" /\ Head(outbox).id = r)
           => outcome'[r] = "asked" /\ verdict'[r] = "none" /\ r \notin sso'.asked
  PROVE  /\ OutboxUndecided'
         /\ Head(outbox).kind = "auth" =>
              /\ Head(outbox).id \in Requests \ sso.asked
              /\ outcome[Head(outbox).id] = "asked"
              /\ verdict[Head(outbox).id] = "none"
<1>1. /\ IsQueue(outbox') /\ Len(outbox) \in Nat \ {0} /\ Len(outbox') = Len(outbox) - 1
      /\ \A i \in 1 .. Len(outbox') : outbox'[i] = outbox[i + 1]
      /\ Head(outbox) = outbox[1]
  BY TailQueue DEF OutboxUndecided
<1>2. 1 \in 1 .. Len(outbox) /\ \A i \in 1 .. Len(outbox') : i + 1 \in 1 .. Len(outbox)
  BY <1>1
<1>3. ASSUME NEW i \in 1 .. Len(outbox'), outbox'[i].kind = "auth"
      PROVE  /\ outbox'[i].id \in Requests \ sso'.asked
             /\ outcome'[outbox'[i].id] = "asked"
             /\ verdict'[outbox'[i].id] = "none"
  <2>1. /\ outbox[i + 1].kind = "auth" /\ outbox'[i] = outbox[i + 1]
        /\ ~(Head(outbox).kind = "auth" /\ Head(outbox).id = outbox[i + 1].id)
    <3>1. i + 1 # 1
      BY <1>1
    <3> QED BY <1>1, <1>2, <1>3, <3>1 DEF OutboxUndecided
  <2> QED BY <1>2, <2>1 DEF OutboxUndecided
<1>4. \A i, j \in 1 .. Len(outbox') :
        outbox'[i].kind = "auth" /\ outbox'[j].kind = "auth" /\ outbox'[i].id = outbox'[j].id
          => i = j
  <2> SUFFICES ASSUME NEW i \in 1 .. Len(outbox'), NEW j \in 1 .. Len(outbox'),
                      outbox'[i].kind = "auth", outbox'[j].kind = "auth",
                      outbox'[i].id = outbox'[j].id
               PROVE  i = j
    OBVIOUS
  <2>1. i + 1 = j + 1
    BY <1>1, <1>2 DEF OutboxUndecided
  <2> QED BY <1>1, <2>1
<1> QED BY <1>1, <1>2, <1>3, <1>4 DEF OutboxUndecided

LEMMA SendCompletesStep ==
  ASSUME AnswerInv, SendCompletes
  PROVE  AnswerInv'
<1> DEFINE head == Head(outbox)
<1>1. /\ outbox # << >> /\ outbox' = Tail(outbox)
      /\ UNCHANGED <<client, connected, authVars, inbox>>
  BY DEF SendCompletes, loopVars
<1>2. /\ SsoShape /\ OutboxUndecided
      /\ head.kind = "auth" => head.id \in Requests
  <2> HIDE DEF head
  <2>1. SsoShape /\ OutboxUndecided
    BY DEF AnswerInv
  <2>2. IsQueue(outbox) /\ head = outbox[1] /\ 1 \in 1 .. Len(outbox)
    BY <1>1, <2>1, TailQueue DEF OutboxUndecided, head
  <2> QED BY <2>1, <2>2 DEF OutboxUndecided
<1>3. /\ SsoShape'
      /\ \/ head.kind = "auth" /\ sso'.asked = sso.asked \cup {head.id}
         \/ head.kind = "update" /\ sso'.asked = sso.asked
  <2>1. \/ head.kind = "auth" /\ sso' = [sso EXCEPT !.asked = @ \cup {head.id}]
        \/ head.kind = "update" /\ \E l : sso' = [sso EXCEPT !.location = l]
    BY DEF SendCompletes
  <2> HIDE DEF head
  <2> QED BY <1>2, <2>1 DEF SsoShape
<1> HIDE DEF head
<1>4. /\ OutboxUndecided'
      /\ head.kind = "auth" => outcome[head.id] = "asked" /\ verdict[head.id] = "none"
  BY <1>1, <1>2, <1>3, TailUndecided DEF head, authVars
<1>5. AskedUndecided'
  BY <1>1, <1>3, <1>4 DEF AnswerInv, AskedUndecided, authVars
<1>6. RequestShape' /\ InboxTrue' /\ FuturesTrue' /\ ClientShape' /\ (connected' => WsUp')
      /\ WaitsOnThisLink'
  BY <1>1 DEF AnswerInv, RequestShape, InboxTrue, FuturesTrue, ClientShape, WsUp,
              WaitsOnThisLink, authVars
<1> QED BY <1>3, <1>4, <1>5, <1>6 DEF AnswerInv

(* A request that returns no longer waits; it is not being sent any more. *)
LEMMA ReturnStep ==
  ASSUME AnswerInv, NEW r \in Requests, NEW result \in Verdicts \cup {"failed"},
         Return(r, result), OutboxUndecided',
         UNCHANGED <<client, connected, sso, inbox>>
  PROVE  AnswerInv'
<1>1. /\ outcome' = [outcome EXCEPT ![r] = result]
      /\ pending' = pending \ {r} /\ UNCHANGED <<future, verdict>>
  BY DEF Return
<1>2. RequestShape'
  BY <1>1 DEF AnswerInv, RequestShape, Outcomes
<1>3. AskedUndecided' /\ FuturesTrue' /\ WaitsOnThisLink'
  BY <1>1 DEF AnswerInv, RequestShape, SsoShape, AskedUndecided, FuturesTrue,
              WaitsOnThisLink, Verdicts, WsUp
<1>4. InboxTrue' /\ ClientShape' /\ SsoShape' /\ (connected' => WsUp')
  BY <1>1 DEF AnswerInv, InboxTrue, ClientShape, SsoShape, WsUp
<1> QED BY <1>2, <1>3, <1>4 DEF AnswerInv

LEMMA SendFailsStep ==
  ASSUME AnswerInv, SendFails
  PROVE  AnswerInv'
<1> DEFINE head == Head(outbox)
<1>1. /\ outbox # << >> /\ outbox' = Tail(outbox)
      /\ UNCHANGED <<client, connected, sso, inbox>>
      /\ \/ head.kind = "auth" /\ Return(head.id, "failed")
         \/ UNCHANGED authVars
  BY DEF SendFails, loopVars, ssoVars
<1> HIDE DEF head
<1>2. OutboxUndecided /\ RequestShape
  BY DEF AnswerInv
<1>3. OutboxUndecided' /\ (head.kind = "auth" => head.id \in Requests)
  <2>1. \A r \in Requests :
          outcome[r] = "asked" /\ verdict[r] = "none" /\ r \notin sso.asked
            /\ ~(head.kind = "auth" /\ head.id = r)
          => outcome'[r] = "asked" /\ verdict'[r] = "none" /\ r \notin sso'.asked
    BY <1>1, <1>2 DEF Return, authVars, RequestShape
  <2> QED BY <1>1, <1>2, <2>1, TailUndecided DEF head
<1>4. CASE head.kind = "auth" /\ Return(head.id, "failed")
  BY <1>1, <1>3, <1>4, ReturnStep
<1>5. CASE UNCHANGED authVars
  <2>1. RequestShape' /\ AskedUndecided' /\ InboxTrue' /\ FuturesTrue' /\ WaitsOnThisLink'
    BY <1>1, <1>5 DEF AnswerInv, RequestShape, AskedUndecided, InboxTrue, FuturesTrue,
                      WaitsOnThisLink, WsUp, authVars
  <2>2. ClientShape' /\ SsoShape' /\ (connected' => WsUp')
    BY <1>1 DEF AnswerInv, ClientShape, SsoShape, WsUp
  <2> QED BY <1>3, <2>1, <2>2 DEF AnswerInv
<1> QED BY <1>1, <1>4, <1>5

(* What a request that waits returns: never the state of an open future. *)
LEMMA ReturnKeepsOutbox ==
  ASSUME AnswerInv, NEW r \in Requests, NEW result, Return(r, result), ~Sending(r),
         UNCHANGED <<outbox, sso>>
  PROVE  OutboxUndecided'
<1>1. \A i \in 1 .. Len(outbox) : outbox[i].kind = "auth" => outbox[i].id # r
  <2>1. DOMAIN outbox = 1 .. Len(outbox)
    BY DEF AnswerInv, OutboxUndecided, IsQueue
  <2> QED BY <2>1 DEF Sending
<1>2. \A q \in Requests : q # r => outcome'[q] = outcome[q]
  BY DEF AnswerInv, RequestShape, Return
<1> QED BY <1>1, <1>2 DEF AnswerInv, OutboxUndecided, Return

LEMMA ResumesResult ==
  ASSUME AnswerInv, NEW r \in Requests, RequestResumes(r)
  PROVE  \E result \in Verdicts \cup {"failed"} :
           /\ Return(r, result)
           /\ result # "failed" => verdict[r] = result
<1>1. /\ future[r].state \in {"cancelled"} \cup Verdicts
      /\ future[r].state \in Verdicts => verdict[r] = future[r].state
  BY DEF AnswerInv, RequestShape, AskedUndecided, FuturesTrue, RequestResumes, States
<1> QED BY <1>1 DEF RequestResumes, Verdicts

LEMMA RequestReturnsStep ==
  ASSUME AnswerInv, NEW r \in Requests, RequestResumes(r) \/ RequestTimesOut(r)
  PROVE  AnswerInv'
<1>1. /\ ~Sending(r)
      /\ UNCHANGED <<client, connected, sso, inbox, outbox>>
  BY DEF RequestResumes, RequestTimesOut, loopVars, sendVars, ssoVars
<1>2. PICK result \in Verdicts \cup {"failed"} : Return(r, result)
  BY ResumesResult DEF RequestTimesOut
<1> QED BY <1>1, <1>2, ReturnKeepsOutbox, ReturnStep

(* The SSO decides what it was asked and has not decided: no request that is  *)
(* being sent, and no answer under way.                                       *)
LEMMA SsoDecidesStep ==
  ASSUME AnswerInv, NEW r \in Requests, SsoDecides(r)
  PROVE  AnswerInv'
<1>1. /\ r \in sso.asked /\ SsoShape' /\ sso'.asked = sso.asked \ {r}
      /\ UNCHANGED <<client, connected, pending, future, outcome, outbox>>
  BY DEF SsoDecides, AnswerInv, SsoShape, loopVars, sendVars
<1>2. PICK v \in Verdicts :
        /\ verdict' = [verdict EXCEPT ![r] = v]
        /\ Push([type |-> "login_auth_response", id |-> r, verdict |-> v])
  BY DEF SsoDecides, Verdicts
<1>3. /\ verdict[r] = "none" /\ outcome[r] # "idle" /\ verdict'[r] = v
      /\ \A q \in Requests : q # r => verdict'[q] = verdict[q]
  BY <1>1, <1>2 DEF AnswerInv, AskedUndecided, RequestShape
<1>4. RequestShape'
  BY <1>1, <1>2 DEF AnswerInv, RequestShape
<1>5. OutboxUndecided'
  BY <1>1, <1>3 DEF AnswerInv, OutboxUndecided
<1>6. AskedUndecided' /\ FuturesTrue'
  BY <1>1, <1>3 DEF AnswerInv, AskedUndecided, FuturesTrue, SsoShape, Verdicts
<1>7. InboxTrue'
  <2> DEFINE m == [type |-> "login_auth_response", id |-> r, verdict |-> v]
  <2>1. m.id = r /\ m.verdict = v /\ Push(m)
    BY <1>2
  <2>2. \A i \in 1 .. Len(inbox) : inbox[i].type = "login_auth_response" =>
          verdict'[inbox[i].id] = verdict[inbox[i].id]
    BY <1>3 DEF AnswerInv, InboxTrue, Verdicts
  <2> HIDE DEF m
  <2> QED BY <1>1, <1>3, <2>1, <2>2, PushedTrue DEF AnswerInv, SsoShape
<1>8. ClientShape' /\ WaitsOnThisLink' /\ (connected' => WsUp')
  BY <1>1 DEF AnswerInv, ClientShape, WaitsOnThisLink, WsUp
<1> QED BY <1>1, <1>4, <1>5, <1>6, <1>7, <1>8 DEF AnswerInv

-----------------------------------------------------------------------------
(* Every step *)

LEMMA AnswerStep ==
  ASSUME AnswerInv, [WsNext]_wsVars
  PROVE  AnswerInv'
<1>1. CASE User \/ TimerFires
  BY <1>1, UserStep
<1>2. CASE Run
  BY <1>2, PhaseStep, ConnectsStep, ClosesStep, ReceiveStep DEF Run
<1>3. CASE Outside
  BY <1>3, ConnectFailsStep, PhaseStep, SsoRevokesStep, SsoChangesStep DEF Outside
<1>4. ASSUME NEW r \in Requests,
             RequestAsked(r) \/ RequestResumes(r) \/ RequestTimesOut(r) \/ SsoDecides(r)
      PROVE  AnswerInv'
  BY <1>4, RequestAskedStep, RequestReturnsStep, SsoDecidesStep
<1>5. CASE \E f \in Updates : UpdateSent(f)
  BY <1>5, UpdateSentStep
<1>6. CASE SendCompletes \/ SendFails \/ SsoAnswersAuth
  BY <1>6, SendCompletesStep, SendFailsStep, SsoAnswersAuthStep
<1>7. CASE UNCHANGED wsVars
  <2>1. UNCHANGED <<authVars, outbox, inbox, client, connected, sso>>
    BY <1>7 DEF wsVars, loopVars, sendVars, ssoVars
  <2>2. ClientShape' /\ SsoShape' /\ (connected' => WsUp')
    BY <2>1 DEF AnswerInv, ClientShape, SsoShape, WsUp
  <2> QED BY <2>1, <2>2, NoRequestTouched
<1> QED BY <1>1, <1>2, <1>3, <1>4, <1>5, <1>6, <1>7 DEF WsNext

LEMMA AnswersInvariant == WsSpec => []AnswerInv
<1>1. WsInit => AnswerInv
  BY AnswerInit
<1>2. AnswerInv /\ [WsNext]_wsVars => AnswerInv'
  BY AnswerStep
<1> QED BY <1>1, <1>2, PTL DEF WsSpec

(* A caller that waits can be answered: its request went over the connection  *)
(* that is up, which still knows it.  (_cancel_pending_auth)                  *)
THEOREM NobodyWaitsInVain == WsSpec => []WaitsOnThisLink
<1>1. AnswerInv => WaitsOnThisLink
  BY DEF AnswerInv
<1> QED BY <1>1, AnswersInvariant, PTL

-----------------------------------------------------------------------------
(* The promise *)

PromiseVars == <<verdict, outcome>>

LEMMA PromiseInit ==
  ASSUME WsInit
  PROVE  Promise!Init
BY DEF WsInit, Promise!Init

LEMMA PromiseStep ==
  ASSUME AnswerInv, [WsNext]_wsVars
  PROVE  [Promise!Next]_PromiseVars
<1>1. SUFFICES Promise!Next \/ UNCHANGED <<verdict, outcome>>
  BY DEF PromiseVars
<1>2. CASE \/ User \/ TimerFires \/ Run \/ Outside \/ SendCompletes \/ SsoAnswersAuth
           \/ UNCHANGED wsVars
  <2>1. UNCHANGED authVars \/ UNCHANGED <<outcome, verdict>>
    <3>1. CASE User \/ TimerFires
      BY <3>1 DEF User, BackendChosen, TokenEdited, RefreshClicked, TimerFires
    <3>2. CASE Run
      BY <3>2 DEF Run, LoopTop, ParkedWakes, Connects, ReconnectSeen, Closes, BackoffEnds,
                  Receive
    <3>3. CASE ConnectFails \/ LinkFails \/ SsoRevokes
      BY <3>3 DEF ConnectFails, LinkFails, SsoRevokes
    <3>4. CASE \E a \in Accounts : SsoChanges(a)
      <4>1. ASSUME NEW a \in Accounts, SsoChanges(a)
            PROVE  UNCHANGED authVars
        BY <4>1 DEF SsoChanges
      <4> QED BY <3>4, <4>1
    <3>5. CASE SendCompletes \/ SsoAnswersAuth \/ UNCHANGED wsVars
      BY <3>5 DEF SendCompletes, SsoAnswersAuth, wsVars
    <3> QED BY <1>2, <3>1, <3>2, <3>3, <3>4, <3>5 DEF Outside
  <2> QED BY <2>1 DEF authVars
<1>3. CASE \E f \in Updates : UpdateSent(f)
  <2>1. UNCHANGED authVars
    BY <1>3 DEF UpdateSent
  <2> QED BY <2>1 DEF authVars
<1>4. ASSUME NEW r \in Requests, RequestAsked(r)
      PROVE  Promise!Next
  <2>1. Promise!Ask(r) \/ Promise!Fail(r)
    BY <1>4 DEF RequestAsked, Promise!Ask, Promise!Fail
  <2> QED BY <2>1 DEF Promise!Next
<1>5. ASSUME NEW r \in Requests, RequestResumes(r)
      PROVE  Promise!Next
  <2>1. PICK result \in Verdicts \cup {"failed"} :
          Return(r, result) /\ (result # "failed" => verdict[r] = result)
    BY <1>5, ResumesResult
  <2>2. Promise!Fail(r) \/ Promise!Answer(r)
    BY <1>5, <2>1 DEF RequestResumes, Return, Promise!Fail, Promise!Answer,
                      Promise!Verdicts, Verdicts
  <2> QED BY <2>2 DEF Promise!Next
<1>6. ASSUME NEW r \in Requests, RequestTimesOut(r)
      PROVE  Promise!Next
  <2>1. Promise!Fail(r)
    BY <1>6 DEF RequestTimesOut, Return, Promise!Fail
  <2> QED BY <2>1 DEF Promise!Next
<1>7. ASSUME NEW r \in Requests, SsoDecides(r)
      PROVE  Promise!Next
  <2>1. outcome[r] # "idle" /\ verdict[r] = "none"
    BY <1>7 DEF AnswerInv, AskedUndecided, SsoDecides
  <2>2. Promise!Decide(r)
    BY <1>7, <2>1 DEF SsoDecides, Promise!Decide, Promise!Verdicts
  <2> QED BY <2>2 DEF Promise!Next
<1>8. CASE SendFails
  <2> DEFINE head == Head(outbox)
  <2>1. \/ head.kind = "auth" /\ Return(head.id, "failed")
        \/ UNCHANGED authVars
    BY <1>8 DEF SendFails
  <2>2. CASE head.kind = "auth" /\ Return(head.id, "failed")
    <3>1. IsQueue(outbox) /\ outbox # << >> /\ OutboxUndecided
      BY <1>8 DEF SendFails, AnswerInv, OutboxUndecided
    <3>2. head = outbox[1] /\ 1 \in 1 .. Len(outbox)
      BY <3>1, TailQueue
    <3> HIDE DEF head
    <3>3. head.id \in Requests /\ outcome[head.id] = "asked"
      BY <2>2, <3>1, <3>2 DEF OutboxUndecided
    <3>4. Promise!Fail(head.id)
      BY <2>2, <3>3 DEF Return, Promise!Fail
    <3> QED BY <3>3, <3>4 DEF Promise!Next
  <2>3. CASE UNCHANGED authVars
    BY <2>3 DEF authVars
  <2> QED BY <2>1, <2>2, <2>3
<1> QED BY <1>2, <1>3, <1>4, <1>5, <1>6, <1>7, <1>8 DEF WsNext

(* Every step of the client is a step of the promise or none: a request is    *)
(* asked once and ends once, with the SSO's verdict on it or with a failure,  *)
(* whatever happens to connections, answers and timeouts.                     *)
(* (request_login_auth, resolve_login_auth_response)                          *)
THEOREM AnswersAreVerdicts ==
  WsSpec => Promise!Init /\ [][Promise!Next]_PromiseVars
<1>1. WsInit => Promise!Init
  BY PromiseInit
<1>2. AnswerInv /\ [WsNext]_wsVars => [Promise!Next]_PromiseVars
  BY PromiseStep
<1> QED BY <1>1, <1>2, AnswersInvariant, PTL DEF WsSpec

-----------------------------------------------------------------------------
(* Types *)

Phases == {"top", "parked", "authParked", "dead", "connecting", "open", "closing", "backoff"}
Urls == {s.url : s \in Settings}
Keys == {NoKey} \cup {s.key : s \in Settings}

Clients == [phase : Phases, delay : ReconnectMin .. ReconnectMax, link : Nat, url : Urls,
            key : Keys, error : BOOLEAN, authFailed : BOOLEAN]


AccountTable(t) ==
  /\ DOMAIN t \subseteq Accounts
  /\ t = [a \in DOMAIN t |-> t[a]]
  /\ \A a \in DOMAIN t : AccountRecord(t[a])

-----------------------------------------------------------------------------
(* Tables and deltas *)

LEMMA BlankRecord == AccountRecord(BlankEntry)
BY DEF AccountRecord, BlankEntry

Differing(was, now) == {c \in DOMAIN now \cap DOMAIN was : now[c] # was[c]}

(* What is added and what is removed lead to the new names; what differs, to  *)
(* the new values.                                                            *)
LEMMA PatchedNames ==
  ASSUME NEW was, NEW now
  PROVE  Without([c \in DOMAIN now \ DOMAIN was |-> now[c]] @@ was, DOMAIN was \ DOMAIN now)
           = [c \in DOMAIN now |-> IF c \in DOMAIN was THEN was[c] ELSE now[c]]
BY DEF @@, Without

LEMMA PatchedValues ==
  ASSUME NEW was, NEW now
  PROVE  [c \in Differing(was, now) |-> now[c]]
             @@ [c \in DOMAIN now |-> IF c \in DOMAIN was THEN was[c] ELSE now[c]]
           = [c \in DOMAIN now |-> now[c]]
BY DEF @@, Differing

(* A record that is told of by its difference from another becomes that one. *)
LEMMA PatchIsExact ==
  ASSUME NEW old, AccountRecord(old), NEW new, AccountRecord(new)
  PROVE  Patched(old, Difference(old, new)) = new
<1> DEFINE fields == Difference(old, new)
           p == Patched(old, fields)
           was == old.characters
           now == new.characters
           told == fields.characters
<1>1. /\ fields.aliases = [add |-> new.aliases \ old.aliases, remove |-> old.aliases \ new.aliases]
      /\ fields.tags = [add |-> new.tags \ old.tags, remove |-> old.tags \ new.tags]
  BY DEF Difference
<1>2. p.aliases = new.aliases
  BY <1>1 DEF Patched
<1>3. p.tags = new.tags
  BY <1>1 DEF Patched
<1>4. /\ told.add = [c \in DOMAIN now \ DOMAIN was |-> now[c]]
      /\ told.remove = DOMAIN was \ DOMAIN now
      /\ told.update = [c \in Differing(was, now) |-> now[c]]
  BY DEF Difference, Differing
<1>5. p.characters = told.update @@ Without(told.add @@ was, told.remove)
  BY DEF Patched
<1>6. p.characters = [c \in DOMAIN now |-> now[c]]
  <2> DEFINE rest == [c \in DOMAIN now |-> IF c \in DOMAIN was THEN was[c] ELSE now[c]]
  <2>1. Without(told.add @@ was, told.remove) = rest
    <3> HIDE DEF told, was, now
    <3> QED BY <1>4, PatchedNames
  <2>2. told.update @@ rest = [c \in DOMAIN now |-> now[c]]
    <3> HIDE DEF told, was, now
    <3> QED BY <1>4, PatchedValues
  <2> HIDE DEF rest, told, was, now, p
  <2> QED BY <1>5, <2>1, <2>2
<1>7. p = [aliases |-> p.aliases, tags |-> p.tags, characters |-> p.characters]
  BY DEF Patched
<1> QED BY <1>2, <1>3, <1>6, <1>7 DEF AccountRecord

LEMMA TableChanges ==
  ASSUME NEW t, AccountTable(t), NEW a \in Accounts, NEW e, AccountRecord(e)
  PROVE  /\ AccountTable((a :> e) @@ t)
         /\ a \in DOMAIN t => (a :> e) @@ t = [t EXCEPT ![a] = e]
         /\ a \in DOMAIN t => AccountTable([t EXCEPT ![a] = e])
<1>1. AccountTable((a :> e) @@ t)
  BY DEF AccountTable, @@, :>
<1>2. ASSUME a \in DOMAIN t
      PROVE  (a :> e) @@ t = [t EXCEPT ![a] = e]
  BY <1>2 DEF AccountTable, @@, :>
<1>3. ASSUME a \in DOMAIN t
      PROVE  AccountTable([t EXCEPT ![a] = e])
  BY <1>3 DEF AccountTable
<1> QED BY <1>1, <1>2, <1>3

LEMMA WithoutTable ==
  ASSUME NEW t, AccountTable(t), NEW keys
  PROVE  AccountTable(Without(t, keys))
BY DEF AccountTable, Without

(* The update that tells of a new record leads to the table that holds it. *)
LEMMA UpdateIsExact ==
  ASSUME NEW t, AccountTable(t), NEW a \in DOMAIN t, NEW e, AccountRecord(e)
  PROVE  ApplyChange(t, [action |-> "update", account |-> a, fields |-> Difference(t[a], e)])
           = [t EXCEPT ![a] = e]
<1>1. Patched(t[a], Difference(t[a], e)) = e
  BY PatchIsExact DEF AccountTable
<1> DEFINE d == Difference(t[a], e)
<1>2. ApplyChange(t, [action |-> "update", account |-> a, fields |-> d]) = (a :> Patched(t[a], d)) @@ t
  <2> HIDE DEF d
  <2> QED BY DEF ApplyChange
<1>3. (a :> e) @@ t = [t EXCEPT ![a] = e]
  BY DEF AccountTable, @@, :>
<1> QED BY <1>1, <1>2, <1>3

LEMMA ChangeDomain ==
  ASSUME NEW t, DOMAIN t \subseteq Accounts,
         NEW change, change.account \in Accounts, change.action \in {"add", "remove", "update"}
  PROVE  DOMAIN ApplyChange(t, change) \subseteq Accounts
<1>1. CASE change.action = "add"
  BY <1>1 DEF ApplyChange, @@, :>
<1>2. CASE change.action = "remove"
  BY <1>2 DEF ApplyChange, Without
<1>3. CASE change.action = "update"
  <2>1. PICK p : ApplyChange(t, change) = (change.account :> p) @@ t
    BY <1>3 DEF ApplyChange
  <2> QED BY <2>1 DEF @@, :>
<1> QED BY <1>1, <1>2, <1>3

-----------------------------------------------------------------------------
(* Types *)

TypeInv ==
  /\ setting \in Settings /\ tls \in TlsSettings
  /\ uiTimer \in BOOLEAN /\ reconnect \in BOOLEAN /\ connected \in BOOLEAN
  /\ overlapped \in BOOLEAN
  /\ client \in Clients
  /\ events \in 0 .. MaxEvents

LEMMA TypeInit == WsInit => TypeInv
<1> SUFFICES ASSUME WsInit PROVE TypeInv
  OBVIOUS
<1>1. 0 \in 0 .. MaxEvents /\ ReconnectMin \in ReconnectMin .. ReconnectMax
  BY WsAssumption
<1>2. setting.url \in Urls /\ NoKey \in Keys /\ "top" \in Phases
  BY DEF WsInit, Urls, Keys, Phases
<1> QED BY <1>1, <1>2 DEF WsInit, TypeInv, Clients

(* The delay stays between its bounds: doubling stops at RECONNECT_MAX. *)
LEMMA ClientTypes ==
  ASSUME TypeInv, Run \/ ConnectFails \/ LinkFails
  PROVE  client' \in Clients
<1>1. client \in Clients /\ setting.url \in Urls /\ setting.key \in Keys
  BY DEF TypeInv, Urls, Keys
<1>2. ReconnectMin \in ReconnectMin .. ReconnectMax
  BY WsAssumption
<1>3. CASE LoopTop
  BY <1>1, <1>3 DEF LoopTop, Clients, Phases
<1>4. CASE ParkedWakes
  BY <1>1, <1>2, <1>4 DEF ParkedWakes, Clients, Phases
<1>5. CASE Connects
  <2>1. client' = [client EXCEPT !.phase = "open", !.link = @ + 1, !.key = setting.key]
    BY <1>5 DEF Connects
  <2>2. client.link + 1 \in Nat
    BY <1>1 DEF Clients
  <2> QED BY <1>1, <2>1, <2>2 DEF Clients, Phases
<1>6. CASE ReconnectSeen \/ LinkFails \/ ConnectFails
  BY <1>1, <1>6 DEF ReconnectSeen, LinkFails, ConnectFails, Clients, Phases
<1>7. CASE Closes
  BY <1>1, <1>7 DEF Closes, Clients, Phases
<1>8. CASE BackoffEnds
  <2>1. (IF 2 * client.delay > ReconnectMax THEN ReconnectMax ELSE 2 * client.delay)
          \in ReconnectMin .. ReconnectMax
    BY <1>1, WsAssumption DEF Clients
  <2> QED BY <1>1, <1>8, <2>1 DEF BackoffEnds, Clients, Phases
<1>9. CASE Receive
  BY <1>1, <1>2, <1>9 DEF Receive, Clients, Phases
<1> QED BY <1>3, <1>4, <1>5, <1>6, <1>7, <1>8, <1>9 DEF Run

LEMMA TypeStep ==
  ASSUME TypeInv, [WsNext]_wsVars
  PROVE  TypeInv'
<1>0. MaxEvents \in Nat
  BY WsAssumption
<1>1. CASE User \/ TimerFires
  <2>1. UNCHANGED <<tls, client, connected, overlapped>>
    BY <1>1 DEF User, BackendChosen, TokenEdited, RefreshClicked, TimerFires, loopVars, sendVars
  <2>2. setting' \in Settings
    BY <1>1 DEF User, BackendChosen, TokenEdited, RefreshClicked, TimerFires, TypeInv
  <2>3. uiTimer' \in BOOLEAN /\ reconnect' \in BOOLEAN
    BY <1>1 DEF User, BackendChosen, TokenEdited, RefreshClicked, TimerFires, TypeInv
  <2>4. UNCHANGED events \/ Event
    BY <1>1 DEF User, BackendChosen, TokenEdited, RefreshClicked, TimerFires
  <2> QED BY <1>0, <2>1, <2>2, <2>3, <2>4 DEF Event, TypeInv
<1>2. CASE Run
  <2>1. client' \in Clients
    BY <1>2, ClientTypes
  <2>2. UNCHANGED <<setting, tls, uiTimer, events>> /\ reconnect' \in BOOLEAN
    BY <1>2 DEF Run, LoopTop, ParkedWakes, Connects, ReconnectSeen, Closes, BackoffEnds,
                Receive, Finally, userVars, TypeInv
  <2>3. connected' \in BOOLEAN /\ overlapped' \in BOOLEAN
    BY <1>2 DEF Run, LoopTop, ParkedWakes, Connects, ReconnectSeen, Closes, BackoffEnds,
                Receive, Finally, sendVars, TypeInv
  <2> QED BY <2>1, <2>2, <2>3 DEF TypeInv
<1>3. CASE Outside
  <2>1. CASE ConnectFails \/ LinkFails
    <3>1. client' \in Clients
      BY <2>1, ClientTypes
    <3>2. Event /\ UNCHANGED <<setting, tls, uiTimer, reconnect>>
      BY <2>1 DEF ConnectFails, LinkFails, Finally, loopVars, userVars
    <3>3. connected' \in BOOLEAN /\ overlapped' \in BOOLEAN
      BY <2>1 DEF ConnectFails, LinkFails, Finally, TypeInv, sendVars
    <3> QED BY <1>0, <3>1, <3>2, <3>3 DEF Event, TypeInv
  <2>2. CASE SsoRevokes
    BY <1>0, <2>2 DEF SsoRevokes, Event, TypeInv, loopVars, userVars, sendVars
  <2>3. ASSUME NEW a \in Accounts, SsoChanges(a)
        PROVE  TypeInv'
    <3>1. Event /\ UNCHANGED <<loopVars, sendVars, userVars>>
      BY <2>3 DEF SsoChanges
    <3> QED BY <1>0, <3>1 DEF Event, TypeInv, loopVars, userVars, sendVars
  <2> QED BY <1>3, <2>1, <2>2, <2>3 DEF Outside
<1>4. ASSUME NEW r \in Requests,
             RequestAsked(r) \/ RequestResumes(r) \/ RequestTimesOut(r) \/ SsoDecides(r)
      PROVE  TypeInv'
  BY <1>0, <1>4 DEF RequestAsked, RequestResumes, RequestTimesOut, SsoDecides, Event, TypeInv,
                    loopVars, userVars, sendVars
<1>5. ASSUME NEW f \in Updates, UpdateSent(f)
      PROVE  TypeInv'
  <2>1. Event /\ UNCHANGED <<loopVars, userVars>>
    BY <1>5 DEF UpdateSent
  <2>2. overlapped' \in BOOLEAN
    <3>1. overlapped' = (overlapped \/ \E i \in DOMAIN outbox : outbox[i].kind = "update")
      BY <1>5 DEF UpdateSent
    <3> QED BY <3>1
  <2> QED BY <1>0, <2>1, <2>2 DEF Event, TypeInv, loopVars, userVars
<1>6. CASE SendCompletes \/ SendFails \/ SsoAnswersAuth \/ UNCHANGED wsVars
  BY <1>6 DEF SendCompletes, SendFails, SsoAnswersAuth, wsVars, TypeInv, loopVars, userVars, sendVars
<1> QED BY <1>1, <1>2, <1>3, <1>4, <1>5, <1>6 DEF WsNext

-----------------------------------------------------------------------------
(* The connection and what belongs to it *)

(* What is sent on the connection that is up was begun after its first full   *)
(* state; without a connection the SSO has nothing to do with this client.    *)
LinkInv ==
  /\ \A i \in 1 .. Len(outbox) :
       /\ outbox[i].link \in Nat /\ outbox[i].link <= client.link
       /\ WsUp /\ outbox[i].link = client.link => connected
  /\ sso.asked # {} => connected
  /\ sso.auth \in {"none", "due", "live", "refused"}
  /\ WsUp <=> sso.auth # "none"
  /\ sso.auth \in {"none", "due"} => ~connected /\ inbox = << >>

LEMMA LinkInit == WsInit => LinkInv
BY DEF WsInit, LinkInv, WsUp

LEMMA LinkSame ==
  ASSUME LinkInv, UNCHANGED <<client, connected, outbox, inbox>>,
         sso'.auth = sso.auth, sso'.asked \subseteq sso.asked
  PROVE  LinkInv'
BY DEF LinkInv, WsUp

LEMMA LinkPhase ==
  ASSUME AnswerInv, TypeInv, LinkInv,
         LoopTop \/ ParkedWakes \/ LinkFails \/ ReconnectSeen \/ BackoffEnds
  PROVE  LinkInv'
<1>1. UNCHANGED <<connected, outbox, inbox, sso>>
  BY DEF LoopTop, ParkedWakes, LinkFails, ReconnectSeen, BackoffEnds, ssoVars, sendVars
<1>2. client'.link = client.link /\ (WsUp <=> WsUp')
  BY DEF TypeInv, Clients, WsUp, LoopTop, ParkedWakes, LinkFails, ReconnectSeen, BackoffEnds
<1> QED BY <1>1, <1>2 DEF LinkInv

LEMMA LinkConnects ==
  ASSUME AnswerInv, TypeInv, LinkInv, Connects
  PROVE  LinkInv'
<1>1. UNCHANGED <<connected, outbox, inbox>>
  BY DEF Connects, sendVars
<1>2. client'.link = client.link + 1 /\ client.link \in Nat /\ ~WsUp /\ WsUp'
  BY DEF Connects, TypeInv, Clients, WsUp
<1>3. sso'.auth = "due" /\ sso'.asked = sso.asked
  BY DEF Connects, AnswerInv, SsoShape
<1> QED BY <1>1, <1>2, <1>3 DEF LinkInv

LEMMA LinkEnds ==
  ASSUME AnswerInv, TypeInv, LinkInv, ConnectFails \/ Closes
  PROVE  LinkInv'
<1>1. ~connected' /\ UNCHANGED outbox
  BY DEF ConnectFails, Closes, Finally
<1>2. client'.link = client.link /\ ~WsUp'
  <2>1. client \in Clients
    BY DEF TypeInv
  <2>2. CASE ConnectFails
    BY <2>1, <2>2 DEF ConnectFails, Clients, WsUp
  <2>3. CASE Closes
    <3>1. client'.link = client.link /\ client'.phase \in {"authParked", "backoff"}
      BY <2>1, <2>3 DEF Closes, Clients
    <3> QED BY <3>1 DEF WsUp
  <2> QED BY <2>2, <2>3
<1>3. sso'.auth = "none" /\ sso'.asked = {} /\ inbox' = << >>
  <2>1. CASE ConnectFails
    <3>1. ~WsUp /\ UNCHANGED <<sso, inbox>>
      BY <2>1 DEF ConnectFails, WsUp, ssoVars
    <3> QED BY <3>1 DEF LinkInv
  <2>2. CASE Closes
    BY <2>2 DEF Closes, AnswerInv, SsoShape
  <2> QED BY <2>1, <2>2
<1> QED BY <1>1, <1>2, <1>3 DEF LinkInv

LEMMA LinkReceive ==
  ASSUME AnswerInv, TypeInv, LinkInv, Receive
  PROVE  LinkInv'
<1>1. inbox # << >> /\ UNCHANGED <<outbox, sso>>
  BY DEF Receive, sendVars
<1>2. client'.link = client.link /\ WsUp /\ WsUp'
  BY DEF Receive, TypeInv, Clients, WsUp
<1>3. connected => connected'
  BY DEF Receive
<1>4. sso.auth \notin {"none", "due"}
  BY <1>1 DEF LinkInv
<1> QED BY <1>1, <1>2, <1>3, <1>4 DEF LinkInv

LEMMA LinkSends ==
  ASSUME AnswerInv, TypeInv, LinkInv, NEW e, e.link = client.link, connected,
         outbox' = Append(outbox, e), UNCHANGED <<client, connected, inbox, sso>>
  PROVE  LinkInv'
<1>1. /\ Len(outbox) \in Nat /\ Len(outbox') = Len(outbox) + 1
      /\ \A i \in 1 .. Len(outbox) : outbox'[i] = outbox[i]
      /\ outbox'[Len(outbox) + 1] = e
  BY AppendQueue DEF AnswerInv, OutboxUndecided
<1>2. ASSUME NEW i \in 1 .. Len(outbox')
      PROVE  /\ outbox'[i].link \in Nat /\ outbox'[i].link <= client.link
             /\ WsUp /\ outbox'[i].link = client.link => connected
  <2>1. CASE i \in 1 .. Len(outbox)
    BY <1>1, <2>1 DEF LinkInv
  <2>2. CASE i = Len(outbox) + 1
    BY <1>1, <2>2 DEF TypeInv, Clients
  <2> QED BY <1>1, <2>1, <2>2
<1> QED BY <1>2 DEF LinkInv, WsUp

LEMMA OutboxTail ==
  ASSUME AnswerInv, outbox # << >>, outbox' = Tail(outbox)
  PROVE  /\ Len(outbox) \in Nat \ {0} /\ Len(outbox') = Len(outbox) - 1
         /\ \A i \in 1 .. Len(outbox') : i + 1 \in 1 .. Len(outbox) /\ outbox'[i] = outbox[i + 1]
         /\ 1 \in 1 .. Len(outbox) /\ Head(outbox) = outbox[1]
<1>1. /\ Len(outbox) \in Nat \ {0} /\ Len(Tail(outbox)) = Len(outbox) - 1
      /\ \A i \in 1 .. Len(Tail(outbox)) : Tail(outbox)[i] = outbox[i + 1]
      /\ Head(outbox) = outbox[1]
  BY TailQueue DEF AnswerInv, OutboxUndecided
<1> QED BY <1>1

LEMMA InboxTail ==
  ASSUME AnswerInv, inbox # << >>, inbox' = Tail(inbox)
  PROVE  /\ Len(inbox) \in Nat \ {0} /\ Len(inbox') = Len(inbox) - 1
         /\ \A i \in 1 .. Len(inbox') : i + 1 \in 1 .. Len(inbox) /\ inbox'[i] = inbox[i + 1]
         /\ 1 \in 1 .. Len(inbox) /\ Head(inbox) = inbox[1]
<1>1. /\ Len(inbox) \in Nat \ {0} /\ Len(Tail(inbox)) = Len(inbox) - 1
      /\ \A i \in 1 .. Len(Tail(inbox)) : Tail(inbox)[i] = inbox[i + 1]
      /\ Head(inbox) = inbox[1]
  BY TailQueue DEF AnswerInv, InboxTrue
<1> QED BY <1>1

LEMMA LinkSent ==
  ASSUME AnswerInv, TypeInv, LinkInv, SendCompletes \/ SendFails
  PROVE  LinkInv'
<1> DEFINE head == Head(outbox)
<1>1. /\ outbox # << >> /\ outbox' = Tail(outbox)
      /\ UNCHANGED <<client, connected, inbox>>
  BY DEF SendCompletes, SendFails, loopVars, ssoVars
<1>2. /\ Len(outbox) \in Nat \ {0} /\ Len(outbox') = Len(outbox) - 1
      /\ \A i \in 1 .. Len(outbox') : i + 1 \in 1 .. Len(outbox) /\ outbox'[i] = outbox[i + 1]
      /\ 1 \in 1 .. Len(outbox) /\ Head(outbox) = outbox[1]
  BY <1>1, OutboxTail
<1>3. sso'.auth = sso.auth /\ (sso'.asked \subseteq sso.asked \/ connected)
  <2>1. CASE SendCompletes
    <3>1. /\ Alive(head)
          /\ \/ sso' = [sso EXCEPT !.asked = @ \cup {head.id}]
             \/ \E l : sso' = [sso EXCEPT !.location = l]
      BY <2>1 DEF SendCompletes
    <3>2. connected
      BY <1>2, <3>1 DEF Alive, LinkInv, WsUp
    <3>3. sso'.auth = sso.auth
      <4> HIDE DEF head
      <4> QED BY <3>1 DEF AnswerInv, SsoShape
    <3> QED BY <3>2, <3>3
  <2>2. CASE SendFails
    BY <2>2 DEF SendFails, ssoVars
  <2> QED BY <2>1, <2>2
<1> QED BY <1>1, <1>2, <1>3 DEF LinkInv, WsUp

LEMMA LinkPushed ==
  ASSUME AnswerInv, TypeInv, LinkInv,
         SsoAnswersAuth \/ SsoRevokes \/ \E r \in Requests : SsoDecides(r)
  PROVE  LinkInv'
<1>1. UNCHANGED <<client, connected, outbox>>
  BY DEF SsoAnswersAuth, SsoRevokes, SsoDecides, loopVars, sendVars
<1>2. CASE SsoAnswersAuth
  <2>1. sso.auth = "due" /\ sso'.auth \in {"live", "refused"} /\ sso'.asked = sso.asked
    BY <1>2 DEF SsoAnswersAuth, AnswerInv, SsoShape
  <2> QED BY <1>1, <2>1 DEF LinkInv, WsUp
<1>3. CASE SsoRevokes
  <2>1. sso.auth = "live" /\ sso'.auth = "refused" /\ sso'.asked = {}
    BY <1>3 DEF SsoRevokes, AnswerInv, SsoShape
  <2> QED BY <1>1, <2>1 DEF LinkInv, WsUp
<1>4. ASSUME NEW r \in Requests, SsoDecides(r)
      PROVE  LinkInv'
  <2>1. r \in sso.asked /\ sso'.asked = sso.asked \ {r} /\ sso'.auth = sso.auth
    BY <1>4 DEF SsoDecides, AnswerInv, SsoShape
  <2> QED BY <1>1, <2>1 DEF LinkInv, WsUp
<1> QED BY <1>2, <1>3, <1>4

-----------------------------------------------------------------------------
(* The SSO's list changes, and the change is told exactly *)

LEMMA ChangeEffect ==
  ASSUME AnswerInv, AccountTable(sso.tree), NEW a \in Accounts, SsoChanges(a)
  PROVE  /\ UNCHANGED <<client, connected, cache, outbox, lastSent, overlapped>>
         /\ sso'.auth = sso.auth /\ sso'.asked = sso.asked /\ sso'.location = sso.location
         /\ AccountTable(sso'.tree)
         /\ \/ sso.auth # "live" /\ UNCHANGED inbox
            \/ /\ sso.auth = "live"
               /\ \E change : /\ Push([type |-> "delta", change |-> change])
                              /\ change.account \in Accounts
                              /\ change.action \in {"add", "remove", "update"}
                              /\ sso'.tree = ApplyChange(sso.tree, change)
<1> DEFINE old == sso.tree
           Told(change) == IF sso.auth = "live"
                           THEN Push([type |-> "delta", change |-> change])
                           ELSE UNCHANGED inbox
           Effect == /\ sso'.auth = sso.auth /\ sso'.asked = sso.asked
                     /\ sso'.location = sso.location
                     /\ AccountTable(sso'.tree)
                     /\ \E change : /\ Told(change)
                                    /\ change.account \in Accounts
                                    /\ change.action \in {"add", "remove", "update"}
                                    /\ sso'.tree = ApplyChange(old, change)
<1>1. UNCHANGED <<client, connected, cache, outbox, lastSent, overlapped>>
  BY DEF SsoChanges, loopVars, sendVars
<1>2. \A t : sso' = [sso EXCEPT !.tree = t] =>
        /\ sso'.auth = sso.auth /\ sso'.asked = sso.asked /\ sso'.location = sso.location
        /\ sso'.tree = t
  BY DEF AnswerInv, SsoShape
<1>3. ASSUME NEW e \in Entries, a \notin DOMAIN old,
             sso' = [sso EXCEPT !.tree = (a :> e) @@ old],
             Told([action |-> "add", account |-> a, data |-> e])
      PROVE  Effect
  <2> DEFINE change == [action |-> "add", account |-> a, data |-> e]
             t == (a :> e) @@ old
  <2>1. AccountTable(t)
    BY EntriesAssumption, TableChanges
  <2>2. ApplyChange(old, change) = t
    BY DEF ApplyChange
  <2>3. change.account = a /\ change.action = "add" /\ Told(change) /\ sso' = [sso EXCEPT !.tree = t]
    BY <1>3
  <2> HIDE DEF change, t, Told
  <2> QED BY <1>2, <2>1, <2>2, <2>3
<1>4. ASSUME NEW e \in Entries, a \in DOMAIN old,
             sso' = [sso EXCEPT !.tree[a] = e],
             Told([action |-> "update", account |-> a, fields |-> Difference(old[a], e)])
      PROVE  Effect
  <2> DEFINE change == [action |-> "update", account |-> a, fields |-> Difference(old[a], e)]
             t == [old EXCEPT ![a] = e]
  <2>1. AccountTable(t) /\ AccountRecord(e)
    BY <1>4, EntriesAssumption, TableChanges
  <2>2. ApplyChange(old, change) = t
    BY <1>4, <2>1, UpdateIsExact
  <2>3. sso' = [sso EXCEPT !.tree = t]
    BY <1>4
  <2>4. change.account = a /\ change.action = "update" /\ Told(change)
    BY <1>4
  <2> HIDE DEF change, t, Told
  <2> QED BY <1>2, <2>1, <2>2, <2>3, <2>4
<1>5. ASSUME a \in DOMAIN old,
             sso' = [sso EXCEPT !.tree = Without(old, {a})],
             Told([action |-> "remove", account |-> a])
      PROVE  Effect
  <2> DEFINE change == [action |-> "remove", account |-> a]
             t == Without(old, {a})
  <2>1. AccountTable(t)
    BY WithoutTable
  <2>2. ApplyChange(old, change) = t
    BY DEF ApplyChange
  <2>3. change.account = a /\ change.action = "remove" /\ Told(change) /\ sso' = [sso EXCEPT !.tree = t]
    BY <1>5
  <2> HIDE DEF change, t, Told
  <2> QED BY <1>2, <2>1, <2>2, <2>3
<1>6. Effect
  <2> HIDE DEF Effect
  <2> QED BY <1>3, <1>4, <1>5 DEF SsoChanges
<1> QED BY <1>1, <1>6

LEMMA LinkChanges ==
  ASSUME AnswerInv, LinkInv, AccountTable(sso.tree), NEW a \in Accounts, SsoChanges(a)
  PROVE  LinkInv'
<1>1. /\ UNCHANGED <<client, connected, outbox>>
      /\ sso'.auth = sso.auth /\ sso'.asked = sso.asked
      /\ sso.auth # "live" => UNCHANGED inbox
  BY ChangeEffect
<1> QED BY <1>1 DEF LinkInv, WsUp

-----------------------------------------------------------------------------
(* What is under way leads from the cache to the SSO's list *)

Leads(msg, old, new) ==
  CASE msg.type = "full_state" -> new = msg.tree
    [] msg.type = "delta"      -> new = ApplyChange(old, msg.change)
    [] OTHER                   -> new = old

(* The trees the cache goes through while it applies these messages. *)
Feed(msgs, from, to) ==
  \E trees :
    /\ IsQueue(trees) /\ Len(trees) = Len(msgs) + 1
    /\ trees[1] = from /\ trees[Len(msgs) + 1] = to
    /\ \A i \in 1 .. Len(msgs) : Leads(msgs[i], trees[i], trees[i + 1])

LEMMA FeedEmpty ==
  ASSUME NEW from, NEW to
  PROVE  Feed(<< >>, from, to) <=> from = to
<1>1. Len(<< >>) = 0
  OBVIOUS
<1>2. ASSUME from = to PROVE Feed(<< >>, from, to)
  <2>1. <<from>> \in Seq({from})
    OBVIOUS
  <2>2. IsQueue(<<from>>) /\ Len(<<from>>) = 1 /\ <<from>>[1] = from
    BY <2>1 DEF IsQueue
  <2> QED BY <1>1, <1>2, <2>2 DEF Feed
<1>3. ASSUME Feed(<< >>, from, to) PROVE from = to
  BY <1>1, <1>3 DEF Feed
<1> QED BY <1>2, <1>3

LEMMA FeedGrows ==
  ASSUME NEW msgs, IsQueue(msgs), NEW from, NEW to, Feed(msgs, from, to),
         NEW msg, NEW new, Leads(msg, to, new)
  PROVE  Feed(Append(msgs, msg), from, new)
<1>1. PICK trees :
        /\ IsQueue(trees) /\ Len(trees) = Len(msgs) + 1
        /\ trees[1] = from /\ trees[Len(msgs) + 1] = to
        /\ \A i \in 1 .. Len(msgs) : Leads(msgs[i], trees[i], trees[i + 1])
  BY DEF Feed
<1>2. PICK n, more, longer :
        /\ n \in Nat /\ n = Len(msgs) /\ more = Append(msgs, msg) /\ longer = Append(trees, new)
  BY AppendQueue
<1> n \in Nat
  BY <1>2
<1>3. /\ Len(more) = n + 1 /\ more[n + 1] = msg
      /\ \A i \in 1 .. n : more[i] = msgs[i]
  BY <1>2, AppendQueue
<1>4. /\ IsQueue(longer) /\ Len(longer) = n + 1 + 1 /\ longer[n + 1 + 1] = new
      /\ \A i \in 1 .. (n + 1) : longer[i] = trees[i]
  BY <1>1, <1>2, AppendQueue
<1>5. ASSUME NEW i \in 1 .. (n + 1)
      PROVE  Leads(more[i], longer[i], longer[i + 1])
  <2>1. CASE i \in 1 .. n
    <3>1. i + 1 \in 1 .. (n + 1)
      BY <2>1
    <3>2. more[i] = msgs[i] /\ longer[i] = trees[i] /\ longer[i + 1] = trees[i + 1]
      BY <1>3, <1>4, <2>1, <3>1
    <3> QED BY <1>1, <1>2, <2>1, <3>2
  <2>2. CASE i = n + 1
    <3>1. longer[n + 1] = to
      BY <1>1, <1>2, <1>4
    <3> QED BY <1>3, <1>4, <2>2, <3>1
  <2> QED BY <2>1, <2>2
<1>6. longer[1] = from
  BY <1>1, <1>4
<1> QED BY <1>2, <1>3, <1>4, <1>5, <1>6 DEF Feed

LEMMA FeedShrinks ==
  ASSUME NEW msgs, IsQueue(msgs), msgs # << >>, NEW from, NEW to, Feed(msgs, from, to)
  PROVE  \E mid : Leads(Head(msgs), from, mid) /\ Feed(Tail(msgs), mid, to)
<1>1. PICK trees :
        /\ IsQueue(trees) /\ Len(trees) = Len(msgs) + 1
        /\ trees[1] = from /\ trees[Len(msgs) + 1] = to
        /\ \A i \in 1 .. Len(msgs) : Leads(msgs[i], trees[i], trees[i + 1])
  BY DEF Feed
<1>2. PICK n, less, shorter :
        /\ n \in Nat /\ n = Len(msgs) - 1 /\ less = Tail(msgs) /\ shorter = Tail(trees) /\ Len(msgs) = n + 1
  <2>1. Len(msgs) \in Nat \ {0}
    BY TailQueue
  <2>2. Len(msgs) - 1 \in Nat /\ Len(msgs) = (Len(msgs) - 1) + 1
    BY <2>1
  <2> QED BY <2>2
<1> n \in Nat
  BY <1>2
<1>3. Len(less) = n /\ \A i \in 1 .. n : less[i] = msgs[i + 1]
  BY <1>2, TailQueue
<1>4. trees # << >>
  BY <1>1, <1>2
<1>5. /\ IsQueue(shorter) /\ Len(shorter) = n + 1
      /\ \A i \in 1 .. (n + 1) : shorter[i] = trees[i + 1]
  BY <1>1, <1>2, <1>4, TailQueue
<1>6. ASSUME NEW i \in 1 .. n
      PROVE  Leads(less[i], shorter[i], shorter[i + 1])
  <2>1. i + 1 \in 1 .. (n + 1) /\ i \in 1 .. (n + 1)
    OBVIOUS
  <2>2. less[i] = msgs[i + 1] /\ shorter[i] = trees[i + 1] /\ shorter[i + 1] = trees[i + 1 + 1]
    BY <1>3, <1>5, <2>1
  <2> QED BY <1>1, <1>2, <2>1, <2>2
<1>7. shorter[1] = trees[2] /\ shorter[n + 1] = to
  BY <1>1, <1>2, <1>5
<1>8. Feed(less, shorter[1], to)
  BY <1>3, <1>5, <1>6, <1>7 DEF Feed
<1>9. Leads(msgs[1], from, trees[2]) /\ Head(msgs) = msgs[1]
  <2>1. 1 \in 1 .. Len(msgs) /\ 1 + 1 = 2
    BY <1>2
  <2> QED BY <1>1, <2>1, TailQueue
<1> QED BY <1>2, <1>7, <1>8, <1>9

Readable(msg) ==
  /\ msg.type = "full_state" => DOMAIN msg.tree \subseteq Accounts
  /\ msg.type = "delta" => /\ msg.change.account \in Accounts
                           /\ msg.change.action \in {"add", "remove", "update"}

TreesInv ==
  /\ AccountTable(sso.tree)
  /\ DOMAIN cache.tree \subseteq Accounts
  /\ \A i \in 1 .. Len(inbox) : Readable(inbox[i])

(* CacheMirrorsSso is not inductive: it says nothing while messages are under *)
(* way. Those of a live connection lead from the cache to the SSO's list; the *)
(* first message of a connection is never a delta, so that no list is built   *)
(* from an empty cache.                                                       *)
CacheInv ==
  /\ ~connected => cache = EmptyCache
  /\ cache.characters = CharactersOf(cache.tree)
  /\ sso.auth = "live" => Feed(inbox, cache.tree, sso.tree)
  /\ sso.auth = "live" /\ ~connected => inbox # << >> /\ inbox[1].type = "full_state"
  /\ sso.auth = "refused" /\ ~connected /\ client.phase = "open" /\ inbox # << >> =>
       inbox[1].type \in {"full_state", "error"}

FeedInv == TreesInv /\ CacheInv

LEMMA EmptyTables ==
  /\ EmptyCache.tree = NoAccounts
  /\ EmptyCache.characters = CharactersOf(EmptyCache.tree)
  /\ DOMAIN EmptyCache.tree = {}
BY DEF EmptyCache, Rebuilt, NoAccounts

LEMMA FeedInit == WsInit => FeedInv
<1> SUFFICES ASSUME WsInit PROVE FeedInv
  OBVIOUS
<1>1. PICK a \in Accounts :
        sso = [auth |-> "none", tree |-> a :> BlankEntry, asked |-> {}, location |-> << >>]
  BY DEF WsInit
<1>2. AccountTable(sso.tree)
  BY <1>1, BlankRecord DEF AccountTable, :>
<1>3. inbox = << >> /\ cache = EmptyCache /\ sso.auth = "none"
  BY <1>1 DEF WsInit
<1>4. TreesInv
  BY <1>2, <1>3, EmptyTables DEF TreesInv
<1> QED BY <1>3, <1>4, EmptyTables DEF FeedInv, CacheInv

LEMMA FeedSame ==
  ASSUME FeedInv, UNCHANGED <<connected, cache, inbox>>,
         client'.phase = "open" => client.phase = "open" \/ sso'.auth = "due",
         sso'.auth \in {sso.auth, "due"}, sso'.tree = sso.tree
  PROVE  FeedInv'
<1>1. TreesInv'
  BY DEF FeedInv, TreesInv
<1> QED BY <1>1 DEF FeedInv, CacheInv

LEMMA FeedEnds ==
  ASSUME AnswerInv, TypeInv, LinkInv, LinkInv', FeedInv, ConnectFails \/ Closes
  PROVE  FeedInv'
<1>1. ~connected' /\ cache' = EmptyCache
  BY DEF ConnectFails, Closes, Finally
<1>2. ~WsUp'
  <2>1. client'.phase \in {"authParked", "backoff"}
    BY DEF ConnectFails, Closes, TypeInv, Clients
  <2> QED BY <2>1 DEF WsUp
<1>3. sso'.auth = "none" /\ inbox' = << >>
  BY <1>2 DEF LinkInv
<1>4. sso'.tree = sso.tree
  BY DEF ConnectFails, Closes, AnswerInv, SsoShape, ssoVars
<1>5. TreesInv'
  BY <1>1, <1>3, <1>4, EmptyTables DEF FeedInv, TreesInv
<1> QED BY <1>1, <1>3, <1>5, EmptyTables DEF FeedInv, CacheInv

(* A message that is read takes the cache one tree further. *)
LEMMA FeedReceive ==
  ASSUME AnswerInv, TypeInv, LinkInv, FeedInv, Receive
  PROVE  FeedInv'
<1> DEFINE msg == Head(inbox)
<1>1. /\ inbox # << >> /\ inbox' = Tail(inbox) /\ UNCHANGED sso /\ client.phase = "open"
  BY DEF Receive
<1>2. /\ Len(inbox) \in Nat \ {0} /\ Len(inbox') = Len(inbox) - 1
      /\ \A i \in 1 .. Len(inbox') : i + 1 \in 1 .. Len(inbox) /\ inbox'[i] = inbox[i + 1]
      /\ 1 \in 1 .. Len(inbox) /\ msg = inbox[1] /\ IsQueue(inbox)
  BY <1>1, InboxTail DEF AnswerInv, InboxTrue
<1>3. Readable(msg) /\ \A i \in 1 .. Len(inbox') : Readable(inbox'[i])
  <2> HIDE DEF msg
  <2> QED BY <1>2 DEF FeedInv, TreesInv
<1>4. ~connected => msg.type \in {"full_state", "error"}
  <2> HIDE DEF msg
  <2>1. WsUp
    BY <1>1 DEF WsUp
  <2>2. sso.auth \in {"live", "refused"}
    BY <1>1, <2>1 DEF LinkInv
  <2> QED BY <1>1, <1>2, <2>2 DEF FeedInv, CacheInv
<1>5. ~connected /\ sso.auth = "live" => msg.type = "full_state"
  <2> HIDE DEF msg
  <2> QED BY <1>2 DEF FeedInv, CacheInv
<1>6. /\ \/ /\ msg.type = "full_state" /\ connected' = TRUE
            /\ cache' = Rebuilt(msg.tree, DynamicNames)
         \/ /\ msg.type = "delta" /\ cache' = Rebuilt(ApplyChange(cache.tree, msg.change), {})
            /\ UNCHANGED connected
         \/ msg.type = "login_auth_response" /\ UNCHANGED <<connected, cache>>
         \/ msg.type = "error" /\ UNCHANGED <<connected, cache>>
      /\ msg.type = "error" => client'.phase = "closing"
  BY DEF Receive, ApplyDelta, TypeInv, Clients
<1> HIDE DEF msg
<1>7. Leads(msg, cache.tree, cache'.tree)
  BY <1>6 DEF Leads, Rebuilt
<1>8. cache'.characters = CharactersOf(cache'.tree)
  BY <1>6 DEF Rebuilt, FeedInv, CacheInv
<1>9. DOMAIN cache'.tree \subseteq Accounts
  <2>1. CASE msg.type = "full_state"
    BY <1>3, <1>6, <2>1 DEF Readable, Rebuilt
  <2>2. CASE msg.type = "delta"
    BY <1>3, <1>6, <2>2, ChangeDomain DEF Readable, Rebuilt, FeedInv, TreesInv
  <2>3. CASE UNCHANGED cache
    BY <2>3 DEF FeedInv, TreesInv
  <2> QED BY <1>6, <2>1, <2>2, <2>3
<1>10. TreesInv'
  BY <1>1, <1>3, <1>9 DEF FeedInv, TreesInv
<1>11. sso.auth = "live" => Feed(inbox', cache'.tree, sso'.tree)
  <2> SUFFICES ASSUME sso.auth = "live" PROVE Feed(inbox', cache'.tree, sso.tree)
    BY <1>1
  <2>1. PICK mid : Leads(msg, cache.tree, mid) /\ Feed(inbox', mid, sso.tree)
    BY <1>1, <1>2, FeedShrinks DEF FeedInv, CacheInv, msg
  <2>2. mid = cache'.tree
    BY <1>7, <2>1 DEF Leads
  <2> QED BY <2>1, <2>2
<1>12. connected' \/ (~connected /\ msg.type = "error" /\ cache' = cache)
  BY <1>4, <1>6
<1>13. ~connected' => cache' = EmptyCache /\ client'.phase = "closing" /\ sso.auth # "live"
  BY <1>5, <1>6, <1>12 DEF FeedInv, CacheInv
<1> QED BY <1>1, <1>8, <1>10, <1>11, <1>13 DEF FeedInv, CacheInv

LEMMA InboxGrows ==
  ASSUME AnswerInv, NEW msg, Push(msg)
  PROVE  /\ Len(inbox) \in Nat /\ Len(inbox') = Len(inbox) + 1 /\ IsQueue(inbox)
         /\ \A i \in 1 .. Len(inbox) : inbox'[i] = inbox[i]
         /\ inbox'[Len(inbox) + 1] = msg /\ inbox' # << >>
         /\ inbox' = Append(inbox, msg)
         /\ inbox'[1] = IF inbox = << >> THEN msg ELSE inbox[1]
<1>1. inbox' = Append(inbox, msg) /\ IsQueue(inbox)
  BY DEF Push, AnswerInv, InboxTrue
<1>2. /\ Len(inbox) \in Nat /\ Len(inbox') = Len(inbox) + 1
      /\ \A i \in 1 .. Len(inbox) : inbox'[i] = inbox[i]
      /\ inbox'[Len(inbox) + 1] = msg
  BY <1>1, AppendQueue
<1>3. inbox # << >> => 1 \in 1 .. Len(inbox)
  BY <1>1, TailQueue
<1>4. inbox = << >> => Len(inbox) = 0
  OBVIOUS
<1>5. inbox' # << >>
  BY <1>2
<1> QED BY <1>1, <1>2, <1>3, <1>4, <1>5

LEMMA PushedReadable ==
  ASSUME AnswerInv, TreesInv, NEW msg, Push(msg), Readable(msg), AccountTable(sso'.tree),
         UNCHANGED cache
  PROVE  TreesInv'
<1>1. \A i \in 1 .. Len(inbox') : Readable(inbox'[i])
  <2> SUFFICES ASSUME NEW i \in 1 .. Len(inbox') PROVE Readable(inbox'[i])
    OBVIOUS
  <2>1. i \in 1 .. Len(inbox) \/ i = Len(inbox) + 1
    BY InboxGrows
  <2> QED BY <2>1, InboxGrows DEF TreesInv
<1> QED BY <1>1 DEF TreesInv

LEMMA FeedPushed ==
  ASSUME AnswerInv, NEW from, NEW to, Feed(inbox, from, to), NEW msg, Push(msg),
         NEW new, Leads(msg, to, new)
  PROVE  Feed(inbox', from, new)
<1>1. PICK msgs : msgs = inbox
  OBVIOUS
<1>2. IsQueue(msgs) /\ inbox' = Append(msgs, msg) /\ Feed(msgs, from, to)
  BY <1>1, InboxGrows
<1> QED BY <1>2, FeedGrows

(* The first message of a connection is the full list or a refusal. *)
LEMMA FeedAnswers ==
  ASSUME AnswerInv, LinkInv, FeedInv, SsoAnswersAuth
  PROVE  FeedInv'
<1>1. /\ UNCHANGED <<client, connected, cache>> /\ sso.auth = "due"
      /\ sso'.tree = sso.tree
  BY DEF SsoAnswersAuth, AnswerInv, SsoShape, loopVars
<1>2. inbox = << >> /\ ~connected
  BY <1>1 DEF LinkInv
<1>3. CASE sso'.auth = "live" /\ Push([type |-> "full_state", tree |-> sso.tree])
  <2> DEFINE msg == [type |-> "full_state", tree |-> sso.tree]
  <2>1. msg.type = "full_state" /\ msg.tree = sso.tree /\ Push(msg)
    BY <1>3
  <2> HIDE DEF msg
  <2>2. Readable(msg)
    BY <2>1 DEF Readable, FeedInv, TreesInv, AccountTable
  <2>3. TreesInv'
    BY <1>1, <2>1, <2>2, PushedReadable DEF FeedInv, TreesInv
  <2>4. Leads(msg, cache.tree, sso.tree)
    BY <2>1 DEF Leads
  <2>5. Feed(inbox', cache.tree, sso.tree)
    <3>1. PICK from, to : from = cache.tree /\ to = sso.tree
      OBVIOUS
    <3>2. Feed(inbox, from, from)
      BY <1>2, FeedEmpty
    <3> QED BY <2>1, <2>4, <3>1, <3>2, FeedPushed
  <2>6. inbox' # << >> /\ inbox'[1] = msg
    BY <1>2, <2>1, InboxGrows
  <2> QED BY <1>1, <1>3, <2>1, <2>3, <2>5, <2>6 DEF FeedInv, CacheInv
<1>4. CASE sso'.auth = "refused" /\ Push([type |-> "error"])
  <2> DEFINE msg == [type |-> "error"]
  <2>1. msg.type = "error" /\ Push(msg)
    BY <1>4
  <2> HIDE DEF msg
  <2>2. TreesInv'
    BY <1>1, <2>1, PushedReadable DEF Readable, FeedInv, TreesInv
  <2>3. inbox' # << >> /\ inbox'[1] = msg
    BY <1>2, <2>1, InboxGrows
  <2> QED BY <1>1, <1>4, <2>1, <2>2, <2>3 DEF FeedInv, CacheInv
<1>5. (sso'.auth = "live" /\ Push([type |-> "full_state", tree |-> sso.tree]))
        \/ (sso'.auth = "refused" /\ Push([type |-> "error"]))
  BY DEF SsoAnswersAuth, AnswerInv, SsoShape
<1> QED BY <1>3, <1>4, <1>5

LEMMA FeedRevokes ==
  ASSUME AnswerInv, LinkInv, FeedInv, SsoRevokes
  PROVE  FeedInv'
<1> DEFINE msg == [type |-> "error"]
<1>1. /\ UNCHANGED <<client, connected, cache>>
      /\ sso.auth = "live" /\ sso'.auth = "refused" /\ sso'.tree = sso.tree
  BY DEF SsoRevokes, AnswerInv, SsoShape, loopVars
<1>2. msg.type = "error" /\ Push(msg)
  BY DEF SsoRevokes
<1> HIDE DEF msg
<1>3. TreesInv'
  BY <1>1, <1>2, PushedReadable DEF Readable, FeedInv, TreesInv
<1>4. ~connected => inbox'[1].type = "full_state"
  BY <1>1, <1>2, InboxGrows DEF FeedInv, CacheInv
<1> QED BY <1>1, <1>3, <1>4 DEF FeedInv, CacheInv

LEMMA FeedDecides ==
  ASSUME AnswerInv, LinkInv, FeedInv, NEW r \in Requests, SsoDecides(r)
  PROVE  FeedInv'
<1>1. /\ UNCHANGED <<client, connected, cache>> /\ connected
      /\ sso'.auth = sso.auth /\ sso'.tree = sso.tree
  BY DEF SsoDecides, AnswerInv, SsoShape, loopVars, LinkInv
<1>2. PICK msg : msg.type = "login_auth_response" /\ Push(msg)
  <2> DEFINE answer(v) == [type |-> "login_auth_response", id |-> r, verdict |-> v]
  <2>1. \E v : Push(answer(v))
    BY DEF SsoDecides
  <2>2. \A v : answer(v).type = "login_auth_response"
    OBVIOUS
  <2> HIDE DEF answer
  <2> QED BY <2>1, <2>2
<1>3. TreesInv'
  BY <1>1, <1>2, PushedReadable DEF Readable, FeedInv, TreesInv
<1>4. sso.auth = "live" => Feed(inbox', cache.tree, sso.tree)
  <2>1. PICK from, to : from = cache.tree /\ to = sso.tree
    OBVIOUS
  <2>2. Leads(msg, to, to)
    BY <1>2 DEF Leads
  <2> QED BY <1>2, <2>1, <2>2, FeedPushed DEF FeedInv, CacheInv
<1> QED BY <1>1, <1>3, <1>4 DEF FeedInv, CacheInv

LEMMA FeedChanges ==
  ASSUME AnswerInv, LinkInv, FeedInv, NEW a \in Accounts, SsoChanges(a)
  PROVE  FeedInv'
<1>1. /\ UNCHANGED <<client, connected, cache>>
      /\ sso'.auth = sso.auth /\ AccountTable(sso'.tree)
      /\ \/ sso.auth # "live" /\ UNCHANGED inbox
         \/ /\ sso.auth = "live"
            /\ \E change : /\ Push([type |-> "delta", change |-> change])
                           /\ change.account \in Accounts
                           /\ change.action \in {"add", "remove", "update"}
                           /\ sso'.tree = ApplyChange(sso.tree, change)
  BY ChangeEffect DEF FeedInv, TreesInv
<1>2. CASE sso.auth # "live" /\ UNCHANGED inbox
  <2>1. TreesInv'
    BY <1>1, <1>2 DEF FeedInv, TreesInv
  <2> QED BY <1>1, <1>2, <2>1 DEF FeedInv, CacheInv
<1>3. ASSUME sso.auth = "live", NEW change, Push([type |-> "delta", change |-> change]),
             change.account \in Accounts, change.action \in {"add", "remove", "update"},
             sso'.tree = ApplyChange(sso.tree, change)
      PROVE  FeedInv'
  <2> DEFINE msg == [type |-> "delta", change |-> change]
  <2>1. msg.type = "delta" /\ msg.change = change /\ Push(msg)
    BY <1>3
  <2> HIDE DEF msg
  <2>2. Readable(msg) /\ Leads(msg, sso.tree, sso'.tree)
    BY <1>3, <2>1 DEF Readable, Leads
  <2>3. TreesInv'
    BY <1>1, <2>1, <2>2, PushedReadable DEF FeedInv
  <2>4. Feed(inbox', cache.tree, sso'.tree)
    <3>1. PICK from, to, new : from = cache.tree /\ to = sso.tree /\ new = sso'.tree
      OBVIOUS
    <3> QED BY <1>3, <2>1, <2>2, <3>1, FeedPushed DEF FeedInv, CacheInv
  <2>5. ~connected => inbox' # << >> /\ inbox'[1].type = "full_state"
    BY <1>3, <2>1, InboxGrows DEF FeedInv, CacheInv
  <2> QED BY <1>1, <1>3, <2>3, <2>4, <2>5 DEF FeedInv, CacheInv
<1> QED BY <1>1, <1>2, <1>3

-----------------------------------------------------------------------------
(* Location updates *)

(* An update that is being sent on the connection that is up. *)
Current(i) == outbox[i].kind = "update" /\ outbox[i].link = client.link

(* What it will record is what it says on top of what has been recorded. *)
Prepared(entry, recorded) == entry.tentative = entry.fields @@ recorded

(* LastSentIsTrue is not inductive: what an update that is being sent will    *)
(* record depends on what had been recorded when it began. It is the only one *)
(* on its connection, and one left over from another will fail.               *)
SentInv ==
  ~overlapped =>
    /\ \A f \in DOMAIN lastSent : f \in DOMAIN sso.location /\ sso.location[f] = lastSent[f]
    /\ WsUp => \A i, j \in 1 .. Len(outbox) : Current(i) /\ Current(j) => i = j
    /\ WsUp => \A i \in 1 .. Len(outbox) : Current(i) => Prepared(outbox[i], lastSent)

LEMMA SentInit == WsInit => SentInv
BY DEF WsInit, SentInv

LEMMA SentSame ==
  ASSUME SentInv, UNCHANGED <<outbox, lastSent, overlapped>>, sso'.location = sso.location,
         client'.link = client.link, WsUp' => WsUp
  PROVE  SentInv'
BY DEF SentInv, Current

LEMMA SentConnects ==
  ASSUME AnswerInv, TypeInv, LinkInv, SentInv, Connects
  PROVE  SentInv'
<1>1. UNCHANGED <<outbox, lastSent, overlapped>> /\ sso'.location = sso.location
  BY DEF Connects, sendVars, AnswerInv, SsoShape
<1>2. client'.link = client.link + 1 /\ client.link \in Nat
  BY DEF Connects, TypeInv, Clients
<1>3. \A i \in 1 .. Len(outbox) : ~(outbox[i].link = client'.link)
  BY <1>2 DEF LinkInv
<1> QED BY <1>1, <1>3 DEF SentInv, Current

LEMMA SentEnds ==
  ASSUME AnswerInv, TypeInv, ConnectFails \/ Closes
  PROVE  SentInv'
<1>1. lastSent' = << >>
  BY DEF ConnectFails, Closes, Finally
<1>2. ~WsUp'
  <2>1. client'.phase \in {"authParked", "backoff"}
    BY DEF ConnectFails, Closes, TypeInv, Clients
  <2> QED BY <2>1 DEF WsUp
<1> QED BY <1>1, <1>2 DEF SentInv

LEMMA SentAsked ==
  ASSUME AnswerInv, SentInv, NEW e, e.kind = "auth", outbox' = Append(outbox, e),
         UNCHANGED <<client, lastSent, overlapped, sso>>
  PROVE  SentInv'
<1>1. /\ Len(outbox) \in Nat /\ Len(outbox') = Len(outbox) + 1
      /\ \A i \in 1 .. Len(outbox) : outbox'[i] = outbox[i]
      /\ outbox'[Len(outbox) + 1] = e
  BY AppendQueue DEF AnswerInv, OutboxUndecided
<1>2. \A i \in 1 .. Len(outbox') : Current(i)' => i \in 1 .. Len(outbox) /\ Current(i)
  <2> SUFFICES ASSUME NEW i \in 1 .. Len(outbox'), outbox'[i].kind = "update",
                      outbox'[i].link = client.link
               PROVE  i \in 1 .. Len(outbox) /\ Current(i)
    BY DEF Current
  <2>1. i \in 1 .. Len(outbox) \/ i = Len(outbox) + 1
    BY <1>1
  <2> QED BY <1>1, <2>1 DEF Current
<1> QED BY <1>1, <1>2 DEF SentInv, WsUp

LEMMA SentUpdates ==
  ASSUME AnswerInv, SentInv, NEW f \in Updates, UpdateSent(f)
  PROVE  SentInv'
<1> DEFINE entry == [kind |-> "update", fields |-> f, tentative |-> f @@ lastSent,
                     link |-> client.link]
<1>1. /\ outbox' = Append(outbox, entry) /\ UNCHANGED <<client, lastSent, sso>>
      /\ overlapped' = (overlapped \/ \E i \in DOMAIN outbox : outbox[i].kind = "update")
  BY DEF UpdateSent, loopVars, ssoVars
<1>2. Prepared(entry, lastSent)
  BY DEF Prepared
<1> HIDE DEF entry
<1>3. /\ Len(outbox) \in Nat /\ Len(outbox') = Len(outbox) + 1
      /\ \A i \in 1 .. Len(outbox) : outbox'[i] = outbox[i]
      /\ outbox'[Len(outbox) + 1] = entry
  BY <1>1, AppendQueue DEF AnswerInv, OutboxUndecided
<1>4. DOMAIN outbox = 1 .. Len(outbox)
  BY DEF AnswerInv, OutboxUndecided, IsQueue
<1> SUFFICES ASSUME ~overlapped' PROVE SentInv'
  BY DEF SentInv
<1>5. ~overlapped /\ \A i \in 1 .. Len(outbox) : outbox[i].kind # "update"
  BY <1>1, <1>4
<1>6. \A i \in 1 .. Len(outbox') : Current(i)' => i = Len(outbox) + 1
  <2> SUFFICES ASSUME NEW i \in 1 .. Len(outbox'), outbox'[i].kind = "update"
               PROVE  i = Len(outbox) + 1
    BY DEF Current
  <2>1. i \in 1 .. Len(outbox) \/ i = Len(outbox) + 1
    BY <1>3
  <2> QED BY <1>3, <1>5, <2>1
<1>7. \A i \in 1 .. Len(outbox') :
        Current(i)' => Prepared(outbox'[i], lastSent')
  BY <1>1, <1>2, <1>3, <1>6
<1> QED BY <1>1, <1>5, <1>6, <1>7 DEF SentInv

LEMMA SentFails ==
  ASSUME AnswerInv, SentInv, SendFails
  PROVE  SentInv'
<1>1. /\ outbox # << >> /\ outbox' = Tail(outbox)
      /\ UNCHANGED <<client, lastSent, overlapped, sso>>
  BY DEF SendFails, loopVars, ssoVars
<1>2. /\ Len(outbox) \in Nat \ {0} /\ Len(outbox') = Len(outbox) - 1
      /\ \A i \in 1 .. Len(outbox') : i + 1 \in 1 .. Len(outbox) /\ outbox'[i] = outbox[i + 1]
  BY <1>1, OutboxTail
<1>3. \A i \in 1 .. Len(outbox') : Current(i)' => Current(i + 1)
  BY <1>1, <1>2 DEF Current
<1> QED BY <1>1, <1>2, <1>3 DEF SentInv, WsUp

LEMMA SentCompletes ==
  ASSUME AnswerInv, SentInv, SendCompletes
  PROVE  SentInv'
<1> DEFINE head == Head(outbox)
<1>1. /\ outbox # << >> /\ outbox' = Tail(outbox) /\ UNCHANGED <<client, overlapped>>
  BY DEF SendCompletes, loopVars
<1>2. /\ Len(outbox) \in Nat \ {0} /\ Len(outbox') = Len(outbox) - 1
      /\ \A i \in 1 .. Len(outbox') : i + 1 \in 1 .. Len(outbox) /\ outbox'[i] = outbox[i + 1]
      /\ 1 \in 1 .. Len(outbox) /\ head = outbox[1]
  BY <1>1, OutboxTail
<1>3. \A i \in 1 .. Len(outbox') : Current(i)' => Current(i + 1)
  BY <1>1, <1>2 DEF Current
<1>4. client.phase = "open" /\ head.link = client.link /\ WsUp
  BY DEF SendCompletes, Alive, WsUp
<1>5. CASE head.kind = "auth" /\ sso' = [sso EXCEPT !.asked = @ \cup {head.id}] /\ UNCHANGED lastSent
  <2>1. sso'.location = sso.location
    <3> HIDE DEF head
    <3> QED BY <1>5 DEF AnswerInv, SsoShape
  <2>2. UNCHANGED lastSent
    BY <1>5
  <2> HIDE DEF head
  <2> QED BY <1>1, <1>2, <1>3, <1>4, <2>1, <2>2 DEF SentInv, WsUp
<1>6. CASE /\ head.kind = "update" /\ sso' = [sso EXCEPT !.location = head.fields @@ @]
           /\ lastSent' = head.tentative
  <2>0. SUFFICES ASSUME ~overlapped PROVE SentInv'
    BY <1>1 DEF SentInv
  <2>1. sso'.location = head.fields @@ sso.location
    BY <1>6 DEF AnswerInv, SsoShape
  <2>2. Current(1)
    BY <1>2, <1>4, <1>6 DEF Current
  <2>3. lastSent' = head.fields @@ lastSent
    <3>1. Prepared(head, lastSent)
      BY <1>2, <1>4, <2>0, <2>2 DEF SentInv
    <3> QED BY <1>6, <3>1 DEF Prepared
  <2>4. \A i \in 1 .. Len(outbox') : ~Current(i)'
    <3>1. \A i \in 1 .. Len(outbox') : i + 1 # 1
      BY <1>2
    <3> QED BY <1>2, <1>3, <1>4, <2>0, <2>2, <3>1 DEF SentInv
  <2> HIDE DEF head
  <2>5. \A f \in DOMAIN lastSent' : f \in DOMAIN sso'.location /\ sso'.location[f] = lastSent'[f]
    <3>1. PICK fields : fields = head.fields
      OBVIOUS
    <3> QED BY <2>0, <2>1, <2>3, <3>1 DEF SentInv, @@
  <2> QED BY <2>4, <2>5 DEF SentInv
<1> QED BY <1>5, <1>6 DEF SendCompletes

-----------------------------------------------------------------------------
(* Every step *)

WsInv == AnswerInv /\ TypeInv /\ LinkInv /\ FeedInv /\ SentInv

(* Steps that leave connection, cache, queues and what was sent alone. *)
LEMMA NothingMoves ==
  ASSUME WsInv, UNCHANGED <<client, connected, cache, outbox, inbox, lastSent, overlapped, sso>>
  PROVE  LinkInv' /\ FeedInv' /\ SentInv'
<1>1. LinkInv'
  BY LinkSame DEF WsInv
<1>2. FeedInv'
  BY FeedSame DEF WsInv
<1>3. SentInv'
  BY SentSame DEF WsInv, WsUp
<1> QED BY <1>1, <1>2, <1>3

LEMMA QuietStep ==
  ASSUME WsInv, \/ User \/ TimerFires \/ UNCHANGED wsVars
                \/ \E r \in Requests : RequestResumes(r) \/ RequestTimesOut(r)
  PROVE  LinkInv' /\ FeedInv' /\ SentInv'
<1>1. UNCHANGED <<client, connected, cache, outbox, inbox, lastSent, overlapped, sso>>
  <2>1. CASE User \/ TimerFires
    BY <2>1 DEF User, BackendChosen, TokenEdited, RefreshClicked, TimerFires, loopVars, sendVars,
                ssoVars
  <2>2. CASE UNCHANGED wsVars
    BY <2>2 DEF wsVars, loopVars, sendVars, ssoVars
  <2>3. CASE \E r \in Requests : RequestResumes(r) \/ RequestTimesOut(r)
    BY <2>3 DEF RequestResumes, RequestTimesOut, loopVars, sendVars, ssoVars
  <2> QED BY <2>1, <2>2, <2>3
<1> QED BY <1>1, NothingMoves

LEMMA LoopStep ==
  ASSUME WsInv, LoopTop \/ ParkedWakes \/ LinkFails \/ ReconnectSeen \/ BackoffEnds
  PROVE  LinkInv' /\ FeedInv' /\ SentInv'
<1>1. UNCHANGED <<connected, cache, outbox, inbox, lastSent, overlapped, sso>>
  BY DEF LoopTop, ParkedWakes, LinkFails, ReconnectSeen, BackoffEnds, ssoVars, sendVars
<1>2. client'.phase # "open" /\ client'.link = client.link /\ (WsUp' => WsUp)
  BY DEF WsInv, TypeInv, Clients, WsUp, LoopTop, ParkedWakes, LinkFails, ReconnectSeen, BackoffEnds
<1>3. LinkInv'
  BY LinkPhase DEF WsInv
<1>4. FeedInv'
  BY <1>1, <1>2, FeedSame DEF WsInv
<1>5. SentInv'
  BY <1>1, <1>2, SentSame DEF WsInv
<1> QED BY <1>3, <1>4, <1>5

LEMMA ConnectsKeeps ==
  ASSUME WsInv, Connects
  PROVE  LinkInv' /\ FeedInv' /\ SentInv'
<1>1. UNCHANGED <<connected, cache, inbox>> /\ sso'.auth = "due" /\ sso'.tree = sso.tree
  BY DEF Connects, WsInv, AnswerInv, SsoShape
<1>2. FeedInv'
  BY <1>1, FeedSame DEF WsInv
<1> QED BY <1>2, LinkConnects, SentConnects DEF WsInv

LEMMA EndsKeeps ==
  ASSUME WsInv, ConnectFails \/ Closes
  PROVE  LinkInv' /\ FeedInv' /\ SentInv'
<1>1. LinkInv'
  BY LinkEnds DEF WsInv
<1> QED BY <1>1, FeedEnds, SentEnds DEF WsInv

LEMMA ReceiveKeeps ==
  ASSUME WsInv, Receive
  PROVE  LinkInv' /\ FeedInv' /\ SentInv'
<1>1. UNCHANGED <<outbox, lastSent, overlapped, sso>> /\ client'.link = client.link /\ WsUp
  BY DEF Receive, sendVars, WsInv, TypeInv, Clients, WsUp
<1>2. SentInv'
  BY <1>1, SentSame DEF WsInv
<1> QED BY <1>2, LinkReceive, FeedReceive DEF WsInv

LEMMA AskedKeeps ==
  ASSUME WsInv, NEW r \in Requests, RequestAsked(r)
  PROVE  LinkInv' /\ FeedInv' /\ SentInv'
<1>1. UNCHANGED <<client, connected, cache, inbox, lastSent, overlapped, sso>>
  BY DEF RequestAsked, loopVars, ssoVars
<1>2. FeedInv'
  BY <1>1, FeedSame DEF WsInv
<1>3. CASE UNCHANGED outbox
  BY <1>1, <1>3, NothingMoves
<1>4. CASE /\ connected
           /\ outbox' = Append(outbox, [kind |-> "auth", id |-> r, link |-> client.link])
  <2>1. PICK e : e.kind = "auth" /\ e.link = client.link /\ outbox' = Append(outbox, e)
    BY <1>4
  <2>2. LinkInv'
    BY <1>1, <1>4, <2>1, LinkSends DEF WsInv
  <2>3. SentInv'
    BY <1>1, <2>1, SentAsked DEF WsInv
  <2> QED BY <1>2, <2>2, <2>3
<1> QED BY <1>3, <1>4 DEF RequestAsked

LEMMA UpdateKeeps ==
  ASSUME WsInv, NEW f \in Updates, UpdateSent(f)
  PROVE  LinkInv' /\ FeedInv' /\ SentInv'
<1>1. UNCHANGED <<client, connected, cache, inbox, sso>> /\ connected
  BY DEF UpdateSent, loopVars, ssoVars
<1>2. FeedInv'
  BY <1>1, FeedSame DEF WsInv
<1>3. PICK e : e.link = client.link /\ outbox' = Append(outbox, e)
  <2> DEFINE entry(t) == [kind |-> "update", fields |-> f, tentative |-> t, link |-> client.link]
  <2>1. \E t : outbox' = Append(outbox, entry(t))
    BY DEF UpdateSent
  <2>2. \A t : entry(t).link = client.link
    OBVIOUS
  <2> HIDE DEF entry
  <2> QED BY <2>1, <2>2
<1>4. LinkInv'
  BY <1>1, <1>3, LinkSends DEF WsInv
<1> QED BY <1>2, <1>4, SentUpdates DEF WsInv

LEMMA SendKeeps ==
  ASSUME WsInv, SendCompletes \/ SendFails
  PROVE  LinkInv' /\ FeedInv' /\ SentInv'
<1>1. UNCHANGED <<client, connected, cache, inbox>>
  BY DEF SendCompletes, SendFails, loopVars, ssoVars
<1>2. sso'.auth = sso.auth /\ sso'.tree = sso.tree
  <2> DEFINE head == Head(outbox)
  <2>1. \/ sso' = [sso EXCEPT !.asked = @ \cup {head.id}]
        \/ \E l : sso' = [sso EXCEPT !.location = l]
        \/ sso' = sso
    BY DEF SendCompletes, SendFails, ssoVars
  <2> HIDE DEF head
  <2> QED BY <2>1 DEF WsInv, AnswerInv, SsoShape
<1>3. FeedInv'
  BY <1>1, <1>2, FeedSame DEF WsInv
<1> QED BY <1>3, LinkSent, SentFails, SentCompletes DEF WsInv

LEMMA PushKeeps ==
  ASSUME WsInv, \/ SsoAnswersAuth \/ SsoRevokes
                \/ \E r \in Requests : SsoDecides(r)
                \/ \E a \in Accounts : SsoChanges(a)
  PROVE  LinkInv' /\ FeedInv' /\ SentInv'
<1>0. AccountTable(sso.tree)
  BY DEF WsInv, FeedInv, TreesInv
<1>1. UNCHANGED <<client, outbox, lastSent, overlapped>> /\ sso'.location = sso.location
  <2>1. CASE SsoAnswersAuth
    BY <2>1 DEF SsoAnswersAuth, loopVars, sendVars, WsInv, AnswerInv, SsoShape
  <2>2. CASE SsoRevokes
    BY <2>2 DEF SsoRevokes, loopVars, sendVars, WsInv, AnswerInv, SsoShape
  <2>3. CASE \E r \in Requests : SsoDecides(r)
    BY <2>3 DEF SsoDecides, loopVars, sendVars, WsInv, AnswerInv, SsoShape
  <2>4. CASE \E a \in Accounts : SsoChanges(a)
    BY <1>0, <2>4, ChangeEffect DEF WsInv
  <2> QED BY <2>1, <2>2, <2>3, <2>4
<1>2. SentInv'
  BY <1>1, SentSame DEF WsInv, WsUp
<1>3. LinkInv'
  BY <1>0, LinkPushed, LinkChanges DEF WsInv
<1>4. FeedInv'
  BY FeedAnswers, FeedRevokes, FeedDecides, FeedChanges DEF WsInv
<1> QED BY <1>2, <1>3, <1>4

LEMMA WsStep ==
  ASSUME WsInv, [WsNext]_wsVars
  PROVE  WsInv'
<1>1. AnswerInv' /\ TypeInv'
  BY AnswerStep, TypeStep DEF WsInv
<1>2. LinkInv' /\ FeedInv' /\ SentInv'
  <2>1. CASE User \/ TimerFires \/ UNCHANGED wsVars
    BY <2>1, QuietStep
  <2>2. CASE Run
    BY <2>2, LoopStep, ConnectsKeeps, EndsKeeps, ReceiveKeeps DEF Run
  <2>3. CASE Outside
    BY <2>3, LoopStep, EndsKeeps, PushKeeps DEF Outside
  <2>4. ASSUME NEW r \in Requests,
               RequestAsked(r) \/ RequestResumes(r) \/ RequestTimesOut(r) \/ SsoDecides(r)
        PROVE  LinkInv' /\ FeedInv' /\ SentInv'
    BY <2>4, AskedKeeps, QuietStep, PushKeeps
  <2>5. CASE \E f \in Updates : UpdateSent(f)
    BY <2>5, UpdateKeeps
  <2>6. CASE SendCompletes \/ SendFails \/ SsoAnswersAuth
    BY <2>6, SendKeeps, PushKeeps
  <2> QED BY <2>1, <2>2, <2>3, <2>4, <2>5, <2>6 DEF WsNext
<1> QED BY <1>1, <1>2 DEF WsInv

LEMMA WsAlways == WsSpec => []WsInv
<1>1. WsInit => WsInv
  BY AnswerInit, TypeInit, LinkInit, FeedInit, SentInit DEF WsInv
<1>2. WsInv /\ [WsNext]_wsVars => WsInv'
  BY WsStep
<1> QED BY <1>1, <1>2, PTL DEF WsSpec

(* Every variable keeps its type; the delay never leaves its bounds, and the  *)
(* cache never holds an account that does not exist.  (_run,                  *)
(* request_login_auth, _rebuild_cache)                                        *)
THEOREM TypesKept == WsSpec => []WsTypeOK
<1>1. ASSUME WsInv PROVE WsTypeOK
  <2>1. /\ setting \in Settings /\ tls \in TlsSettings
        /\ {uiTimer, reconnect, connected, overlapped} \subseteq BOOLEAN
        /\ events \in 0 .. MaxEvents
    BY <1>1 DEF WsInv, TypeInv
  <2>2. /\ client.phase \in Phases /\ client.delay \in ReconnectMin .. ReconnectMax
        /\ client.link \in Nat
    BY <1>1 DEF WsInv, TypeInv, Clients
  <2>3. DOMAIN cache.tree \subseteq Accounts
    BY <1>1 DEF WsInv, FeedInv, TreesInv
  <2>4. /\ pending \subseteq Requests
        /\ future \in [Requests -> [state : {"none", "open", "cancelled", "granted", "denied"},
                                    link : Nat]]
    <3>1. States = {"none", "open", "cancelled", "granted", "denied"}
      BY DEF States, Verdicts
    <3> QED BY <1>1, <3>1 DEF WsInv, AnswerInv, RequestShape
  <2> QED BY <2>1, <2>2, <2>3, <2>4 DEF WsTypeOK, Phases
<1> QED BY <1>1, WsAlways, PTL

(* Whatever accounts come, change and go, and however connections end: when   *)
(* the messages of a live connection have been applied the cache is the SSO's *)
(* list, and without a connection there is none.  (_apply_delta)              *)
THEOREM CacheIsExact == WsSpec => []CacheMirrorsSso
<1>1. ASSUME WsInv PROVE CacheMirrorsSso
  <2>1. ~connected => cache = EmptyCache
    BY <1>1 DEF WsInv, FeedInv, CacheInv
  <2>2. ASSUME sso.auth = "live", inbox = << >>
        PROVE  cache.tree = sso.tree /\ cache.characters = CharactersOf(sso.tree)
    <3>1. Feed(<< >>, cache.tree, sso.tree) /\ cache.characters = CharactersOf(cache.tree)
      BY <1>1, <2>2 DEF WsInv, FeedInv, CacheInv
    <3>2. cache.tree = sso.tree
      BY <3>1, FeedEmpty
    <3> QED BY <3>1, <3>2
  <2> QED BY <2>1, <2>2 DEF CacheMirrorsSso
<1> QED BY <1>1, WsAlways, PTL

(* What is withheld as already sent is what the SSO has, unless two updates   *)
(* were under way together.  (send_update_location)                           *)
THEOREM WithheldWasSent == WsSpec => []LastSentIsTrue
<1>1. WsInv => LastSentIsTrue
  BY DEF WsInv, SentInv, LastSentIsTrue
<1> QED BY <1>1, WsAlways, PTL

=============================================================================
