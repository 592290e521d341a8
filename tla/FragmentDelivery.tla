-------------------------- MODULE FragmentDelivery --------------------------
(***************************************************************************)
(* Server lists on their way through recv_fragment, at every position in   *)
(* the sequence space: the login server cuts one list after another into   *)
(* NFrags fragments, and the network repeats and reorders them. The server *)
(* list is what the player picks a game server from; the fragments         *)
(* themselves are never forwarded.                                         *)
(***************************************************************************)
EXTENDS ProxySession, Sequences

CONSTANTS
  NFrags,         \* fragments of a list
  GarbageTotals,  \* what may be read as a length from a fragment's payload
  HeadFirst,      \* the first fragment of a list arrives before the others
  LateRepeats,    \* a fragment can arrive again when its list is complete
  MaxLists        \* bound: lists the server sends

ASSUME DeliveryAssumption ==
  /\ NFrags \in Nat /\ NFrags > 1
  /\ NFrags <= SeqMod \div 2
  /\ GarbageTotals \subseteq Nat
  /\ {HeadFirst, LateRepeats} \subseteq BOOLEAN
  /\ MaxLists \in Nat

VARIABLES
  session,    \* the ProxySessionState
  base,       \* sequence of the first fragment of the first list
  list,       \* number of the list the server is sending
  got,        \* fragments of it that have reached the proxy
  forwarded   \* the responses handed to the client, each as its chunks

vars == <<session, base, list, got, forwarded>>

Parts == 1 .. NFrags

(* Chunks are numbered through all lists. *)
Chunk(l, k) == (l - 1) * NFrags + k

(* build_fragments: only the first fragment carries the length. The last    *)
(* one may hold hardly any data.                                            *)
Cut(l, k) ==
  [seq : {(base + Chunk(l, k) - 1) % SeqMod},
   head : {k = 1},
   total : IF k = 1 THEN {NFrags} ELSE GarbageTotals,
   short : IF k = NFrags THEN BOOLEAN ELSE {FALSE},
   chunk : {Chunk(l, k)}]

Init ==
  /\ session = NewSession
  /\ base \in 0 .. (SeqMod - 1)
  /\ list = 1
  /\ got = {}
  /\ forwarded = <<>>

(* handle_server_packet for a fragment. *)
HandleFragment(f) ==
  /\ session' = RecvFragment(session, f)
  /\ forwarded' = IF CompletesList(session, f)
                    THEN Append(forwarded, Reassembled(Add(session.asm, f)))
                    ELSE forwarded

Arrives(k) ==
  /\ k \notin got
  /\ HeadFirst => k = 1 \/ 1 \in got
  /\ \E f \in Cut(list, k) : HandleFragment(f)
  /\ got' = got \cup {k}
  /\ UNCHANGED <<base, list>>

Repeats(k) ==
  /\ k \in got
  /\ got # Parts \/ LateRepeats
  /\ \E f \in Cut(list, k) : HandleFragment(f)
  /\ UNCHANGED <<base, list, got>>

(* The client asks for the list again. *)
NextList ==
  /\ got = Parts
  /\ list < MaxLists
  /\ list' = list + 1
  /\ got' = {}
  /\ UNCHANGED <<session, base, forwarded>>

Next == (\E k \in Parts : Arrives(k) \/ Repeats(k)) \/ NextList

Spec == Init /\ [][Next]_vars

----------------------------------------------------------------------------
(* What reaches the client is a list the server sent, cut nowhere and mixed *)
(* with no other, in the order they were sent.                              *)
ListsIntact ==
  \A n \in DOMAIN forwarded : forwarded[n] = [k \in Parts |-> Chunk(n, k)]

(* recv_fragment forwards a list when, and only when, all its fragments have *)
(* arrived: repeats neither complete it early nor make it appear twice.      *)
ListForwarded ==
  Len(forwarded) = IF got = Parts THEN list ELSE list - 1

=============================================================================
