----------------------------- MODULE LoginRelay -----------------------------
(***************************************************************************)
(* What the login proxy promises an EQ client, without sequence numbers,   *)
(* Acks, credentials or retries: within a session the client is shown what *)
(* the server answered, in the order it answered, each thing once, the     *)
(* fragments of a server list as one packet, and never the rejection of a  *)
(* password that the proxy had put in place of the client's own.           *)
(***************************************************************************)
EXTENDS Naturals, Sequences

VARIABLES
  source,   \* what the server answered in this session
  taken,    \* how much of it has reached the proxy
  shown     \* what the client was shown

vars == <<source, taken, shown>>

Withheld == {"SsoRejected", "Head", "Body"}

(* What an answer adds to what the client is shown: the last fragment stands *)
(* for the list it completes.                                                *)
Seen(item) ==
  CASE item \in Withheld         -> <<>>
    [] item \in {"Tail", "Stub"} -> <<"List">>
    [] OTHER                     -> <<item>>

Init ==
  /\ source = <<>>
  /\ taken = 0
  /\ shown = <<>>

Answer ==
  /\ Len(source') > Len(source)
  /\ SubSeq(source', 1, Len(source)) = source
  /\ UNCHANGED <<taken, shown>>

TakeOne ==
  /\ taken + 1 <= Len(source)
  /\ taken' = taken + 1
  /\ shown' = shown \o Seen(source[taken + 1])
  /\ UNCHANGED source

(* Two answers travel in one datagram. *)
TakeTwo ==
  /\ taken + 2 <= Len(source)
  /\ taken' = taken + 2
  /\ shown' = (shown \o Seen(source[taken + 1])) \o Seen(source[taken + 2])
  /\ UNCHANGED source

Take == TakeOne \/ TakeTwo

NewSession ==
  /\ source' = <<>>
  /\ taken' = 0
  /\ shown' = <<>>

Next == Answer \/ Take \/ NewSession

(* Everything the server answers is shown in the end, unless the session ends. *)
Spec == Init /\ [][Next]_vars /\ WF_vars(Take)

=============================================================================
