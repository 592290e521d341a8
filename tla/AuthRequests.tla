---------------------------- MODULE AuthRequests ----------------------------
(***************************************************************************)
(* What request_login_auth promises the login proxy, without connections,  *)
(* futures or timeouts: a request that is asked ends, with the SSO's       *)
(* verdict on this very request or with a failure that says nothing.       *)
(***************************************************************************)
CONSTANT Requests

VARIABLES
  verdict,   \* the SSO's decision on each request, "none" until it is taken
  outcome    \* what the caller has: "idle", "asked", or the end of the request

vars == <<verdict, outcome>>

Verdicts == {"granted", "denied"}

Init ==
  /\ verdict = [r \in Requests |-> "none"]
  /\ outcome = [r \in Requests |-> "idle"]

Ask(r) ==
  /\ outcome[r] = "idle"
  /\ outcome' = [outcome EXCEPT ![r] = "asked"]
  /\ UNCHANGED verdict

(* The SSO decides once, also when nobody waits any more. *)
Decide(r) ==
  /\ outcome[r] # "idle"
  /\ verdict[r] = "none"
  /\ \E v \in Verdicts : verdict' = [verdict EXCEPT ![r] = v]
  /\ UNCHANGED outcome

(* A request fails without an answer, or at once when there is no connection. *)
Fail(r) ==
  /\ outcome[r] \in {"idle", "asked"}
  /\ outcome' = [outcome EXCEPT ![r] = "failed"]
  /\ UNCHANGED verdict

Answer(r) ==
  /\ outcome[r] = "asked"
  /\ verdict[r] \in Verdicts
  /\ outcome' = [outcome EXCEPT ![r] = verdict[r]]
  /\ UNCHANGED verdict

End(r) == outcome[r] = "asked" /\ (Fail(r) \/ Answer(r))

Next == \E r \in Requests : Ask(r) \/ Decide(r) \/ Fail(r) \/ Answer(r)

Spec == Init /\ [][Next]_vars /\ \A r \in Requests : WF_vars(End(r))

=============================================================================
