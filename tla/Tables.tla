------------------------------- MODULE Tables -------------------------------
(* Python's dictionaries. *)

(* The operators of the module TLC, with definitions that a proof can expand. *)
f @@ g == [x \in DOMAIN f \cup DOMAIN g |-> IF x \in DOMAIN f THEN f[x] ELSE g[x]]

a :> e == [x \in {a} |-> e]

Without(f, keys) == [x \in DOMAIN f \ keys |-> f[x]]

=============================================================================
