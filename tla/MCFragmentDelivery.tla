------------------------- MODULE MCFragmentDelivery -------------------------
(* FragmentDelivery for TLC: the configurations give every constant its value. *)
EXTENDS FragmentDelivery

=============================================================================
