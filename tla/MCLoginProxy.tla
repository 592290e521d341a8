---------------------------- MODULE MCLoginProxy ----------------------------
(* LoginProxy for TLC: the configurations give every constant its value. *)
EXTENDS LoginProxy

=============================================================================
