----------------------------- MODULE MCWsClient -----------------------------
(* WsClient for TLC: the constants whose values are records and functions. *)
EXTENDS WsClient

Secure == [host |-> "sso", tls |-> TRUE]
Plain  == [host |-> "local", tls |-> FALSE]

MCSettings ==
  {[url |-> Secure, key |-> "k1"], [url |-> Secure, key |-> "none"], [url |-> Plain, key |-> "k1"]}

MCAccepted == {<<Secure, "k1">>, <<Plain, "k1">>}

MCTlsSettings ==
  {[ca |-> "true", verify |-> TRUE, readable |-> TRUE],
   [ca |-> "bundle.pem", verify |-> TRUE, readable |-> FALSE]}

(* From one to the other, a name, a tag and a character go, come or change. *)
MCEntries ==
  {[aliases |-> {"al"}, tags |-> {}, characters |-> "ch" :> 1],
   [aliases |-> {}, tags |-> {"tag"}, characters |-> "ch" :> 2 @@ "co" :> 1]}

MCUpdates == {"park" :> 1, "park" :> 2 @@ "level" :> 1}

=============================================================================
