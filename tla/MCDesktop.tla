----------------------------- MODULE MCDesktop ------------------------------
(* Desktop for TLC: the names of backends and the files at the start. *)
EXTENDS Desktop

P99Url == "https://proxy.p99loginproxy.net"
KingdomUrl == "https://bot.kingdomdkp.com"
OtherUrl == "https://example.org"

MCText == STRING
MCUrls == {P99Url, KingdomUrl, OtherUrl}
MCUrlName == P99Url :> "Good Guys" @@ KingdomUrl :> "Kingdom"
MCBackendUrl == [b \in {"Good Guys", "Marginal Threat"} |-> P99Url] @@ "Kingdom" :> KingdomUrl

MCLabelUrl == "Custom: p99" :> P99Url @@ "Custom: other" :> OtherUrl
MCJoinedUrl == "Custom = p99" :> P99Url

Key(name, values) == [name |-> name, values |-> values]

(* A fresh installation, a tidy file, one of the old single backend, one with *)
(* the keys that an INI parser has split, one of an unknown server, and one   *)
(* of the old backend that is repaired before it is migrated.                 *)
MCConfigFiles ==
  {[defaults |-> << >>, tokens |-> << >>],
   [defaults |-> "sso_api_name" :> <<"Kingdom">> @@ "sso_api" :> <<KingdomUrl>> @@
                 "user_api_token" :> <<"t1">> @@ "eq_directory" :> <<"d1">>,
    tokens |-> <<Key("Kingdom", <<"t1">>)>>],
   [defaults |-> "user_api_token" :> <<"t1">>, tokens |-> << >>],
   [defaults |-> "sso_api_name" :> <<"Custom: p99">> @@ "sso_api" :> <<P99Url>> @@
                 "user_api_token" :> <<"", "t1">>,
    tokens |-> <<Key("P99 Login Proxy", <<"t2">>), Key("Custom", <<P99Url>>),
                 Key("Custom = p99", <<"t1", "t2">>), Key("Custom: p99", <<"">>)>>],
   [defaults |-> "sso_api_name" :> <<"Custom: other">> @@ "sso_api" :> <<OtherUrl>> @@
                 "proxy_enabled" :> <<"False">> @@ "eq_directory" :> <<"d2">>,
    tokens |-> <<Key("P99 Login Proxy", <<"t2">>), Key("Custom: other", <<"t1">>),
                 Key("Custom", <<OtherUrl>>)>>],
   [defaults |-> "sso_api_name" :> <<OldName>> @@ "sso_api" :> <<P99Url>>,
    tokens |-> <<Key(OldName, <<"t2">>), Key("Custom: other", <<"t1">>)>>]}

MCHostFiles == {{"default", "proxy"}, {"custom"}, {}}
MCStartHosts ==
  {"d1" :> {"default"} @@ "d2" :> NoFile,
   "d1" :> {"proxy"} @@ "d2" :> {"custom"}}

=============================================================================
