-------------------------- MODULE MCLabelledContainer --------------------------
(***************************************************************************)
(* A vocabulary of labels, in the order sort.Strings gives them, and some  *)
(* containers that use it.                                                 *)
(***************************************************************************)
EXTENDS LabelledContainer

MCNames ==
  << <<"1", "dead", "domains">>,                 \*  1
     <<"1", "enable">>,                          \*  2
     <<"1", "proxy", "domains">>,                \*  3
     <<"1", "proxy", "domians">>,                \*  4
     <<"dead", "1", "host">>,                    \*  5
     <<"domains">>,                              \*  6
     <<"enable">>,                               \*  7
     <<"proxy", "1", "domains">>,                \*  8
     <<"proxy", "access_list">>,                 \*  9
     <<"proxy", "access_list_type">>,            \* 10
     <<"proxy", "certificate">>,                 \* 11
     <<"proxy", "disable_crowdsec">>,            \* 12
     <<"proxy", "domains">>,                     \* 13
     <<"proxy", "location", "0", "path">>,       \* 14
     <<"proxy", "location", "0", "port">>,       \* 15
     <<"proxy", "port">>,                        \* 16
     <<"proxy", "ssl_forced">>,                  \* 17
     <<"redirect", "domains">>,                  \* 18
     <<"redirect", "to">>,                       \* 19
     <<"redirect", "too">>,                      \* 20
     <<"stream", "certificate">>,                \* 21
     <<"stream", "listen">>,                     \* 22
     <<"stream", "port">>,                       \* 23
     <<"stream", "prot">>,                       \* 24
     <<"stream", "protocol">>,                   \* 25
     <<"stream", "resolve_ip">>,                 \* 26
     <<"strem", "port">> >>                      \* 27

With(values) == [n \in DOMAIN MCNames |->
                   IF n \in DOMAIN values THEN values[n] ELSE Absent]

MCCompositions ==
  { With(13 :> "a.org" @@ 23 :> "25"),
    With(3 :> "b.org" @@ 2 :> "true" @@ 6 :> "a.org" @@ 16 :> "80"),
    With(18 :> "b.org" @@ 19 :> "a.org" @@ 1 :> "c.org" @@ 7 :> "true"),
    With(13 :> "a.org" @@ 14 :> "/api" @@ 12 :> "true" @@ 9 :> "admins"),
    With(23 :> "25" @@ 25 :> "both" @@ 26 :> "true") }

Offered ==
  2 :> {"false"} @@ 3 :> {"b.org"} @@ 7 :> {"true", "false"} @@ 9 :> {"admins"}
  @@ 10 :> {"public"} @@ 11 :> {"new", "none"} @@ 13 :> {"c.org", ""}
  @@ 15 :> {"9000"} @@ 16 :> {"auto"} @@ 17 :> {"true"} @@ 21 :> {"7", "new"}
  @@ 23 :> {"25"} @@ 25 :> {"udp"}

MCOffers == [n \in DOMAIN MCNames |->
               IF n \in DOMAIN Offered THEN Offered[n] ELSE {}]

MCMisspelt ==
  { <<3, 4, "field">>, <<19, 20, "field">>, <<23, 24, "field">>,
    <<23, 27, "segment">> }

MCSynonyms == { <<3, 8>>, <<8, 3>>, <<13, 6>>, <<6, 13>>, <<1, 5>>, <<5, 1>>,
                <<22, 23>>, <<23, 22>> }

Setting(strictNetworks, resolveIP, strictLabels, exposed, onStop, env) ==
  [prefer |-> {"shared"}, strictNetworks |-> strictNetworks,
   resolveIP |-> resolveIP, strictLabels |-> strictLabels,
   exposedByDefault |-> exposed, onStop |-> onStop, env |-> env]

NoEnv == [p \in {} |-> Unset]
MCSettings ==
  { Setting(FALSE, FALSE, FALSE, TRUE, "delete", NoEnv),
    Setting(TRUE, TRUE, TRUE, TRUE, "disable", <<"default", "certificate">> :> "new"),
    Setting(TRUE, FALSE, FALSE, FALSE, "keep",
            <<"default", "certificate">> :> "new"
            @@ <<"stream", "certificate">> :> "name:main") }

MCPortSets == { {"80"}, {"9000", "9001"} }
MCNetworkSets == { {"shared"}, {"private"} }
================================================================================
