---------------------------- MODULE MCHostSync ----------------------------
(* The hosts TLC checks: one target for each treatment of a setting.       *)
EXTENDS HostSync

Label(mode) == [mode |-> mode, id |-> 2, domain |-> <<"b", "ex">>, name |-> "wild"]

\* The plain proxy host: everything at its default.
Plain ==
  [kind |-> "proxy", key |-> "a.ex", doms |-> {<<"a", "ex">>, <<"b", "ex">>},
   primary |-> <<"a", "ex">>, cert |-> Label("auto"), forced |-> "auto", hsts |-> TRUE,
   http2 |-> TRUE, http3 |-> TRUE, trust |-> TRUE, ids |-> {}, names |-> {}, listType |-> "",
   crowdOff |-> FALSE, reqOff |-> FALSE, frame |-> "", loc |-> NoLocation, scheme |-> "http",
   udp |-> FALSE, level |-> 0, user |-> "", group |-> Unset, email |-> FALSE]

Rich == [Plain EXCEPT !.cert = Label("new"), !.email = TRUE, !.forced = "no", !.names = {"staff"},
                      !.reqOff = TRUE, !.crowdOff = TRUE, !.frame = "DENY", !.user = "conf",
                      !.group = "home",
                      !.loc = [NoLocation EXCEPT !.there = TRUE, !.ids = {1}, !.config = "conf"]]
Inert == [Plain EXCEPT !.cert = Label("name"), !.reqOff = TRUE, !.scheme = "grpc", !.ids = {1},
                       !.group = "", !.loc = [NoLocation EXCEPT !.there = TRUE]]
Redirect == [Plain EXCEPT !.kind = "redirect", !.trust = FALSE, !.scheme = "auto"]
Redirect2 == [Redirect EXCEPT !.scheme = "$scheme", !.cert = Label("domain")]
Stream == [Plain EXCEPT !.kind = "stream", !.key = "8080", !.doms = {}, !.primary = <<>>,
                        !.cert = Label("none"), !.forced = "no", !.hsts = FALSE, !.http2 = FALSE,
                        !.http3 = FALSE, !.trust = FALSE, !.scheme = "", !.user = "conf",
                        !.level = 2, !.udp = TRUE]
Stream2 == [Stream EXCEPT !.udp = FALSE, !.level = 1, !.group = "home"]
Dead == [Plain EXCEPT !.kind = "dead", !.trust = FALSE, !.scheme = "", !.user = "conf"]


\* Against upstream NPM: a location switched off, and a stream with a
\* certificate.
LocationOff == [Plain EXCEPT !.loc = [NoLocation EXCEPT !.there = TRUE, !.enabled = FALSE]]
StreamTLS == [Stream EXCEPT !.udp = FALSE, !.cert = Label("id")]
PlainOnly == {[Plain EXCEPT !.email = TRUE]}
LocationOnly == {LocationOff}
StreamOnly == {StreamTLS}

ProxyTargets == {Plain, Rich, Inert}
AllTargets == ProxyTargets \cup {Redirect, Redirect2, Stream, Stream2, Dead}

Cert(names, expiry, nice) ==
  [names |-> names, provider |-> "letsencrypt", deleted |-> FALSE, expiry |-> expiry, nice |-> nice]
\* A wildcard, the exact certificate of the primary domain, one for both
\* domains that expires, one level too high, and a client CA.
Offered ==
  1 :> Cert({<<"*", "ex">>}, 0, "wild")
  @@ 2 :> Cert({<<"a", "ex">>}, 2, "one")
  @@ 3 :> Cert({<<"a", "ex">>, <<"b", "ex">>}, 1, "both")
  @@ 4 :> Cert({<<"*", "c", "ex">>}, 2, "deep")
  @@ 5 :> [Cert({<<"a", "ex">>, <<"b", "ex">>}, 2, "ca") EXCEPT !.provider = "mtls"]
===========================================================================
