----------------------------- MODULE Payloads -----------------------------
(***************************************************************************)
(* From a target to a request and back (syncer/build.go, npm/payloads.go,  *)
(* resources.go, models.go, marker.go): what is built from the labels,     *)
(* what of it a server can keep, what a request carries, what is read back *)
(* and how the two are compared.                                           *)
(*                                                                         *)
(* All four kinds are one record; a setting a kind does not have keeps its *)
(* zero value.  Of the settings that are only copied, none is kept.  Those *)
(* here stand each for a group the code treats alike: http2 and trust for  *)
(* the legacy switches, http3 for the switches only NPMplus has, reqOff    *)
(* for those that are inert without another, frame for the texts NPMplus   *)
(* fills in, ids and listType for the access lists.                        *)
(***************************************************************************)
EXTENDS Integers, FiniteSets, Dialects, Certificates

Unset == "unset"       \* a meta key that is not there
Hand == "hand"         \* managed_by is not there
Us == "us"            \* managed_by names this tool
DefaultFrame == "SAMEORIGIN"

NoLocation == [there |-> FALSE, enabled |-> TRUE, ids |-> {}, listType |-> "",
               frame |-> "", config |-> ""]

---------------------------------------------------------------------------
(* The desired resource.                                                   *)

\* normalizeSSL: the cascade the servers apply before they store a host.
normalizeSSL(t, cert) ==
  LET secure == cert # NoCertificate
      forced == secure /\ t.forced # "no"
  IN  [forced |-> forced, hsts |-> forced /\ t.hsts,
       http2 |-> secure /\ t.http2, http3 |-> secure /\ t.http3]

buildMeta(t) == [owner |-> Us, dir |-> t.group, email |-> t.email]

BuildResource(t, cert) ==
  LET ssl == IF t.kind = "stream"
             THEN [forced |-> FALSE, hsts |-> FALSE, http2 |-> FALSE, http3 |-> FALSE]
             ELSE normalizeSSL(t, cert)
  IN  [kind |-> t.kind, key |-> t.key, cert |-> cert, forced |-> ssl.forced, hsts |-> ssl.hsts,
       http2 |-> ssl.http2, http3 |-> ssl.http3, trust |-> t.trust, ids |-> t.ids,
       listType |-> t.listType, crowdOff |-> t.crowdOff, reqOff |-> t.reqOff,
       frame |-> t.frame, loc |-> t.loc, scheme |-> t.scheme, udp |-> t.udp, level |-> t.level,
       user |-> t.user, meta |-> buildMeta(t), marked |-> FALSE]

\* stripPlus: what upstream NPM has no property for.
stripLocation(l) == [NoLocation EXCEPT !.there = l.there, !.enabled = l.enabled]
stripPlus(r) ==
  [r EXCEPT !.http3 = FALSE, !.crowdOff = FALSE, !.reqOff = FALSE, !.frame = "", !.level = 0,
            !.loc = stripLocation(@), !.meta.dir = Unset,
            !.user = IF r.kind = "stream" THEN "" ELSE @]

\* keepSchemeFor: how this server spells "the scheme of the request".
keepSchemeFor(d, scheme) ==
  IF scheme \notin {"auto", "$scheme"} THEN scheme
  ELSE IF WrittenAs(d) = "npmplus" /\ AcceptsScheme(d, "$scheme") THEN "$scheme"
  ELSE IF AcceptsScheme(d, "auto") THEN "auto" ELSE scheme

\* Conform: a setting the server drops must not take part in the comparison.
\* (slip: the switches a release has retired are compared all the same)
ConformPlus(r, d) ==
  [(IF WrittenAs(d) = "npm" THEN stripPlus(r) ELSE r)
     EXCEPT !.marked = CarriesMarker(d, r.kind)]
Conform(r, d) ==
  LET s == IF WrittenAs(d) = "npm" THEN stripPlus(r) ELSE r
  IN  [s EXCEPT !.marked = CarriesMarker(d, r.kind),
                !.http2 = @ /\ Accepts(d, r.kind, "http2_support"),
                !.trust = @ /\ Accepts(d, r.kind, "trust_forwarded_proto"),
                !.loc.config = IF Accepts(d, r.kind, "locations/npmplus_location_config") THEN @ ELSE "",
                !.scheme = IF r.kind = "redirect" THEN keepSchemeFor(d, @) ELSE @,
                !.level = IF ProxyProtocolIsFlag(d) /\ @ > 1 THEN 1 ELSE @]

\* AdoptServerState: a certificate the server issued, a group picked in the UI,
\* a default the server filled in.
AdoptServerState(r, live) ==
  [r EXCEPT !.cert = IF @ = NewCertificate /\ live.cert > 0 THEN live.cert ELSE @,
            !.meta.dir = IF @ = Unset THEN live.meta.dir ELSE @,
            !.frame = IF @ = "" THEN live.frame ELSE @,
            !.loc.frame = IF @ = "" /\ r.loc.there /\ live.loc.there THEN live.loc.frame ELSE @]

---------------------------------------------------------------------------
(* The comparison.                                                         *)

\* accessLists and Location.accessListType: both spellings of an access list.
accessLists(r) ==
  IF r.listType = "public" \/ (r.listType = "" /\ r.ids = {}) THEN <<{}, "public">>
  ELSE <<r.ids, IF r.listType = "" THEN "custom" ELSE r.listType>>
locationLists(l) ==
  LET type == IF l.listType # "" THEN l.listType
              ELSE IF l.ids # {} THEN "custom" ELSE "global"
  IN  <<IF type = "custom" THEN l.ids ELSE {}, type>>

\* cleanForwardOptions: a switch without effect is cleared.
\* (slip: a switch is sent whatever the others say)
SendAnySwitch(r) == r.reqOff
cleanForwardOptions(r) == r.reqOff /\ r.crowdOff /\ r.scheme \in {"http", "https", "empty"}

\* (slip: the certificate is not compared)
FingerprintNoCert(r) ==
  [key |-> r.key, lists |-> accessLists(r), user |-> r.user, scheme |-> r.scheme,
   owner |-> r.meta.owner, marked |-> r.marked]
Fingerprint(r) ==
  [key |-> r.key, cert |-> r.cert, forced |-> r.forced, hsts |-> r.hsts, http2 |-> r.http2,
   http3 |-> r.http3, trust |-> r.trust, lists |-> accessLists(r), user |-> r.user,
   loc |-> [there |-> r.loc.there, enabled |-> r.loc.enabled, lists |-> locationLists(r.loc),
            frame |-> r.loc.frame, config |-> r.loc.config],
   crowdOff |-> r.crowdOff, reqOff |-> cleanForwardOptions(r), frame |-> r.frame,
   scheme |-> r.scheme, udp |-> r.udp, level |-> r.level,
   dir |-> IF r.meta.dir = Unset THEN "" ELSE r.meta.dir,
   owner |-> r.meta.owner, marked |-> r.marked]

---------------------------------------------------------------------------
(* The request.                                                            *)

\* markerFor and advancedFor: the marker line in front of what the labels say.
\* (slip: only the meta object names the owner)
AdvancedAsAsked(r, d) == [user |-> r.user, broken |-> FALSE, marks |-> {}]
advancedFor(r, d) ==
  [user |-> r.user, broken |-> FALSE,
   marks |-> IF CarriesMarker(d, r.kind) /\ r.meta.owner = Us
             THEN {[key |-> r.key, owner |-> r.meta.owner]} ELSE {}]

\* checkScheme, checkLetsEncrypt and the other early returns of Payload.
PayloadFails(r, d) ==
  \/ /\ WrittenAs(d) = "npm" /\ r.kind = "proxy"
     /\ r.scheme \notin {"http", "https"} \/ Cardinality(accessLists(r)[1]) > 1
  \/ WrittenAs(d) = "npm" /\ r.kind # "stream" /\ r.cert = NewCertificate /\ ~r.meta.email
  \/ /\ WrittenAs(d) = "npmplus" /\ r.kind = "stream"
     /\ \/ r.cert = NewCertificate
        \/ r.udp /\ (r.cert > 0 \/ (r.level = 1 /\ ~ProxyProtocolIsFlag(d)))

\* columnsFor: a group that is not set is not written, so that the column stays.
\* (slip: it is written as no group)
ColumnsAlways(r) == ColumnFields
columnsFor(r) == IF r.meta.dir = Unset THEN {} ELSE ColumnFields

\* Payload: the properties sent and their values.  proxyProtocolFor, columnsFor
\* and metaForWrite leave out what the server does not accept, or write it in
\* the type it declares.
Payload(r, d) ==
  [fields |-> Body(d, r.kind) \ (ColumnFields \ columnsFor(r)),
   kind |-> r.kind, key |-> r.key, cert |-> r.cert, forced |-> r.forced, hsts |-> r.hsts,
   http2 |-> r.http2, http3 |-> r.http3, trust |-> r.trust, lists |-> accessLists(r),
   crowdOff |-> r.crowdOff,
   reqOff |-> IF WrittenAs(d) = "npm" THEN FALSE ELSE cleanForwardOptions(r),
   frame |-> r.frame, loc |-> r.loc,
   scheme |-> IF r.kind = "redirect" THEN keepSchemeFor(d, r.scheme) ELSE r.scheme,
   udp |-> r.udp, level |-> IF ProxyProtocolIsFlag(d) /\ r.level > 0 THEN 1 ELSE r.level,
   adv |-> advancedFor(r, d), meta |-> r.meta]

---------------------------------------------------------------------------
(* Decoding.                                                               *)

\* liftOwnership: exactly one readable marker, written for this key, is
\* trusted.  Any other takes the ownership of the meta object with it.
\* (slip: a marker that is not trusted leaves the meta object alone)
LiftKeepsMeta(adv, owner, key) ==
  IF ~adv.broken /\ \E m \in adv.marks : adv.marks = {m} /\ m.key = key
  THEN <<(CHOOSE m \in adv.marks : TRUE).owner, TRUE>> ELSE <<owner, FALSE>>
liftOwnership(adv, owner, key) ==
  LET found == adv.broken \/ adv.marks # {}
      valid == ~adv.broken /\ Cardinality(adv.marks) = 1
      m == CHOOSE m \in adv.marks : TRUE
  IN  CASE ~found -> <<owner, FALSE>>
        [] valid /\ m.key = key -> <<m.owner, TRUE>>
        [] OTHER -> <<IF owner = Us THEN Hand ELSE owner, FALSE>>

\* liftDirectory: the column counts where the meta object has no group.
liftDirectory(dir, column) == IF column # "" /\ dir = Unset THEN column ELSE dir

\* UnmarshalJSON of a host as the server stores it.
Decode(s) ==
  LET lifted == liftOwnership(s.adv, s.meta.owner, s.key)
  IN  [kind |-> s.kind, key |-> s.key, cert |-> s.cert, forced |-> s.forced, hsts |-> s.hsts,
       http2 |-> s.http2, http3 |-> s.http3, trust |-> s.trust, ids |-> s.lists[1],
       listType |-> s.lists[2], crowdOff |-> s.crowdOff, reqOff |-> s.reqOff, frame |-> s.frame,
       loc |-> s.loc, scheme |-> s.scheme, udp |-> s.udp, level |-> s.level,
       user |-> s.adv.user,
       meta |-> [owner |-> lifted[1], dir |-> liftDirectory(s.meta.dir, s.column),
                 email |-> s.meta.email],
       marked |-> lifted[2]]

===========================================================================
