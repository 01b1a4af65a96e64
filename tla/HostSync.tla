----------------------------- MODULE HostSync -----------------------------
(***************************************************************************)
(* One labelled host, from its labels to what the server keeps and back,   *)
(* over the life of the server: the part of Worker.reconcileKind that      *)
(* builds and compares a resource, with the certificates and access lists  *)
(* of resolve.go.  A run first loads (certificates, access lists, hosts)   *)
(* and then applies; the server, its users and the labels may change in    *)
(* between.  Which hosts a run creates and deletes, its failures and its   *)
(* backoff are the subject of Reconciler; how the dialect is read is that  *)
(* of ApiClient.                                                           *)
(***************************************************************************)
EXTENDS Payloads, TLC

CONSTANTS
  Targets,      \* what the labels may ask for
  Served,       \* the releases the server runs, one after the other
  Schemas,      \* those that serve a usable GET /api/schema
  CertOf,       \* the certificates people import, by id
  AtStart,      \* the certificates the server has at the start
  OtherKey,     \* a key no label asks for
  Partial,      \* NPM_CERTIFICATE_PARTIAL
  AutoCreate,   \* NPM_CERTIFICATE_AUTO_CREATE
  MaxTime, MaxEvents  \* bounds of the model: the last expiry, and what happens
                      \* to the server, the labels and the process in all

ASSUME HostAssumption ==
  /\ Served \subseteq Releases /\ Schemas \subseteq Releases
  /\ AtStart \subseteq DOMAIN CertOf
  /\ Partial \in {"primary", "none"} /\ AutoCreate \in BOOLEAN
  /\ {MaxTime, MaxEvents} \subseteq Nat

\* The labels are those of one host: they may ask for anything but another key,
\* which would be another host.  A stream has no domains, any other host has
\* some.  parseAccessList drops the names of a "public" one.
ASSUME TargetsAssumption ==
  \A t \in Targets :
    /\ {"kind", "key", "ids", "names", "listType", "group", "cert", "doms", "primary"}
         \subseteq DOMAIN t
    /\ t.kind \in Kinds /\ t.key # OtherKey /\ <<>> \notin t.doms
    /\ IF t.kind = "stream" THEN t.doms = {} /\ t.primary = <<>> ELSE t.primary \in t.doms
    /\ \A u \in Targets : u.kind = t.kind => u.key = t.key
    /\ t.names = {} \/ t.listType # "public"

\* A host has the settings of its kind: parseAccessList knows two types and
\* refuses "custom" without a list, ParseSpec refuses a negative id and reads 0
\* as none.
ASSUME SettingsAssumption ==
  \A t \in Targets :
    /\ {"forced", "hsts", "http2", "http3", "trust", "crowdOff", "reqOff", "frame", "loc",
        "scheme", "udp", "level", "user", "email"} \subseteq DOMAIN t
    /\ {t.hsts, t.http2, t.http3, t.trust, t.crowdOff, t.reqOff, t.loc.enabled} \subseteq BOOLEAN
    /\ DOMAIN NoLocation \subseteq DOMAIN t.loc /\ t.level \in Nat
    /\ t.cert.mode \in Modes /\ (t.cert.mode = "id" => t.cert.id \in Nat \ {0})
    /\ t.kind # "proxy" => ~t.trust /\ t.frame = ""
    /\ t.listType \in {"", "public", "custom"}
    /\ t.listType = "custom" => t.ids \cup t.names # {}

\* The server counts ids from 1; canonicalAll drops the empty name.
ASSUME CertsAssumption ==
  /\ IsFiniteSet(DOMAIN CertOf)
  /\ \A id \in DOMAIN CertOf :
       /\ id \in Nat \ {0}
       /\ {"names", "provider", "deleted", "expiry"} \subseteq DOMAIN CertOf[id]
       /\ CertOf[id].expiry \in Nat /\ <<>> \notin CertOf[id].names

VARIABLES
  server,   \* release, certificates, access lists by name, and the time
  hosts,    \* the hosts it stores
  target,   \* what the labels ask for now
  dialect,  \* the client's view of the server
  worker,   \* memory of the process: certificates, access lists, cache; and, as
            \* history, the ids of the last certificate list it could read
  run,      \* the run under way
  seen,     \* history, see below
  left      \* what the environment may still do

vars == <<server, hosts, target, dialect, worker, run, seen, left>>

Idle == [phase |-> "idle", target |-> CHOOSE t \in Targets : TRUE, live |-> {}]
Empty == [id \in {} |-> 0]
NewProcess == [certs |-> Empty, lists |-> Empty, cache |-> {}, known |-> {}]

\* history: nothing has changed since a run completed; how the labelled host
\* was last written.
Unseen == [settled |-> FALSE, written |-> None]
Changed == [seen EXCEPT !.settled = FALSE]

Hosts(key) == {s \in hosts : s.key = key}
Event == left > 0 /\ left' = left - 1

---------------------------------------------------------------------------
(* The server: what it stores of a request and what an upgrade makes of it.*)

\* What a probe finds out (ApiClient).
Probe(release) ==
  [flavour |-> FlavourOf(release), version |-> Reports(release),
   schema |-> IF release \in Schemas THEN release ELSE None,
   retired |-> release \notin Schemas /\ ShapeRetired(release)]

TakesValue(release, p) ==
  /\ p.kind = "redirect" => AcceptsScheme([Unread EXCEPT !.schema = release], p.scheme)
  /\ release = "plusColumns" => (p.reqOff => p.crowdOff)
  /\ FlavourOf(release) = "npm" /\ p.kind = "proxy" => p.scheme \in {"http", "https"}

NoHost(kind, key) ==
  [kind |-> kind, key |-> key, cert |-> NoCertificate, forced |-> FALSE, hsts |-> FALSE,
   http2 |-> FALSE, http3 |-> FALSE, trust |-> FALSE, lists |-> <<{}, "">>, crowdOff |-> FALSE,
   reqOff |-> FALSE, frame |-> "", loc |-> NoLocation, scheme |-> "", udp |-> FALSE, level |-> 0,
   adv |-> [user |-> "", marks |-> {}, broken |-> FALSE],
   meta |-> [owner |-> Hand, dir |-> Unset, email |-> FALSE], column |-> ""]

StoredLocation(release, l) ==
  IF release \in Upstream THEN [NoLocation EXCEPT !.there = l.there]
  ELSE [l EXCEPT !.ids = locationLists(l)[1], !.listType = locationLists(l)[2],
                 !.frame = IF l.there /\ release = "plusColumns" /\ @ = "" THEN DefaultFrame ELSE @,
                 !.config = IF release = "plusColumns" THEN "" ELSE @]

\* "cert" is the certificate the host gets, issued for it or not.
Store(release, old, p, cert) ==
  LET plus == release \notin Upstream
      secure == cert # NoCertificate
  IN  [kind |-> old.kind, key |-> old.key,
       cert |-> IF p.kind = "stream" /\ "certificate_id" \notin p.fields THEN old.cert ELSE cert,
       forced |-> p.forced /\ secure,
       hsts |-> p.hsts /\ p.forced /\ secure,
       http2 |-> IF "http2_support" \in p.fields
                 THEN p.http2 /\ (secure \/ release = "npm212") ELSE old.http2,
       http3 |-> plus /\ p.http3 /\ (secure \/ release # "plusColumns"),
       trust |-> IF "trust_forwarded_proto" \in p.fields THEN p.trust ELSE old.trust,
       lists |-> IF plus THEN p.lists ELSE <<p.lists[1], "">>,
       crowdOff |-> plus /\ p.crowdOff,
       reqOff |-> plus /\ p.reqOff,
       frame |-> IF p.kind # "proxy" \/ ~plus THEN ""
                 ELSE IF p.frame = "" THEN DefaultFrame ELSE p.frame,
       loc |-> StoredLocation(release, p.loc),
       scheme |-> p.scheme, udp |-> p.udp,
       level |-> IF plus THEN (IF release = "plusMeta" /\ p.level > 0 THEN 1 ELSE p.level) ELSE 0,
       adv |-> IF p.kind = "stream" /\ ~plus THEN old.adv ELSE p.adv,
       meta |-> IF "meta" \in p.fields THEN p.meta ELSE old.meta,
       column |-> IF "npmplus_directory" \in p.fields THEN p.meta.dir ELSE old.column]

\* NPMplus takes over the hosts of NPM; its later releases empty the meta
\* object and keep the group in a column.
Migrate(s, to) ==
  LET plus == [s EXCEPT !.lists = accessLists([ids |-> s.lists[1], listType |-> s.lists[2]]),
                        !.frame = IF s.kind = "proxy" /\ @ = "" THEN DefaultFrame ELSE @]
  IN  CASE to \in Upstream -> s
        [] to = "plusMeta" -> plus
        [] OTHER -> [plus EXCEPT !.http2 = FALSE, !.trust = FALSE,
                                 !.loc = StoredLocation(to, @),
                                 !.column = IF s.meta.dir = Unset THEN @ ELSE s.meta.dir,
                                 !.meta = [owner |-> Hand, dir |-> Unset, email |-> FALSE]]

---------------------------------------------------------------------------
(* A run.                                                                  *)

\* loadCertificates: a failing request keeps the previous list.
\* (slip: it leaves an empty one)
CertsOrNone(ok) == [worker EXCEPT !.certs = IF ok THEN server.certs ELSE Empty, 
                               !.known = IF ok THEN DOMAIN server.certs ELSE @]
loadCertificates(ok) ==
  IF ok THEN [worker EXCEPT !.certs = server.certs, !.known = DOMAIN server.certs] ELSE worker

\* loadAccessLists: only when a label names one.
loadAccessLists(w, ok) ==
  IF ok /\ target.names # {} THEN [w EXCEPT !.lists = server.lists] ELSE w

Load(certsOk, listsOk) ==
  /\ run.phase = "idle"
  /\ IF certsOk /\ listsOk THEN UNCHANGED left ELSE Event
  /\ worker' = loadAccessLists(loadCertificates(certsOk), listsOk)
  /\ run' = [phase |-> "loaded", target |-> target,
             live |-> {Decode(s) : s \in Hosts(target.key)}]
  /\ UNCHANGED <<server, hosts, target, dialect, seen>>

\* resolveAccessLists: an unknown name is an error, never "public".
\* (slip: a name that is not known is left out)
KnownListsOnly(t, lists) ==
  [ok |-> TRUE, ids |-> t.ids \cup {lists[n] : n \in t.names \cap DOMAIN lists}]
resolveAccessLists(t, lists) ==
  IF t.names \subseteq DOMAIN lists
  THEN [ok |-> TRUE, ids |-> t.ids \cup {lists[n] : n \in t.names}]
  ELSE [ok |-> FALSE, ids |-> {}]

Current(live) == IF \E l \in live : l.cert > 0 THEN (CHOOSE l \in live : TRUE).cert ELSE NoCertificate

\* The certificate and the resource a run derives for a target.
Certificate(t, live, certs) ==
  resolveCertificate(t.cert, t.doms, t.primary, certs, Current(live), Partial, AutoCreate,
                     server.now)
Desired(t, live, w, d) ==
  LET r == Conform(BuildResource([t EXCEPT !.ids = resolveAccessLists(t, w.lists).ids],
                                 Certificate(t, live, w.certs)), d)
  IN  IF live = {} THEN r ELSE AdoptServerState(r, CHOOSE l \in live : TRUE)

\* A host made by hand is adopted; whose other hosts are skipped is the subject
\* of Reconciler.
Skipped(t, live, w) ==
  \/ ~resolveAccessLists(t, w.lists).ok
  \/ Certificate(t, live, w.certs) = Refused

InSync(r, live, w) ==
  \E l \in live : Fingerprint(l) = Fingerprint(r) \/ Fingerprint(r) \in w.cache

\* A write the server refuses makes the client read the dialect again.
Taken(p) == p.fields \subseteq Takes(server.release, p.kind) /\ TakesValue(server.release, p)

With(list, id, c) == [i \in DOMAIN list \cup {id} |-> IF i = id THEN c ELSE list[i]]
Issued == Max({0} \cup DOMAIN server.certs \cup server.gone \cup DOMAIN CertOf) + 1
Write(r, p, old) ==
  IF Taken(p)
  THEN /\ hosts' = (hosts \ Hosts(r.key)) \cup
             {Store(server.release, old, p, IF p.cert = NewCertificate THEN Issued ELSE p.cert)}
       /\ server' = IF p.cert # NewCertificate THEN server
                    ELSE [server EXCEPT !.certs = With(@, Issued,
                           [names |-> run.target.doms, provider |-> "letsencrypt",
                            deleted |-> FALSE, expiry |-> MaxTime + 1, nice |-> ""])]
       /\ worker' = [worker EXCEPT !.cache = {Fingerprint(r)}]
       /\ seen' = [seen EXCEPT !.written = WrittenAs(dialect),
                     !.settled = /\ dialect = Probe(server.release) /\ run.target = target
                                 /\ run.live = {Decode(s) : s \in Hosts(target.key)}
                                 /\ worker.certs = server.certs
                                 /\ target.names = {} \/ worker.lists = server.lists]
       /\ UNCHANGED dialect
  ELSE dialect' = Probe(server.release) /\ UNCHANGED <<hosts, server, worker, seen>>

Apply ==
  /\ run.phase = "loaded"
  /\ run' = Idle
  /\ \E r \in {Desired(run.target, run.live, worker, dialect)} :
       IF Skipped(run.target, run.live, worker) \/ PayloadFails(r, dialect)
       THEN UNCHANGED <<hosts, server, worker, seen, dialect>>
       ELSE IF InSync(r, run.live, worker)
       THEN /\ worker' = [worker EXCEPT !.cache = {Fingerprint(r)}]
            /\ UNCHANGED <<hosts, server, seen, dialect>>
       ELSE \E p \in {Payload(r, dialect)},
               old \in IF Hosts(r.key) = {} THEN {NoHost(r.kind, r.key)} ELSE Hosts(r.key) :
              Write(r, p, old)
  /\ UNCHANGED <<target, left>>

\* Recheck on a resync, or a probe for another reason.
Recheck ==
  /\ run.phase = "idle" /\ dialect # Probe(server.release)
  /\ dialect' = Probe(server.release)
  /\ seen' = Changed
  /\ UNCHANGED <<server, hosts, target, worker, run, left>>

Restart ==
  /\ Event
  /\ worker' = NewProcess /\ run' = Idle
  /\ dialect' = Probe(server.release)
  /\ seen' = Changed
  /\ UNCHANGED <<server, hosts, target>>

---------------------------------------------------------------------------
(* The rest of the world.                                                  *)

Relabel(t) ==
  /\ Event /\ t # target /\ t.kind = target.kind
  /\ target' = t
  /\ seen' = Changed
  /\ UNCHANGED <<server, hosts, dialect, worker, run>>

Rank(release) == CASE release = "npm211" -> 1 [] release = "npm212" -> 2
                   [] release = "plusMeta" -> 3 [] OTHER -> 4
Upgrade(to) ==
  /\ Event /\ Rank(to) > Rank(server.release)
  /\ server' = [server EXCEPT !.release = to]
  /\ hosts' = {Migrate(s, to) : s \in hosts}
  /\ seen' = Changed
  /\ UNCHANGED <<target, dialect, worker, run>>

Import(id) ==
  /\ Event /\ id \in DOMAIN CertOf \ (DOMAIN server.certs \cup server.gone)
  /\ server' = [server EXCEPT !.certs = With(@, id, CertOf[id])]
  /\ seen' = Changed
  /\ UNCHANGED <<hosts, target, dialect, worker, run>>

\* A deleted certificate may stay in the list, or be gone from it; its id is
\* not used again.
Remove(id) ==
  /\ Event /\ id \in DOMAIN server.certs
  /\ \/ /\ ~server.certs[id].deleted
        /\ server' = [server EXCEPT !.certs[id].deleted = TRUE, !.gone = @ \cup {id}]
     \/ server' = [server EXCEPT !.certs = [i \in DOMAIN @ \ {id} |-> @[i]], !.gone = @ \cup {id}]
  /\ seen' = Changed
  /\ UNCHANGED <<hosts, target, dialect, worker, run>>

Tick ==
  /\ Event /\ server.now < MaxTime
  /\ server' = [server EXCEPT !.now = @ + 1]
  /\ seen' = Changed
  /\ UNCHANGED <<hosts, target, dialect, worker, run>>

\* The access list the labels name is deleted, or comes back with another id.
ListsChange ==
  /\ Event
  /\ server' = [server EXCEPT !.lists =
       IF DOMAIN @ = {} THEN "staff" :> left + 1 ELSE Empty]
  /\ seen' = Changed
  /\ UNCHANGED <<hosts, target, dialect, worker, run>>

\* What people do in the UI: copy a host, give it another domain, damage or
\* remove the marker line, put it into a group.
HasMarker(s) == s.adv.marks # {}
Copy(s) ==
  /\ Event /\ HasMarker(s) /\ Hosts(OtherKey) = {}
  /\ hosts' = hosts \cup {[s EXCEPT !.key = OtherKey]}
  /\ UNCHANGED <<server, target, dialect, worker, run, seen>>
Rename(s) ==
  /\ Event /\ HasMarker(s) /\ Hosts(OtherKey) = {}
  /\ hosts' = (hosts \ {s}) \cup {[s EXCEPT !.key = OtherKey]}
  /\ seen' = Unseen
  /\ UNCHANGED <<server, target, dialect, worker, run>>
SpoilMarker(s) ==
  /\ Event /\ HasMarker(s)
  /\ \/ hosts' = (hosts \ {s}) \cup {[s EXCEPT !.adv.broken = TRUE, !.adv.marks = {}]}
     \/ hosts' = (hosts \ {s}) \cup {[s EXCEPT !.adv.marks = {}]}
  /\ seen' = [Changed EXCEPT !.written = None]
  /\ UNCHANGED <<server, target, dialect, worker, run>>
Regroup(s) ==
  /\ Event /\ server.release \notin Upstream /\ s.key # OtherKey
  /\ hosts' = (hosts \ {s}) \cup
       {IF server.release = "plusColumns" THEN [s EXCEPT !.column = "picked"]
        ELSE [s EXCEPT !.meta.dir = "picked"]}
  /\ seen' = Changed
  /\ UNCHANGED <<server, target, dialect, worker, run>>

Init ==
  /\ server \in [release: Served, certs: {[id \in AtStart |-> CertOf[id]]}, gone: {{}},
                 lists: {"staff" :> 1}, now: {0}]
  /\ hosts = {}
  /\ target \in Targets
  /\ dialect = Probe(server.release)
  /\ worker = NewProcess /\ run = Idle
  /\ seen = Unseen
  /\ left = MaxEvents

Next ==
  \/ \E certsOk, listsOk \in BOOLEAN : Load(certsOk, listsOk)
  \/ Apply \/ Recheck \/ Restart \/ Tick \/ ListsChange
  \/ \E t \in Targets : Relabel(t)
  \/ \E to \in Served : Upgrade(to)
  \/ \E id \in DOMAIN CertOf : Import(id) \/ Remove(id)
  \/ \E s \in hosts : Copy(s) \/ Rename(s) \/ SpoilMarker(s) \/ Regroup(s)

Spec == Init /\ [][Next]_vars

\* Resyncs and polls keep the runs coming, and a run completes: the weak
\* fairness of Apply, which a loaded run always enables.
FairSpec ==
  Spec /\ WF_vars(Load(TRUE, TRUE)) /\ WF_vars(Recheck) /\ []<>(run.phase = "idle")

---------------------------------------------------------------------------
(* What must hold.                                                         *)

Live == {Decode(s) : s \in Hosts(target.key)}
IsCert(c) == c \in Nat

\* The type invariant: one host per key, what is stored decodes, and a run
\* works on at most one.
TypeOK ==
  /\ server.release \in Served /\ server.now \in 0..MaxTime
  /\ target \in Targets /\ dialect \in Dialect
  /\ Cardinality(run.live) <= 1 /\ run.phase \in {"idle", "loaded"}
  /\ \A key \in {target.key, OtherKey} : Cardinality(Hosts(key)) <= 1
  /\ \A s \in hosts : IsCert(s.cert) /\ s.meta.owner \in {Us, Hand}

\* A run that wrote a host and was not disturbed leaves nothing for the next
\* one to do: what is read back is what would be built again, whatever the
\* server drops, cleans or fills in.
WritesConverge ==
  seen.settled => Fingerprint(Desired(target, Live, worker, dialect))
                    \in {Fingerprint(l) : l \in Live}

\* A client that knows the release it talks to writes nothing this release
\* refuses.
WritesAreTaken ==
  run.phase = "loaded" /\ dialect = Probe(server.release)
    => LET r == Desired(run.target, run.live, worker, dialect)
       IN  \/ Skipped(run.target, run.live, worker) \/ PayloadFails(r, dialect)
           \/ Taken(Payload(r, dialect))

\* A host this worker wrote is known as its own for good, across every upgrade
\* of the server, also the one that empties the meta object.  Upstream NPM has
\* no place for the marker of a stream.
OwnershipSurvives ==
  seen.written # None /\ (target.kind = "stream" => seen.written = "npmplus")
    => \A l \in Live : l.meta.owner = Us

\* A host copied or given another domain in the UI is nobody's, as long as its
\* marker line is there, damaged or not: no run will take it for an orphan.
CopiesAreNotOurs ==
  \A s \in Hosts(OtherKey) :
    s.adv.broken \/ s.adv.marks # {} => Decode(s).meta.owner # Us

\* The group of a host, and whether the write under way may replace the group g:
\* the labels it has read set one; or it has listed the host in another group; or
\* it has listed no such group, and its body carries the meta object, which the
\* server stores as a whole.
Group(s) == Decode(s).meta.dir
Overrules(g) ==
  LET listed == {l.meta.dir : l \in run.live}
  IN  \/ run.target.group # Unset
      \/ listed \notin {{}, {Unset}, {g}}
      \/ listed # {g} /\ Accepts(dialect, run.target.kind, "meta")

\* The group of a host (AdoptServerState, columnsFor, the migration into a
\* column) changes only when someone picks another, or by the write of a run
\* that overrules it.  So a group picked in the UI stays when a run has listed
\* it; and where groups are in a column, also one picked for a host without a
\* group while a run holds the old listing.
PickedGroupStays ==
  [][\A s \in hosts, t \in hosts' :
       s.key = t.key => \/ Group(s) \in {Unset, ""} \/ Group(t) = Group(s)
                        \/ Regroup(s) \/ (Apply /\ Overrules(Group(s)))]_vars

\* docs/LABELS.md:185: without a group in the labels "the current group is kept
\* - including one picked in the UI".  A run that has listed the host before
\* takes the pick back.
PicksAreKept ==
  [][\A s \in hosts, t \in hosts' :
       s.key = t.key => \/ Group(s) \in {Unset, ""} \/ Group(t) = Group(s)
                        \/ Regroup(s) \/ (Apply /\ run.target.group # Unset)]_vars

\* The certificate of the labelled host before and after a step.
CertAt(H, key) == IF \E s \in H : s.key = key THEN (CHOOSE s \in H : s.key = key).cert ELSE 0
Fits(id, list, domains) == id \in Candidates(domains, list, server.now)
Wanting(t, list) ==
  IF Partial = "none" \/ Candidates(t.doms, list, server.now) # {} THEN t.doms ELSE {t.primary}

\* A run moves a host that chooses for itself only to a certificate in a
\* strictly better class, or away from one that does not fit any more.
CertificatesDoNotShuffle ==
  [][Apply =>
      LET t == run.target
          was == Current(run.live)
          is == CertAt(hosts', t.key)
          D == Wanting(t, worker.certs)
      IN  hosts' # hosts /\ t.cert.mode = "auto" /\ Fits(was, worker.certs, D) /\ is # was
            => classify(worker.certs[is], D) < classify(worker.certs[was], D)]_vars

Stripped(H) ==
  LET t == run.target
      is == CertAt(H, t.key)
  IN  /\ t.cert.mode = "auto" /\ Partial = "primary"
      /\ Fits(Current(run.live), server.certs, {t.primary})
      /\ is = NoCertificate \/ ~usable(worker.certs[is], server.now)

\* No run takes the certificate from a host while it fits, once the process has
\* read a list with it: a list that cannot be read strips nothing.
KeepsCertificate ==
  [][Apply /\ hosts' # hosts /\ Current(run.live) \in worker.known => ~Stripped(hosts')]_vars

\* The comment of loadCertificates: a certificate list that cannot be read must
\* not strip every host of its certificate.
UnreadableListStripsNothing ==
  [][Apply /\ hosts' # hosts => ~Stripped(hosts')]_vars

\* While the labels name an access list, a run never leaves the host without
\* one, whatever is renamed, deleted or cannot be read.
NeverOpened ==
  [][Apply /\ hosts' # hosts /\ run.target.names # {} =>
      \A s \in hosts' : s.key = run.target.key => s.lists[1] # {}]_vars

\* A certificate that fits reaches the host that asks for the best one, and an
\* expired or deleted one is replaced.
CertificateArrives ==
  <>[](LET fitting == Candidates({target.primary}, server.certs, server.now)
           written == \E r \in {Desired(target, Live, worker, dialect)} : ~PayloadFails(r, dialect)
       IN  target.cert.mode = "auto" /\ Partial = "primary" /\ fitting # {}
             /\ ~Skipped(target, Live, worker) /\ written
               => CertAt(hosts, target.key) \in fitting)

\* docs/LABELS.md: with NPM_CERTIFICATE_AUTO_CREATE a certificate is requested
\* where none fits.
RequestedWhereNoneFits ==
  <>[](target.cert.mode = "auto" /\ AutoCreate
        => LET c == CertAt(hosts, target.key)
           IN  c \in Candidates({target.primary}, server.certs, server.now))

===========================================================================
