--------------------------- MODULE HostSyncProofs ---------------------------
(***************************************************************************)
(* Proofs about one labelled host and its copies, for all targets,         *)
(* releases and certificates, and every number of upgrades, edits in the   *)
(* UI, restarts and lists that cannot be read: whose a host is, the access *)
(* lists, group and certificate it keeps, that no write is refused, that   *)
(* what is written is what the next run would write, and the types.        *)
(***************************************************************************)
EXTENDS HostSync, FiniteSetTheorems, TLAPS

\* What the arguments below need to know of a stored host.
Shape(s) == /\ {"key", "adv", "column", "meta"} \subseteq DOMAIN s
            /\ {"marks", "broken"} \subseteq DOMAIN s.adv
            /\ {"owner", "dir"} \subseteq DOMAIN s.meta

\* No marker line names the key of a copy: the worker writes markers only for
\* the keys of its targets.
Sound(s) == Shape(s) /\ \A m \in s.adv.marks : m.key # OtherKey

\* The inductive invariant: CopiesAreNotOurs says nothing of the labelled host,
\* from which the next copy is made.
IInv == /\ {target, run.target} \subseteq Targets
        /\ \A s \in hosts : Sound(s)

---------------------------------------------------------------------------
(* What the operators keep.                                                *)

\* A stored host keeps its key, and has the access lists and at most the marker
\* of the request or the marker it had.
LEMMA StoreKeeps ==
  ASSUME NEW release, NEW old, NEW p, NEW cert
  PROVE  LET s == Store(release, old, p, cert)
         IN  /\ {"key", "adv", "column", "meta"} \subseteq DOMAIN s
             /\ s.key = old.key
             /\ s.adv \in {old.adv, p.adv}
             /\ s.lists[1] = p.lists[1]
             /\ s.meta = IF "meta" \in p.fields THEN p.meta ELSE old.meta
             /\ s.column = IF "npmplus_directory" \in p.fields THEN p.meta.dir
                           ELSE old.column
             /\ p.kind # "stream" \/ release \notin Upstream => s.adv = p.adv
             /\ p.kind # "stream" => s.cert = cert
BY DEF Store

\* An upgrade touches neither the key of a host nor its marker line.
LEMMA MigrateKeeps ==
  ASSUME NEW s, NEW to, Shape(s)
  PROVE  /\ Shape(Migrate(s, to))
         /\ Migrate(s, to).key = s.key
         /\ Migrate(s, to).adv = s.adv
BY DEF Migrate, Shape

\* The resource derived from a target has its kind, its key, its type of access
\* list and the access lists its names resolve to; it is ours, and in the group
\* the labels name, or else in that of the host it is compared with.
LEMMA DesiredKeeps ==
  ASSUME NEW t, NEW live, NEW w, NEW d,
         {"kind", "key", "ids", "listType", "group", "cert"} \subseteq DOMAIN t
  PROVE  LET r == Desired(t, live, w, d)
         IN  /\ r.kind = t.kind /\ r.key = t.key
             /\ r.ids = resolveAccessLists(t, w.lists).ids
             /\ r.listType = t.listType
             /\ LET c == Certificate(t, live, w.certs)
                IN  c # NewCertificate => r.cert = c
             /\ {"owner", "dir"} \subseteq DOMAIN r.meta /\ r.meta.owner = Us
             /\ t.group = Unset =>
                  IF live = {} THEN r.meta.dir = Unset
                  ELSE \E l \in live : r.meta.dir = l.meta.dir
<1> DEFINE Has(r) == /\ {"kind", "key", "ids", "listType", "cert", "meta"} \subseteq DOMAIN r
                     /\ {"owner", "dir"} \subseteq DOMAIN r.meta
           Same(r, q) == r.kind = q.kind /\ r.key = q.key /\ r.ids = q.ids
                         /\ r.listType = q.listType
           u == [t EXCEPT !.ids = resolveAccessLists(t, w.lists).ids]
           c == Certificate(t, live, w.certs)
           b == BuildResource(u, c)
           l == CHOOSE x \in live : TRUE
<1>1. /\ u.kind = t.kind /\ u.key = t.key /\ u.listType = t.listType
      /\ u.ids = resolveAccessLists(t, w.lists).ids /\ u.group = t.group
  OBVIOUS
<1>2. Desired(t, live, w, d) = IF live = {} THEN Conform(b, d)
                              ELSE AdoptServerState(Conform(b, d), l)
  BY DEF Desired
<1> HIDE DEF u, l
<1>3. Has(b) /\ Same(b, u) /\ b.cert = c /\ b.meta.owner = Us /\ b.meta.dir = u.group
  BY DEF BuildResource, buildMeta
<1> HIDE DEF b, c
<1>4. ASSUME NEW r, Has(r), r.meta.owner = Us
      PROVE  LET q == Conform(r, d)
             IN  /\ Has(q) /\ Same(q, r) /\ q.cert = r.cert /\ q.meta.owner = Us
                 /\ r.meta.dir = Unset => q.meta.dir = Unset
  <2>1. /\ Has(stripPlus(r)) /\ Same(stripPlus(r), r) /\ stripPlus(r).cert = r.cert
        /\ stripPlus(r).meta.owner = Us /\ stripPlus(r).meta.dir = Unset
    BY <1>4 DEF stripPlus
  <2>2. QED
    BY <1>4, <2>1 DEF Conform
<1>5. ASSUME NEW r, Has(r), r.meta.owner = Us
      PROVE  LET q == AdoptServerState(r, l)
             IN  /\ Has(q) /\ Same(q, r) /\ q.meta.owner = Us
                 /\ r.cert # NewCertificate => q.cert = r.cert
                 /\ r.meta.dir = Unset => q.meta.dir = l.meta.dir
  BY <1>5 DEF AdoptServerState
<1>6. live # {} => l \in live
  BY DEF l
<1>7. QED
  BY <1>1, <1>2, <1>3, <1>4, <1>5, <1>6 DEF c

\* What a request carries: the kind and the meta object of its resource, the
\* marker of its key or none, and the access lists as they are compared.
LEMMA PayloadKeeps ==
  ASSUME NEW r, NEW d
  PROVE  LET p == Payload(r, d)
         IN  /\ p.kind = r.kind /\ p.meta = r.meta /\ p.cert = r.cert
             /\ p.fields = Body(d, r.kind) \ (ColumnFields \ columnsFor(r))
             /\ {"marks", "broken"} \subseteq DOMAIN p.adv
             /\ \A m \in p.adv.marks : m.key = r.key
             /\ CarriesMarker(d, r.kind) /\ r.meta.owner = Us =>
                  ~p.adv.broken /\ p.adv.marks = {[key |-> r.key, owner |-> Us]}
             /\ p.lists = accessLists(r)
BY DEF Payload, advancedFor

---------------------------------------------------------------------------
(* The worker.                                                             *)

\* A run that writes replaces the host of its target by what the server stores
\* of its request, and has resolved every access list the target names.
LEMMA ApplyWrites ==
  ASSUME IInv, Apply, hosts' # hosts
  PROVE  LET t == run.target
             r == Desired(t, run.live, worker, dialect)
         IN  /\ t.names \subseteq DOMAIN worker.lists
             /\ \E old, cert :
                  /\ old \in Hosts(t.key) \/ old = NoHost(r.kind, t.key)
                  /\ r.cert # NewCertificate => cert = r.cert
                  /\ hosts' = (hosts \ Hosts(t.key)) \cup
                                {Store(server.release, old, Payload(r, dialect), cert)}
<1> DEFINE t == run.target
           r == Desired(t, run.live, worker, dialect)
           p == Payload(r, dialect)
<1>1. {"kind", "key", "ids", "listType", "group", "cert"} \subseteq DOMAIN t
  BY TargetsAssumption DEF IInv
<1>2. r.key = t.key
  BY <1>1, DesiredKeeps
<1> HIDE DEF r, p
<1>3. /\ ~Skipped(t, run.live, worker)
      /\ \E old \in IF Hosts(r.key) = {} THEN {NoHost(r.kind, r.key)} ELSE Hosts(r.key) :
           Write(r, p, old)
  BY DEF Apply, r, p
<1>4. t.names \subseteq DOMAIN worker.lists
  BY <1>3 DEF Skipped, resolveAccessLists
<1>5. PICK old \in IF Hosts(r.key) = {} THEN {NoHost(r.kind, r.key)} ELSE Hosts(r.key) :
        Write(r, p, old)
  BY <1>3
<1>6. PICK cert : /\ hosts' = (hosts \ Hosts(r.key)) \cup {Store(server.release, old, p, cert)}
                  /\ p.cert # NewCertificate => cert = p.cert
  BY <1>5 DEF Write
<1>7. old \in Hosts(t.key) \/ old = NoHost(r.kind, t.key)
  BY <1>2, <1>5
<1>8. QED
  BY <1>2, <1>4, <1>6, <1>7, PayloadKeeps DEF r, p

\* A host that does not exist yet has no marker.
LEMMA NewIsSound ==
  ASSUME NEW kind, NEW key
  PROVE  LET s == NoHost(kind, key)
         IN  Sound(s) /\ s.key = key /\ s.meta.dir = Unset /\ s.column = ""
BY DEF NoHost, Sound, Shape

\* A write leaves every marker sound: it carries that of its target's key.
LEMMA ApplyKeeps == IInv /\ Apply /\ hosts' # hosts => \A s \in hosts' : Sound(s)
<1> SUFFICES ASSUME IInv, Apply, hosts' # hosts
             PROVE  \A s \in hosts' : Sound(s)
  OBVIOUS
<1> DEFINE t == run.target
           r == Desired(t, run.live, worker, dialect)
           p == Payload(r, dialect)
<1>1. /\ {"kind", "key", "ids", "listType", "group", "cert"} \subseteq DOMAIN t
      /\ t.key # OtherKey
  BY TargetsAssumption DEF IInv
<1>2. r.key = t.key /\ {"owner", "dir"} \subseteq DOMAIN r.meta
  BY <1>1, DesiredKeeps
<1> HIDE DEF r
<1>3. /\ {"marks", "broken"} \subseteq DOMAIN p.adv /\ \A m \in p.adv.marks : m.key # OtherKey
      /\ {"owner", "dir"} \subseteq DOMAIN p.meta
  BY <1>1, <1>2, PayloadKeeps
<1> HIDE DEF p
<1>4. PICK old, cert :
        /\ old \in Hosts(t.key) \/ old = NoHost(r.kind, t.key)
        /\ hosts' = (hosts \ Hosts(t.key)) \cup {Store(server.release, old, p, cert)}
  BY ApplyWrites DEF r, p
<1>5. Sound(old)
  <2>1. CASE old \in Hosts(t.key)
    BY <2>1 DEF IInv, Hosts
  <2>2. CASE old = NoHost(r.kind, t.key)
    <3>1. Sound(NoHost(r.kind, t.key))
      BY NewIsSound
    <3>2. QED
      BY <2>2, <3>1
  <2>3. QED
    BY <1>4, <2>1, <2>2
<1>6. Sound(Store(server.release, old, p, cert))
  BY <1>3, <1>5, StoreKeeps DEF Sound, Shape
<1>7. QED
  BY <1>4, <1>6 DEF IInv

---------------------------------------------------------------------------
(* Induction.                                                              *)

\* The server starts without hosts.
LEMMA InitEstablishes == Init => IInv
BY DEF Init, IInv, Idle

\* Every step keeps the invariant: copies and edits in the UI move marker lines
\* or remove them, and write none for another key.
LEMMA NextKeeps == IInv /\ [Next]_vars => IInv'
<1> SUFFICES ASSUME IInv, [Next]_vars
             PROVE  IInv'
  OBVIOUS
<1>1. target \in Targets /\ Idle.target \in Targets
  BY DEF IInv, Idle
<1>2. ASSUME NEW s, Sound(s)
      PROVE  /\ Sound([s EXCEPT !.key = OtherKey])
             /\ Sound([s EXCEPT !.adv.broken = TRUE, !.adv.marks = {}])
             /\ Sound([s EXCEPT !.adv.marks = {}])
             /\ Sound([s EXCEPT !.column = "picked"])
             /\ Sound([s EXCEPT !.meta.dir = "picked"])
  BY <1>2 DEF Sound, Shape
<1>3. ASSUME NEW certsOk, NEW listsOk, Load(certsOk, listsOk)
      PROVE  IInv'
  BY <1>1, <1>3 DEF Load, IInv
<1>4. CASE Apply
  <2>1. hosts' = hosts \/ \A s \in hosts' : Sound(s)
    BY <1>4, ApplyKeeps
  <2>2. {target, run.target}' \subseteq Targets
    BY <1>1, <1>4 DEF Apply
  <2>3. QED
    BY <2>1, <2>2 DEF IInv
<1>5. CASE Recheck \/ Restart \/ Tick \/ ListsChange \/ UNCHANGED vars
  BY <1>1, <1>5 DEF Recheck, Restart, Tick, ListsChange, vars, IInv
<1>6. ASSUME NEW t \in Targets, Relabel(t)
      PROVE  IInv'
  BY <1>6 DEF Relabel, IInv
<1>7. ASSUME NEW to \in Served, Upgrade(to)
      PROVE  IInv'
  BY <1>7, MigrateKeeps DEF Upgrade, IInv, Sound
<1>8. ASSUME NEW id, Import(id) \/ Remove(id)
      PROVE  IInv'
  BY <1>8 DEF Import, Remove, IInv
<1>9. ASSUME NEW s \in hosts, Copy(s) \/ Rename(s) \/ SpoilMarker(s) \/ Regroup(s)
      PROVE  IInv'
  <2>1. Sound(s)
    BY DEF IInv
  <2>2. QED
    BY <1>2, <1>9, <2>1 DEF Copy, Rename, SpoilMarker, Regroup, IInv
<1>10. QED
  BY <1>3, <1>4, <1>5, <1>6, <1>7, <1>8, <1>9 DEF Next

\* The invariant holds in every reachable state.
LEMMA Inductive == Spec => []IInv
BY InitEstablishes, NextKeeps, PTL DEF Spec

---------------------------------------------------------------------------
(* The theorems.                                                           *)

\* A host copied or renamed in the UI is never decoded as this worker's, as
\* long as it has a marker line, across upgrades, writes and restarts: the line
\* names another key, and liftOwnership then drops what the meta object says.
THEOREM CopiesStayForeign == Spec => []CopiesAreNotOurs
<1>1. IInv => CopiesAreNotOurs
  <2> SUFFICES ASSUME IInv, NEW s \in Hosts(OtherKey), s.adv.broken \/ s.adv.marks # {}
               PROVE  Decode(s).meta.owner # Us
    BY DEF CopiesAreNotOurs
  <2>1. s.key = OtherKey /\ \A m \in s.adv.marks : m.key # OtherKey
    BY DEF Hosts, IInv, Sound
  <2>2. Decode(s).meta.owner = liftOwnership(s.adv, s.meta.owner, s.key)[1]
    BY DEF Decode
  <2>3. liftOwnership(s.adv, s.meta.owner, s.key)[1] # Us
    BY <2>1 DEF liftOwnership, Us, Hand
  <2>4. QED
    BY <2>2, <2>3
<1>2. QED
  BY <1>1, Inductive, PTL

\* A host whose labels name an access list is never written without one: a name
\* that cannot be resolved stops the write, and the lists resolved reach what
\* the server stores.
THEOREM NamedListsProtect == Spec => NeverOpened
<1> DEFINE Guarded == Apply /\ hosts' # hosts /\ run.target.names # {} =>
                        \A s \in hosts' : s.key = run.target.key => s.lists[1] # {}
<1>1. IInv => Guarded
  <2> SUFFICES ASSUME IInv, Apply, hosts' # hosts, run.target.names # {},
                      NEW s \in hosts', s.key = run.target.key
               PROVE  s.lists[1] # {}
    OBVIOUS
  <2> DEFINE t == run.target
             r == Desired(t, run.live, worker, dialect)
             p == Payload(r, dialect)
  <2>1. /\ {"kind", "key", "ids", "listType", "group", "cert"} \subseteq DOMAIN t
        /\ t.listType # "public"
    BY TargetsAssumption DEF IInv
  <2>2. PICK old, cert :
          hosts' = (hosts \ Hosts(t.key)) \cup {Store(server.release, old, p, cert)}
    BY ApplyWrites
  <2>3. s.lists[1] = p.lists[1]
    <3>1. s \notin hosts \ Hosts(t.key)
      BY DEF Hosts
    <3>2. QED
      BY <2>2, <3>1, StoreKeeps
  <2>4. r.ids = resolveAccessLists(t, worker.lists).ids /\ r.listType = t.listType
    BY <2>1, DesiredKeeps
  <2>5. r.ids # {}
    BY <2>4, ApplyWrites DEF resolveAccessLists
  <2>6. p.lists = accessLists(r)
    BY PayloadKeeps
  <2> HIDE DEF r, p
  <2>7. accessLists(r)[1] = r.ids
    BY <2>1, <2>4, <2>5 DEF accessLists
  <2>8. QED
    BY <2>3, <2>5, <2>6, <2>7
<1>2. QED
  BY <1>1, Inductive, PTL DEF NeverOpened

---------------------------------------------------------------------------
(* Ownership and groups: what stays with the labelled host.                *)

\* The client's view is that of a release the server ran at some time, and a run
\* works on the host the labels speak of.
ViewIsReal ==
  /\ "release" \in DOMAIN server /\ server.release \in Releases
  /\ \E release \in Releases : dialect = Probe(release)
  /\ run.phase = "loaded" => run.target.kind = target.kind

\* There is one host of a key, and none but the labelled one and a copy; the
\* releases with columns have emptied every meta object.
HostsAreApart ==
  /\ \A q, s \in hosts : q.key = s.key => q = s
  /\ \A s \in hosts : s.key \in {target.key, OtherKey}
  /\ server.release = "plusColumns" => \A s \in hosts : s.meta.dir = Unset

\* What was written where there is a place for the marker has it: the meta object
\* alone would not survive the next upgrade.
Marked(s) == ~s.adv.broken /\ s.adv.marks = {[key |-> s.key, owner |-> Us]}
WrittenIsMarked ==
  /\ "written" \in DOMAIN seen
  /\ seen.written # None /\ (target.kind = "stream" => seen.written = "npmplus") =>
       \A s \in Hosts(target.key) : Marked(s)

KInv == ViewIsReal /\ HostsAreApart /\ WrittenIsMarked

\* What the marker needs is among the properties each kind of host can carry: a
\* line in the advanced configuration, of a stream only on NPMplus.
LEMMA MarkerHasAPlace ==
  ASSUME NEW release \in Releases, NEW d, d = Probe(release), NEW kind \in Kinds,
         kind = "stream" => WrittenAs(d) = "npmplus"
  PROVE  CarriesMarker(d, kind)
<1>1. CASE d.schema # None
  <2>1. d.schema = release /\ d.flavour = FlavourOf(release)
    BY <1>1 DEF Probe, None
  <2>2. CASE kind = "stream"
    <3>1. release \notin Upstream
      BY <2>1, <2>2 DEF WrittenAs, FlavourOf
    <3>2. QED
      BY <1>1, <2>1, <2>2, <3>1 DEF CarriesMarker, AdvancedField, Accepts, Takes
  <2>3. CASE kind # "stream"
    BY <1>1, <2>3 DEF CarriesMarker, AdvancedField, Accepts, Takes
  <2>4. QED
    BY <2>2, <2>3
<1>2. CASE d.schema = None
  BY <1>2 DEF CarriesMarker, AdvancedField, Accepts, Assumes, PlusFields, LegacySwitches,
     ColumnFields
<1>3. QED
  BY <1>1, <1>2

\* No release takes the NPMplus property of a stream's marker but NPMplus.
LEMMA StreamsOfPlus ==
  ASSUME NEW r, NEW d, NEW release, r.kind = "stream", WrittenAs(d) = "npmplus",
         Payload(r, d).fields \subseteq Takes(release, "stream")
  PROVE  release \notin Upstream
<1>1. "npmplus_advanced_config" \in Payload(r, d).fields
  BY DEF Payload, Body, Fixed, ColumnFields
<1>2. release \in Upstream => "npmplus_advanced_config" \notin Takes(release, "stream")
  BY DEF Takes, Upstream, LegacySwitches
<1>3. QED
  BY <1>1, <1>2

\* What a run changes: nothing of the host, or it is replaced by what the server
\* stores of a request it takes.
Wrote(r, p, old, cert) ==
  /\ run.phase = "loaded" /\ Taken(p) /\ dialect' = dialect
  /\ hosts' = (hosts \ Hosts(run.target.key)) \cup {Store(server.release, old, p, cert)}
  /\ old \in Hosts(run.target.key) \/ old = NoHost(r.kind, run.target.key)
  /\ Hosts(run.target.key) # {} => old \in Hosts(run.target.key)
  /\ seen'.written = WrittenAs(dialect) /\ "written" \in DOMAIN seen'
LEMMA ApplyHas ==
  ASSUME IInv, KInv, Apply
  PROVE  /\ run' = Idle /\ UNCHANGED target
         /\ "release" \in DOMAIN server' /\ server'.release = server.release
         /\ \/ UNCHANGED <<hosts, seen>> /\ dialect' \in {dialect, Probe(server.release)}
            \/ LET r == Desired(run.target, run.live, worker, dialect)
               IN  \E old, cert : Wrote(r, Payload(r, dialect), old, cert)
<1> DEFINE t == run.target
           r == Desired(t, run.live, worker, dialect)
           p == Payload(r, dialect)
<1>1. {"kind", "key", "ids", "listType", "group", "cert"} \subseteq DOMAIN t
  BY TargetsAssumption DEF IInv
<1>2. r.key = t.key
  BY <1>1, DesiredKeeps
<1>3. /\ "release" \in DOMAIN server /\ "written" \in DOMAIN seen
      /\ run' = Idle /\ UNCHANGED target /\ run.phase = "loaded"
  BY DEF KInv, ViewIsReal, WrittenIsMarked, Apply
<1> HIDE DEF r, p
<1>4. \/ UNCHANGED <<hosts, server, seen, dialect>>
      \/ \E old \in IF Hosts(r.key) = {} THEN {NoHost(r.kind, r.key)} ELSE Hosts(r.key) :
           Write(r, p, old)
  BY DEF Apply, r, p
<1>5. ASSUME NEW old \in IF Hosts(r.key) = {} THEN {NoHost(r.kind, r.key)} ELSE Hosts(r.key),
             Write(r, p, old), Taken(p)
      PROVE  /\ "release" \in DOMAIN server' /\ server'.release = server.release
             /\ \E cert : Wrote(r, p, old, cert)
  <2>1. "release" \in DOMAIN server' /\ server'.release = server.release
    BY <1>3, <1>5 DEF Write
  <2>2. /\ seen'.written = WrittenAs(dialect)
        /\ "written" \in DOMAIN seen' /\ dialect' = dialect
    BY <1>3, <1>5 DEF Write
  <2>3. PICK cert : hosts' = (hosts \ Hosts(r.key)) \cup {Store(server.release, old, p, cert)}
    BY <1>5 DEF Write
  <2>4. /\ old \in Hosts(t.key) \/ old = NoHost(r.kind, t.key)
        /\ Hosts(t.key) # {} => old \in Hosts(t.key)
    BY <1>2, <1>5
  <2>5. QED
    BY <1>2, <1>3, <1>5, <2>1, <2>2, <2>3, <2>4 DEF Wrote
<1>6. ASSUME NEW old, Write(r, p, old), ~Taken(p)
      PROVE  UNCHANGED <<hosts, seen, server>> /\ dialect' = Probe(server.release)
  BY <1>6 DEF Write
<1>7. QED
  BY <1>3, <1>4, <1>5, <1>6 DEF r, p

\* A run works on the labelled host, also when the labels changed meanwhile.
LEMMA SameHost ==
  ASSUME IInv, KInv, run.phase = "loaded"
  PROVE  run.target.key = target.key /\ target.key # OtherKey /\ target.kind \in Kinds
BY TargetsAssumption DEF IInv, KInv, ViewIsReal

LEMMA KInvInit == Init => KInv
<1> SUFFICES ASSUME Init PROVE KInv
  OBVIOUS
<1>1. /\ "release" \in DOMAIN server /\ server.release \in Releases
      /\ dialect = Probe(server.release) /\ run.phase = "idle" /\ hosts = {}
      /\ seen.written = None
      /\ "written" \in DOMAIN seen
  BY HostAssumption DEF Init, Idle, Unseen
<1>2. QED
  BY <1>1 DEF KInv, ViewIsReal, HostsAreApart, WrittenIsMarked, Hosts

\* The release and the client's view of it change together with nothing else.
LEMMA ViewStep == IInv /\ KInv /\ [Next]_vars => ViewIsReal'
<1> SUFFICES ASSUME IInv, KInv, [Next]_vars PROVE ViewIsReal'
  OBVIOUS
<1>1. /\ "release" \in DOMAIN server /\ server.release \in Releases
      /\ \E release \in Releases : dialect = Probe(release)
      /\ run.phase = "loaded" => run.target.kind = target.kind
      /\ Idle.phase = "idle"
  BY DEF KInv, ViewIsReal, Idle
<1>2. ASSUME NEW certsOk, NEW listsOk, Load(certsOk, listsOk) PROVE ViewIsReal'
  BY <1>1, <1>2 DEF Load, ViewIsReal
<1>3. CASE Apply
  BY <1>1, <1>3, ApplyHas DEF ViewIsReal, Wrote
<1>4. CASE Recheck \/ Restart \/ UNCHANGED vars
  BY <1>1, <1>4 DEF Recheck, Restart, vars, ViewIsReal
<1>5. CASE Tick \/ ListsChange
  BY <1>1, <1>5 DEF Tick, ListsChange, ViewIsReal
<1>6. ASSUME NEW t \in Targets, Relabel(t) PROVE ViewIsReal'
  BY <1>1, <1>6 DEF Relabel, ViewIsReal
<1>7. ASSUME NEW to \in Served, Upgrade(to) PROVE ViewIsReal'
  BY <1>1, <1>7, HostAssumption DEF Upgrade, ViewIsReal
<1>8. ASSUME NEW id, Import(id) \/ Remove(id) PROVE ViewIsReal'
  BY <1>1, <1>8 DEF Import, Remove, ViewIsReal
<1>9. ASSUME NEW s \in hosts, Copy(s) \/ Rename(s) \/ SpoilMarker(s) \/ Regroup(s)
      PROVE  ViewIsReal'
  BY <1>1, <1>9 DEF Copy, Rename, SpoilMarker, Regroup, ViewIsReal
<1>10. QED
  BY <1>2, <1>3, <1>4, <1>5, <1>6, <1>7, <1>8, <1>9 DEF Next

\* What the UI makes of a host.
LEMMA EditsKeep ==
  ASSUME NEW s, Shape(s)
  PROVE  /\ LET q == [s EXCEPT !.key = OtherKey]
            IN  q.key = OtherKey /\ q.meta = s.meta /\ q.adv = s.adv
         /\ \A q \in {[s EXCEPT !.adv.broken = TRUE, !.adv.marks = {}],
                      [s EXCEPT !.adv.marks = {}]} :
              q.key = s.key /\ q.meta = s.meta /\ q.column = s.column
         /\ LET q == [s EXCEPT !.column = "picked"]
            IN  /\ q.key = s.key /\ q.meta = s.meta /\ q.adv = s.adv
                /\ q.column = "picked"
         /\ LET q == [s EXCEPT !.meta.dir = "picked"]
            IN  q.key = s.key /\ q.adv = s.adv /\ q.meta.dir = "picked"
BY DEF Shape

\* What a damaged marker leaves of the host's place.
LEMMA SpoiltKeeps ==
  ASSUME NEW s, Shape(s), SpoilMarker(s)
  PROVE  \E q : /\ hosts' = (hosts \ {s}) \cup {q} /\ q.key = s.key
                /\ q.meta = s.meta /\ q.column = s.column
<1> DEFINE broken == [s EXCEPT !.adv.broken = TRUE, !.adv.marks = {}]
           bare == [s EXCEPT !.adv.marks = {}]
<1>1. /\ broken.key = s.key /\ broken.meta = s.meta /\ broken.column = s.column
      /\ bare.key = s.key /\ bare.meta = s.meta /\ bare.column = s.column
  BY EditsKeep
<1>2. hosts' = (hosts \ {s}) \cup {broken} \/ hosts' = (hosts \ {s}) \cup {bare}
  BY DEF SpoilMarker
<1> HIDE DEF broken, bare
<1>3. QED
  BY <1>1, <1>2

\* What a group picked in the UI leaves of the host's place.
LEMMA RegroupedKeeps ==
  ASSUME NEW s, Shape(s), Regroup(s)
  PROVE  \E q : /\ hosts' = (hosts \ {s}) \cup {q} /\ q.key = s.key
                /\ server.release = "plusColumns" => q.meta = s.meta
<1> DEFINE col == [s EXCEPT !.column = "picked"]
           obj == [s EXCEPT !.meta.dir = "picked"]
<1>1. col.key = s.key /\ col.meta = s.meta /\ obj.key = s.key
  BY EditsKeep
<1>2. hosts' = (hosts \ {s}) \cup {IF server.release = "plusColumns" THEN col ELSE obj}
  BY DEF Regroup
<1> HIDE DEF col, obj
<1>3. CASE server.release = "plusColumns"
  BY <1>1, <1>2, <1>3
<1>4. CASE server.release # "plusColumns"
  BY <1>1, <1>2, <1>4
<1>5. QED
  BY <1>3, <1>4

\* What an upgrade makes of a host: the same one, with its group where the new
\* release keeps it.
LEMMA UpgradeKeeps ==
  ASSUME NEW s, NEW to \in Releases, Shape(s)
  PROVE  LET q == Migrate(s, to)
         IN  /\ q.key = s.key /\ q.adv = s.adv
             /\ \/ q.meta = s.meta /\ q.column = s.column
                \/ q.meta.dir = Unset /\ q.column = IF s.meta.dir = Unset THEN s.column
                                                    ELSE s.meta.dir
             /\ to = "plusColumns" => q.meta.dir = Unset
<1>1. CASE to \in Upstream
  BY <1>1 DEF Migrate, Upstream
<1>2. CASE to = "plusMeta"
  BY <1>2 DEF Migrate, Upstream, Shape
<1>3. CASE to = "plusColumns"
  BY <1>3 DEF Migrate, Upstream, Shape
<1>4. QED
  BY <1>1, <1>2, <1>3 DEF Releases, Upstream

\* One host a key, and the release decides where groups are kept.
LEMMA ApartStep == IInv /\ KInv /\ [Next]_vars => HostsAreApart'
<1> SUFFICES ASSUME IInv, KInv, [Next]_vars PROVE HostsAreApart'
  OBVIOUS
<1>1. /\ \A q, s \in hosts : q.key = s.key => q = s
      /\ \A s \in hosts : s.key \in {target.key, OtherKey} /\ Shape(s)
      /\ server.release = "plusColumns" => \A s \in hosts : s.meta.dir = Unset
      /\ server.release \in Releases /\ "release" \in DOMAIN server
  BY DEF KInv, HostsAreApart, ViewIsReal, IInv, Sound
<1>2. ASSUME NEW certsOk, NEW listsOk, Load(certsOk, listsOk) PROVE HostsAreApart'
  BY <1>1, <1>2 DEF Load, HostsAreApart
<1>3. CASE Apply
  <2>1. UNCHANGED target /\ server'.release = server.release
    BY <1>3, ApplyHas
  <2>2. CASE UNCHANGED hosts
    BY <1>1, <2>1, <2>2 DEF HostsAreApart
  <2>3. ASSUME NEW old, NEW cert, NEW r, Wrote(r, Payload(r, dialect), old, cert)
        PROVE  HostsAreApart'
    <3> DEFINE p == Payload(r, dialect)
               new == Store(server.release, old, p, cert)
    <3>1. /\ hosts' = (hosts \ Hosts(run.target.key)) \cup {new}
          /\ old \in Hosts(run.target.key) \/ old = NoHost(r.kind, run.target.key)
          /\ Taken(p) /\ run.phase = "loaded"
      BY <2>3 DEF Wrote
    <3>2. run.target.key = target.key
      BY <3>1, SameHost
    <3>3. old.key = target.key /\ (server.release = "plusColumns" => old.meta.dir = Unset)
      <4>1. CASE old \in Hosts(target.key)
        BY <1>1, <4>1 DEF Hosts
      <4>2. CASE old = NoHost(r.kind, target.key)
        <5> DEFINE new0 == NoHost(r.kind, target.key)
        <5>1. new0.key = target.key /\ new0.meta.dir = Unset
          BY NewIsSound
        <5> HIDE DEF new0
        <5>2. QED
          BY <4>2, <5>1 DEF new0
      <4>3. QED
        BY <3>1, <3>2, <4>1, <4>2
    <3>4. server.release = "plusColumns" => "meta" \notin p.fields
      BY <3>1 DEF Taken, Takes, LegacySwitches, Upstream
    <3> HIDE DEF p
    <3>5. new.key = target.key /\ (server.release = "plusColumns" => new.meta.dir = Unset)
      BY <3>3, <3>4, StoreKeeps
    <3> HIDE DEF new
    <3>6. \A s \in hosts' : s = new \/ (s \in hosts /\ s.key # target.key)
      BY <3>1, <3>2 DEF Hosts
    <3>7. QED
      BY <1>1, <2>1, <3>5, <3>6 DEF HostsAreApart
  <2>4. QED
    BY <1>3, <2>2, <2>3, ApplyHas
<1>4. CASE Recheck \/ Restart \/ UNCHANGED vars
  BY <1>1, <1>4 DEF Recheck, Restart, vars, HostsAreApart
<1>5. CASE Tick \/ ListsChange
  BY <1>1, <1>5 DEF Tick, ListsChange, HostsAreApart
<1>6. ASSUME NEW t \in Targets, Relabel(t) PROVE HostsAreApart'
  <2>1. t.key = target.key /\ target' = t /\ UNCHANGED <<hosts, server>>
    BY <1>6, TargetsAssumption DEF Relabel, IInv
  <2>2. QED
    BY <1>1, <2>1 DEF HostsAreApart
<1>7. ASSUME NEW to \in Served, Upgrade(to) PROVE HostsAreApart'
  <2>1. /\ hosts' = {Migrate(s, to) : s \in hosts} /\ server'.release = to
        /\ UNCHANGED target /\ to \in Releases
    BY <1>1, <1>7, HostAssumption DEF Upgrade
  <2>2. \A s \in hosts : /\ Migrate(s, to).key = s.key
                         /\ to = "plusColumns" => Migrate(s, to).meta.dir = Unset
    BY <1>1, <2>1, UpgradeKeeps
  <2>3. QED
    BY <1>1, <2>1, <2>2 DEF HostsAreApart
<1>8. ASSUME NEW id, Import(id) \/ Remove(id) PROVE HostsAreApart'
  BY <1>1, <1>8 DEF Import, Remove, HostsAreApart
<1>9. ASSUME NEW s \in hosts, Copy(s) \/ Rename(s) PROVE HostsAreApart'
  <2> DEFINE q == [s EXCEPT !.key = OtherKey]
  <2>1. q.key = OtherKey /\ q.meta = s.meta
    BY <1>1, EditsKeep
  <2>2. /\ hosts' \in {hosts \cup {q}, (hosts \ {s}) \cup {q}}
        /\ UNCHANGED <<server, target>>
        /\ \A x \in hosts : x.key # OtherKey
    BY <1>9 DEF Copy, Rename, Hosts
  <2> HIDE DEF q
  <2>3. QED
    BY <1>1, <2>1, <2>2 DEF HostsAreApart
<1>10. ASSUME NEW s \in hosts, SpoilMarker(s) \/ Regroup(s) PROVE HostsAreApart'
  <2>1. /\ UNCHANGED <<server, target>>
        /\ \E q : /\ hosts' = (hosts \ {s}) \cup {q} /\ q.key = s.key
                  /\ server.release = "plusColumns" => q.meta = s.meta
    <3>1. Shape(s) /\ UNCHANGED <<server, target>>
      BY <1>1, <1>10 DEF SpoilMarker, Regroup
    <3>2. CASE SpoilMarker(s)
      BY <3>1, <3>2, SpoiltKeeps
    <3>3. CASE Regroup(s)
      BY <3>1, <3>3, RegroupedKeeps
    <3>4. QED
      BY <1>10, <3>1, <3>2, <3>3
  <2>2. PICK q : /\ hosts' = (hosts \ {s}) \cup {q} /\ q.key = s.key
                 /\ server.release = "plusColumns" => q.meta = s.meta
    BY <2>1
  <2>3. \A x \in hosts' : x = q \/ (x \in hosts /\ x # s)
    BY <2>2
  <2>4. QED
    BY <1>1, <2>1, <2>2, <2>3 DEF HostsAreApart
<1>11. QED
  BY <1>2, <1>3, <1>4, <1>5, <1>6, <1>7, <1>8, <1>9, <1>10 DEF Next

\* What a run stores of the labelled host has the marker, where it has a place.
LEMMA WroteMarks ==
  ASSUME IInv, KInv, NEW old, NEW cert,
         LET r == Desired(run.target, run.live, worker, dialect)
         IN  Wrote(r, Payload(r, dialect), old, cert),
         target.kind = "stream" => WrittenAs(dialect) = "npmplus"
  PROVE  \A s \in hosts' : s.key = target.key => Marked(s)
<1> DEFINE t == run.target
           r == Desired(t, run.live, worker, dialect)
           p == Payload(r, dialect)
           new == Store(server.release, old, p, cert)
<1>1. /\ run.phase = "loaded" /\ Taken(p) /\ hosts' = (hosts \ Hosts(t.key)) \cup {new}
      /\ old \in Hosts(t.key) \/ old = NoHost(r.kind, t.key)
  BY DEF Wrote
<1>2. t.key = target.key /\ t.kind = target.kind /\ t.kind \in Kinds
  BY <1>1, SameHost DEF KInv, ViewIsReal
<1>3. r.kind = t.kind /\ r.key = t.key /\ r.meta.owner = Us
  <2>1. {"kind", "key", "ids", "listType", "group", "cert"} \subseteq DOMAIN t
    BY TargetsAssumption DEF IInv
  <2>2. QED
    BY <2>1, DesiredKeeps
<1> HIDE DEF r
<1>4. CarriesMarker(dialect, r.kind)
  <2>1. PICK release \in Releases : dialect = Probe(release)
    BY DEF KInv, ViewIsReal
  <2>2. QED
    BY <1>2, <1>3, <2>1, MarkerHasAPlace
<1>5. ~p.adv.broken /\ p.adv.marks = {[key |-> target.key, owner |-> Us]} /\ p.kind = r.kind
  BY <1>2, <1>3, <1>4, PayloadKeeps
<1>6. r.kind = "stream" => server.release \notin Upstream
  BY <1>1, <1>2, <1>3, <1>5, StreamsOfPlus DEF Taken
<1>7. old.key = target.key
  <2>1. CASE old \in Hosts(t.key)
    BY <1>2, <2>1 DEF Hosts
  <2>2. CASE old = NoHost(r.kind, t.key)
    <3>1. NoHost(r.kind, t.key).key = t.key
      BY NewIsSound
    <3>2. QED
      BY <1>2, <2>2, <3>1
  <2>3. QED
    BY <1>1, <2>1, <2>2
<1> HIDE DEF p
<1>8. new.key = target.key /\ new.adv = p.adv
  BY <1>5, <1>6, <1>7, StoreKeeps
<1> HIDE DEF new
<1>9. Marked(new)
  BY <1>5, <1>8 DEF Marked
<1>10. QED
  BY <1>1, <1>2, <1>9 DEF Hosts

\* The marker goes when the UI takes it away, and with the host.
LEMMA WrittenStep == IInv /\ KInv /\ [Next]_vars => WrittenIsMarked'
<1> SUFFICES ASSUME IInv, KInv, [Next]_vars PROVE WrittenIsMarked'
  OBVIOUS
<1>1. /\ "written" \in DOMAIN seen
      /\ seen.written # None /\ (target.kind = "stream" => seen.written = "npmplus") =>
           \A s \in hosts : s.key = target.key => Marked(s)
      /\ \A s \in hosts : Shape(s)
      /\ target.key # OtherKey
  BY TargetsAssumption DEF KInv, WrittenIsMarked, IInv, Sound, Hosts
<1> DEFINE Same == /\ "written" \in DOMAIN seen'
                   /\ seen'.written = seen.written
                   /\ target'.kind = target.kind /\ target'.key = target.key
<1>2. ASSUME Same, \A s \in hosts' : s.key = target.key /\ ~Marked(s) =>
                     \E q \in hosts : q.key = target.key /\ ~Marked(q)
      PROVE  WrittenIsMarked'
  BY <1>1, <1>2 DEF WrittenIsMarked, Hosts
<1>3. ASSUME "written" \in DOMAIN seen', seen'.written = None
      PROVE  WrittenIsMarked'
  BY <1>3 DEF WrittenIsMarked
<1>4. ASSUME NEW certsOk, NEW listsOk, Load(certsOk, listsOk) PROVE WrittenIsMarked'
  BY <1>1, <1>2, <1>4 DEF Load
<1>5. CASE Apply
  <2>1. CASE UNCHANGED <<hosts, seen>>
    BY <1>1, <1>2, <1>5, <2>1, ApplyHas
  <2>2. ASSUME NEW old, NEW cert,
               LET r == Desired(run.target, run.live, worker, dialect)
               IN  Wrote(r, Payload(r, dialect), old, cert)
        PROVE  WrittenIsMarked'
    <3>1. /\ seen'.written = WrittenAs(dialect) /\ UNCHANGED target
          /\ "written" \in DOMAIN seen'
      BY <1>5, <2>2, ApplyHas DEF Wrote
    <3>2. CASE target.kind = "stream" => WrittenAs(dialect) = "npmplus"
      BY <2>2, <3>1, <3>2, WroteMarks DEF WrittenIsMarked, Hosts
    <3>3. CASE ~(target.kind = "stream" => WrittenAs(dialect) = "npmplus")
      BY <3>1, <3>3 DEF WrittenIsMarked
    <3>4. QED
      BY <3>2, <3>3
  <2>3. QED
    BY <1>5, <2>1, <2>2, ApplyHas
<1>6. CASE Recheck \/ Restart \/ Tick \/ ListsChange \/ UNCHANGED vars
  BY <1>1, <1>2, <1>6 DEF Recheck, Restart, Tick, ListsChange, vars, Changed
<1>7. ASSUME NEW t \in Targets, Relabel(t) PROVE WrittenIsMarked'
  <2>1. t.key = target.key /\ t.kind = target.kind
    BY <1>7, TargetsAssumption DEF Relabel, IInv
  <2>2. Same /\ UNCHANGED hosts
    BY <1>1, <1>7, <2>1 DEF Relabel, Changed
  <2>3. QED
    BY <1>2, <2>2
<1>8. ASSUME NEW to \in Served, Upgrade(to) PROVE WrittenIsMarked'
  <2>1. Same /\ hosts' = {Migrate(s, to) : s \in hosts} /\ to \in Releases
    BY <1>1, <1>8, HostAssumption DEF Upgrade, Changed
  <2>2. \A s \in hosts : Migrate(s, to).key = s.key /\ Migrate(s, to).adv = s.adv
    BY <1>1, MigrateKeeps
  <2>3. \A s \in hosts : ~Marked(Migrate(s, to)) => ~Marked(s)
    BY <2>2 DEF Marked
  <2>4. QED
    BY <1>2, <2>1, <2>2, <2>3
<1>9. ASSUME NEW id, Import(id) \/ Remove(id) PROVE WrittenIsMarked'
  BY <1>1, <1>2, <1>9 DEF Import, Remove, Changed
<1>10. ASSUME NEW s \in hosts, Copy(s) PROVE WrittenIsMarked'
  <2> DEFINE q == [s EXCEPT !.key = OtherKey]
  <2>1. Same /\ hosts' = hosts \cup {q}
    BY <1>1, <1>10 DEF Copy
  <2>2. q.key # target.key
    BY <1>1, EditsKeep
  <2> HIDE DEF q
  <2>3. QED
    BY <1>2, <2>1, <2>2
<1>11. ASSUME NEW s \in hosts, Rename(s) \/ SpoilMarker(s) PROVE WrittenIsMarked'
  <2>1. seen' = Unseen \/ seen' = [Changed EXCEPT !.written = None]
    BY <1>11 DEF Rename, SpoilMarker
  <2>2. "written" \in DOMAIN seen' /\ seen'.written = None
    <3>1. CASE seen' = Unseen
      BY <3>1 DEF Unseen
    <3>2. CASE seen' = [Changed EXCEPT !.written = None]
      BY <1>1, <3>2 DEF Changed
    <3>3. QED
      BY <2>1, <3>1, <3>2
  <2>3. QED
    BY <1>3, <2>2
<1>12. ASSUME NEW s \in hosts, Regroup(s) PROVE WrittenIsMarked'
  <2>1. /\ Same
        /\ \E q : hosts' = (hosts \ {s}) \cup {q} /\ q.key = s.key /\ q.adv = s.adv
    BY <1>1, <1>12, EditsKeep DEF Regroup, Changed
  <2>2. QED
    BY <1>2, <2>1 DEF Marked
<1>13. QED
  BY <1>4, <1>5, <1>6, <1>7, <1>8, <1>9, <1>10, <1>11, <1>12 DEF Next

\* The invariant of the labelled host holds in every reachable state.
LEMMA KInvInductive == Spec => [](IInv /\ KInv)
<1>1. IInv /\ KInv /\ [Next]_vars => KInv'
  BY ViewStep, ApartStep, WrittenStep DEF KInv
<1>2. QED
  BY <1>1, KInvInit, Inductive, PTL DEF Spec

\* A host written where there is a place for the marker is read back as this
\* worker's, whatever upgrades came since: its marker line is the only one, whole
\* and of its key, and liftOwnership trusts it without the meta object.
THEOREM OwnershipStays == Spec => []OwnershipSurvives
<1>1. IInv /\ KInv => OwnershipSurvives
  <2> SUFFICES ASSUME KInv, seen.written # None,
                      target.kind = "stream" => seen.written = "npmplus",
                      NEW s \in Hosts(target.key)
               PROVE  Decode(s).meta.owner = Us
    BY DEF OwnershipSurvives, Live
  <2> DEFINE m == [key |-> s.key, owner |-> Us]
  <2>1. ~s.adv.broken /\ s.adv.marks = {m}
    BY DEF KInv, WrittenIsMarked, Marked
  <2>2. Cardinality({m}) = 1 /\ (CHOOSE x \in {m} : TRUE) = m /\ {m} # {}
    BY FS_Singleton
  <2>3. m.key = s.key /\ m.owner = Us
    OBVIOUS
  <2> HIDE DEF m
  <2>4. liftOwnership(s.adv, s.meta.owner, s.key) = <<Us, TRUE>>
    BY <2>1, <2>2, <2>3 DEF liftOwnership
  <2>5. Decode(s).meta.owner = liftOwnership(s.adv, s.meta.owner, s.key)[1]
    BY DEF Decode
  <2>6. QED
    BY <2>4, <2>5
<1>2. QED
  BY <1>1, KInvInductive, PTL

\* The group of a host is the one in its meta object, or else in its column.
LEMMA GroupIsShown == \A s : Group(s) = liftDirectory(s.meta.dir, s.column)
BY DEF Group, Decode

\* A body has the meta object only when the client believes that the server
\* takes it, and the column only with a group.
LEMMA GroupIsSent ==
  ASSUME NEW r, NEW d
  PROVE  /\ "meta" \in Payload(r, d).fields => Accepts(d, r.kind, "meta")
         /\ r.meta.dir = Unset => "npmplus_directory" \notin Payload(r, d).fields
<1>1. Payload(r, d).fields = Body(d, r.kind) \ (ColumnFields \ columnsFor(r))
  BY PayloadKeeps
<1>2. "meta" \in Body(d, r.kind) => Accepts(d, r.kind, "meta")
  BY DEF Body, Fixed
<1>3. QED
  BY <1>1, <1>2 DEF ColumnFields, columnsFor

\* The resource of a run that does not overrule the group g of a host is in that
\* group; or in none, and its body does not carry the meta object.
LEMMA DesiredGroup ==
  ASSUME IInv, NEW g, ~Overrules(g)
  PROVE  LET r == Desired(run.target, run.live, worker, dialect)
         IN  \/ r.meta.dir = g
             \/ r.meta.dir = Unset /\ ~Accepts(dialect, r.kind, "meta")
<1> DEFINE t == run.target
           r == Desired(t, run.live, worker, dialect)
           listed == {l.meta.dir : l \in run.live}
<1>1. {"kind", "key", "ids", "listType", "group", "cert"} \subseteq DOMAIN t
  BY TargetsAssumption DEF IInv
<1>2. /\ t.group = Unset /\ listed \in {{}, {Unset}, {g}}
      /\ listed = {g} \/ ~Accepts(dialect, t.kind, "meta")
  BY DEF Overrules
<1>3. \A l \in run.live : l.meta.dir \in listed
  OBVIOUS
<1>4. listed = {} <=> run.live = {}
  OBVIOUS
<1> HIDE DEF listed
<1>5. /\ r.kind = t.kind
      /\ t.group = Unset => IF run.live = {} THEN r.meta.dir = Unset
                            ELSE \E l \in run.live : r.meta.dir = l.meta.dir
  BY <1>1, DesiredKeeps
<1> HIDE DEF r
<1>6. CASE listed = {g}
  BY <1>2, <1>3, <1>4, <1>5, <1>6 DEF r
<1>7. CASE listed # {g}
  BY <1>2, <1>3, <1>4, <1>5, <1>7 DEF r
<1>8. QED
  BY <1>6, <1>7

\* The write of a run that does not overrule the group of a host keeps it, in
\* the meta object or in the column.
LEMMA WrittenGroup ==
  ASSUME IInv, NEW s, NEW cert, Group(s) \notin {Unset, ""}, ~Overrules(Group(s))
  PROVE  LET r == Desired(run.target, run.live, worker, dialect)
         IN  Group(Store(server.release, s, Payload(r, dialect), cert)) = Group(s)
<1> DEFINE r == Desired(run.target, run.live, worker, dialect)
           p == Payload(r, dialect)
           new == Store(server.release, s, p, cert)
<1>1. \/ r.meta.dir = Group(s)
      \/ r.meta.dir = Unset /\ ~Accepts(dialect, r.kind, "meta")
  BY DesiredGroup
<1> HIDE DEF r
<1>2. p.meta = r.meta
  BY PayloadKeeps
<1>3. /\ "meta" \in p.fields => Accepts(dialect, r.kind, "meta")
      /\ r.meta.dir = Unset => "npmplus_directory" \notin p.fields
  BY GroupIsSent
<1> HIDE DEF p
<1>4. /\ new.meta = IF "meta" \in p.fields THEN p.meta ELSE s.meta
      /\ new.column = IF "npmplus_directory" \in p.fields THEN p.meta.dir ELSE s.column
  BY DEF Store
<1>5. /\ Group(new) = liftDirectory(new.meta.dir, new.column)
      /\ Group(s) = liftDirectory(s.meta.dir, s.column)
  BY GroupIsShown
<1> HIDE DEF new
<1>6. Group(new) = Group(s)
  <2>1. CASE r.meta.dir = Group(s) /\ "meta" \in p.fields
    BY <1>2, <1>4, <1>5, <2>1 DEF liftDirectory
  <2>2. CASE r.meta.dir = Group(s) /\ "meta" \notin p.fields
    BY <1>2, <1>4, <1>5, <2>2 DEF liftDirectory
  <2>3. CASE r.meta.dir # Group(s)
    BY <1>1, <1>3, <1>4, <1>5, <2>3
  <2>4. QED
    BY <2>1, <2>2, <2>3
<1>7. QED
  BY <1>6 DEF new, p, r

\* What a step makes of the group of a host that has one.
GroupKept(s, t) == \/ Group(s) \in {Unset, ""} \/ Group(t) = Group(s)
                   \/ Regroup(s) \/ (Apply /\ Overrules(Group(s)))

LEMMA GroupStep ==
  ASSUME IInv, KInv, [Next]_vars, NEW s \in hosts, NEW t \in hosts', s.key = t.key
  PROVE  GroupKept(s, t)
<1>1. /\ \A q, x \in hosts : q.key = x.key => q = x
      /\ \A x \in hosts : Shape(x) /\ x.key \in {target.key, OtherKey}
      /\ target.key # OtherKey
  BY TargetsAssumption DEF KInv, HostsAreApart, IInv, Sound
<1>2. ASSUME t \in hosts PROVE GroupKept(s, t)
  BY <1>1, <1>2 DEF GroupKept
<1>3. ASSUME NEW x \in hosts, NEW q, hosts' = (hosts \ {x}) \cup {q} \/ hosts' = hosts \cup {q},
             q.key = x.key, GroupKept(x, q)
      PROVE  GroupKept(s, t)
  <2>1. CASE t = q
    <3>1. s = x
      BY <1>1, <1>3, <2>1
    <3>2. QED
      BY <1>3, <2>1, <3>1
  <2>2. CASE t # q
    BY <1>2, <1>3, <2>2
  <2>3. QED
    BY <2>1, <2>2
<1>4. ASSUME NEW certsOk, NEW listsOk, Load(certsOk, listsOk) PROVE GroupKept(s, t)
  BY <1>2, <1>4 DEF Load
<1>5. CASE Apply
  <2>1. CASE UNCHANGED hosts
    BY <1>2, <2>1
  <2>2. ASSUME NEW old, NEW cert,
               LET r == Desired(run.target, run.live, worker, dialect)
               IN  Wrote(r, Payload(r, dialect), old, cert)
        PROVE  GroupKept(s, t)
    <3> DEFINE r == Desired(run.target, run.live, worker, dialect)
               new == Store(server.release, old, Payload(r, dialect), cert)
    <3>1. /\ run.phase = "loaded"
          /\ hosts' = (hosts \ Hosts(run.target.key)) \cup {new}
          /\ Hosts(run.target.key) # {} => old \in Hosts(run.target.key)
          /\ old \in Hosts(run.target.key) \/ old = NoHost(r.kind, run.target.key)
      BY <2>2 DEF Wrote
    <3>2. run.target.key = target.key
      BY <3>1, SameHost
    <3>3. CASE s.key # target.key
      <4>1. old.key = target.key
        <5> DEFINE none == NoHost(r.kind, run.target.key)
        <5>1. none.key = run.target.key
          BY NewIsSound
        <5> HIDE DEF none
        <5>2. QED
          BY <3>1, <3>2, <5>1 DEF Hosts, none
      <4>2. new.key = old.key
        BY StoreKeeps
      <4> HIDE DEF new
      <4>3. t \in hosts
        BY <3>1, <3>3, <4>1, <4>2
      <4>4. QED
        BY <1>2, <4>3
    <3>4. CASE s.key = target.key
      <4>1. old = s
        <5>1. s \in Hosts(run.target.key)
          BY <3>2, <3>4 DEF Hosts
        <5>2. QED
          BY <1>1, <3>1, <5>1 DEF Hosts
      <4>2. t = new
        <5> HIDE DEF new
        <5>1. QED
          BY <3>1, <3>2, <3>4 DEF Hosts
      <4>3. ASSUME Group(s) \notin {Unset, ""}, ~Overrules(Group(s)) PROVE Group(new) = Group(s)
        BY <4>1, <4>3, WrittenGroup
      <4> HIDE DEF new
      <4>4. QED
        BY <1>5, <4>2, <4>3 DEF GroupKept
    <3>5. QED
      BY <3>3, <3>4
  <2>3. QED
    BY <1>5, <2>1, <2>2, ApplyHas
<1>6. CASE Recheck \/ Restart \/ Tick \/ ListsChange \/ UNCHANGED vars
  BY <1>2, <1>6 DEF Recheck, Restart, Tick, ListsChange, vars
<1>7. ASSUME NEW u \in Targets, Relabel(u) PROVE GroupKept(s, t)
  BY <1>2, <1>7 DEF Relabel
<1>8. ASSUME NEW to \in Served, Upgrade(to) PROVE GroupKept(s, t)
  <2>1. hosts' = {Migrate(x, to) : x \in hosts} /\ to \in Releases
    BY <1>8, HostAssumption DEF Upgrade
  <2>2. PICK x \in hosts : t = Migrate(x, to)
    BY <2>1
  <2>3. /\ t.key = x.key
        /\ \/ t.meta = x.meta /\ t.column = x.column
           \/ t.meta.dir = Unset /\ t.column = IF x.meta.dir = Unset THEN x.column
                                               ELSE x.meta.dir
    BY <1>1, <2>1, <2>2, UpgradeKeeps
  <2>4. x = s
    BY <1>1, <2>3
  <2>5. QED
    BY <2>3, <2>4, GroupIsShown DEF GroupKept, liftDirectory
<1>9. ASSUME NEW id, Import(id) \/ Remove(id) PROVE GroupKept(s, t)
  BY <1>2, <1>9 DEF Import, Remove
<1>10. ASSUME NEW x \in hosts, Copy(x) \/ Rename(x) PROVE GroupKept(s, t)
  <2> DEFINE q == [x EXCEPT !.key = OtherKey]
  <2>1. q.key = OtherKey
    BY <1>1, EditsKeep
  <2>2. /\ hosts' \in {hosts \cup {q}, (hosts \ {x}) \cup {q}}
        /\ \A y \in hosts : y.key # OtherKey
    BY <1>10 DEF Copy, Rename, Hosts
  <2> HIDE DEF q
  <2>3. QED
    BY <1>2, <2>1, <2>2
<1>11. ASSUME NEW x \in hosts, SpoilMarker(x) PROVE GroupKept(s, t)
  <2>1. PICK q : /\ hosts' = (hosts \ {x}) \cup {q} /\ q.key = x.key
                 /\ q.meta = x.meta /\ q.column = x.column
    BY <1>1, <1>11, SpoiltKeeps
  <2>2. GroupKept(x, q)
    BY <2>1, GroupIsShown DEF GroupKept
  <2>3. QED
    BY <1>3, <2>1, <2>2
<1>12. ASSUME NEW x \in hosts, Regroup(x) PROVE GroupKept(s, t)
  <2>1. PICK q : hosts' = (hosts \ {x}) \cup {q} /\ q.key = x.key
    BY <1>1, <1>12, RegroupedKeeps
  <2>2. GroupKept(x, q)
    BY <1>12 DEF GroupKept
  <2>3. QED
    BY <1>3, <2>1, <2>2
<1>13. QED
  BY <1>4, <1>5, <1>6, <1>7, <1>8, <1>9, <1>10, <1>11, <1>12 DEF Next

\* No step but a pick in the UI and the write of a run that overrules it changes
\* the group of a host: AdoptServerState takes over the group the run has listed,
\* columnsFor leaves the column alone without one, and an upgrade moves the group
\* with the host.
THEOREM GroupStays == Spec => PickedGroupStays
<1> DEFINE Kept == \A s \in hosts, t \in hosts' :
                     s.key = t.key => \/ Group(s) \in {Unset, ""} \/ Group(t) = Group(s)
                                      \/ Regroup(s) \/ (Apply /\ Overrules(Group(s)))
<1>1. IInv /\ KInv /\ [Next]_vars => Kept
  BY GroupStep DEF GroupKept
<1>2. QED
  BY <1>1, KInvInductive, PTL DEF Spec, PickedGroupStays

\* A client that has probed a release sends no property this release does not
\* take, whether it has read a schema or goes by what it knows.
LEMMA BodyIsTaken ==
  ASSUME NEW release \in Releases, NEW kind \in Kinds
  PROVE  Body(Probe(release), kind) \subseteq Takes(release, kind)
<1> DEFINE d == Probe(release)
<1>1. /\ d.flavour = FlavourOf(release) /\ d.version = Reports(release)
      /\ d.schema = IF release \in Schemas THEN release ELSE None
      /\ release \notin Schemas => d.retired = (release = "plusColumns")
  BY DEF Probe, ShapeRetired
<1>2. WrittenAs(d) = FlavourOf(release)
  BY <1>1 DEF WrittenAs, FlavourOf
<1> HIDE DEF d
<1>3. Fixed(FlavourOf(release), kind) \subseteq Takes(release, kind)
  <2>1. CASE release \in Upstream
    <3>1. CASE kind = "proxy"
      BY <2>1, <3>1 DEF Fixed, Takes, FlavourOf, Upstream, LegacySwitches
    <3>2. CASE kind = "stream"
      <4>1. FlavourOf(release) = "npm"
        BY <2>1 DEF FlavourOf
      <4>2. Fixed("npm", "stream") = {}
        BY DEF Fixed
      <4>3. QED
        BY <3>2, <4>1, <4>2
    <3>3. CASE kind \in {"redirect", "dead"}
      BY <2>1, <3>3 DEF Fixed, Takes, FlavourOf
    <3>4. QED
      BY <3>1, <3>2, <3>3 DEF Kinds
  <2>2. CASE release \notin Upstream /\ kind = "proxy"
    BY <2>2 DEF Fixed, Takes, FlavourOf, Releases, Upstream
  <2>3. CASE release \notin Upstream /\ kind = "stream"
    BY <2>3 DEF Fixed, Takes, FlavourOf, Releases, Upstream
  <2>4. CASE release \notin Upstream /\ kind \in {"redirect", "dead"}
    BY <2>4 DEF Fixed, Takes, FlavourOf, Releases, Upstream
  <2>5. QED
    BY <2>1, <2>2, <2>3, <2>4 DEF Kinds
<1>4. ASSUME NEW f \in Optional(FlavourOf(release), kind), Accepts(d, kind, f)
      PROVE  f \in Takes(release, kind)
  <2>1. CASE release \in Schemas
    BY <1>1, <1>4, <2>1 DEF Accepts, Releases, None
  <2>2. CASE release \notin Schemas
    <3>1. Assumes(d, kind, f)
      BY <1>1, <1>4, <2>2 DEF Accepts
    <3>2. CASE release \in Upstream
      <4>1. /\ f \notin PlusFields
            /\ f = "trust_forwarded_proto" \/ (kind = "stream" /\ f = "certificate_id")
                 => release # "npm211"
        BY <1>1, <1>2, <3>1, <3>2 DEF Assumes, FlavourOf, AtLeast212, VersionShape, Reports,
           Upstream
      <4>2. QED
        BY <1>4, <3>2, <4>1 DEF Takes, Optional, FlavourOf, Upstream, Kinds, LegacySwitches,
           PlusFields
    <3>3. CASE release = "plusMeta"
      BY <1>1, <1>2, <1>4, <2>2, <3>1, <3>3 DEF Assumes, Takes, Optional, FlavourOf, Upstream,
         Kinds, LegacySwitches, ColumnFields
    <3>4. CASE release = "plusColumns"
      BY <1>1, <1>2, <1>4, <2>2, <3>1, <3>4 DEF Assumes, Takes, Optional, FlavourOf, Upstream,
         Kinds, LegacySwitches, ColumnFields
    <3>5. QED
      BY <3>2, <3>3, <3>4 DEF Releases, Upstream
  <2>3. QED
    BY <2>1, <2>2
<1>5. QED
  BY <1>2, <1>3, <1>4 DEF Body, d

\* keepSchemeFor spells "the scheme of the request" as the release does.
LEMMA SchemeIsTaken ==
  ASSUME NEW release \in Releases, NEW scheme
  PROVE  AcceptsScheme([Unread EXCEPT !.schema = release],
                       keepSchemeFor(Probe(release), scheme))
<1> DEFINE d == Probe(release)
           kept == keepSchemeFor(d, scheme)
<1>1. /\ d.flavour = FlavourOf(release)
      /\ d.schema = IF release \in Schemas THEN release ELSE None
      /\ release \notin Schemas => d.retired = (release = "plusColumns")
  BY DEF Probe, ShapeRetired
<1>2. WrittenAs(d) = FlavourOf(release) /\ release # None
  BY <1>1 DEF WrittenAs, FlavourOf, Releases, None
<1> HIDE DEF d
<1>3. release # "plusColumns" <=> AcceptsScheme(d, "auto")
  <2>1. CASE release \in Schemas
    BY <1>1, <1>2, <2>1 DEF AcceptsScheme
  <2>2. CASE release \notin Schemas /\ release \in Upstream
    BY <1>1, <1>2, <2>2 DEF AcceptsScheme, FlavourOf, Upstream
  <2>3. CASE release \notin Schemas /\ release \notin Upstream
    BY <1>1, <1>2, <2>3 DEF AcceptsScheme, FlavourOf
  <2>4. QED
    BY <2>1, <2>2, <2>3
<1>4. release \notin Upstream <=> AcceptsScheme(d, "$scheme")
  <2>1. CASE release \in Schemas
    BY <1>1, <1>2, <2>1 DEF AcceptsScheme
  <2>2. CASE release \notin Schemas /\ release \in Upstream
    <3>1. \A value : AcceptsScheme(d, value) <=> value # "$scheme"
      BY <1>1, <1>2, <2>2 DEF AcceptsScheme, FlavourOf
    <3>2. QED
      BY <2>2, <3>1
  <2>3. CASE release \notin Schemas /\ release \notin Upstream
    BY <1>1, <1>2, <2>3 DEF AcceptsScheme, FlavourOf
  <2>4. QED
    BY <2>1, <2>2, <2>3
<1>5. /\ kept = "auto" => release # "plusColumns"
      /\ kept = "$scheme" => release \notin Upstream
  BY <1>2, <1>3, <1>4 DEF keepSchemeFor, FlavourOf, Releases, Upstream
<1> HIDE DEF kept
<1>6. AcceptsScheme([Unread EXCEPT !.schema = release], kept)
  <2> DEFINE u == [Unread EXCEPT !.schema = release]
  <2>1. u.schema = release
    BY DEF Unread
  <2> HIDE DEF u
  <2>2. AcceptsScheme(u, kept)
    BY <1>2, <1>5, <2>1 DEF AcceptsScheme
  <2>3. QED
    BY <2>2 DEF u
<1>7. QED
  BY <1>6 DEF kept, d

\* No write of a client that knows the release it talks to is refused: Payload
\* and keepSchemeFor leave out or respell what this release does not take, and
\* what has no spelling fails before it is sent.
THEOREM NothingIsRefused == Spec => []WritesAreTaken
<1>1. IInv /\ KInv => WritesAreTaken
  <2> DEFINE r == Desired(run.target, run.live, worker, dialect)
             p == Payload(r, dialect)
  <2> SUFFICES ASSUME IInv, KInv, dialect = Probe(server.release), ~PayloadFails(r, dialect)
               PROVE  Taken(p)
    BY DEF WritesAreTaken
  <2>1. /\ {"kind", "key", "ids", "listType", "group", "cert"} \subseteq DOMAIN run.target
        /\ run.target.kind \in Kinds
    BY TargetsAssumption DEF IInv
  <2>2. r.kind \in Kinds /\ server.release \in Releases
    BY <2>1, DesiredKeeps DEF KInv, ViewIsReal
  <2> HIDE DEF r
  <2>3. WrittenAs(dialect) = FlavourOf(server.release)
    BY DEF Probe, WrittenAs, FlavourOf
  <2>4. /\ p.fields \subseteq Body(dialect, r.kind) /\ p.kind = r.kind
        /\ p.scheme = IF r.kind = "redirect" THEN keepSchemeFor(dialect, r.scheme) ELSE r.scheme
        /\ p.crowdOff = r.crowdOff
        /\ WrittenAs(dialect) = "npmplus" => p.reqOff = cleanForwardOptions(r)
    BY DEF Payload
  <2>5. FlavourOf(server.release) = "npm" /\ r.kind = "proxy" => r.scheme \in {"http", "https"}
    BY <2>3 DEF PayloadFails
  <2> HIDE DEF p
  <2>6. p.fields \subseteq Takes(server.release, p.kind)
    BY <2>2, <2>4, BodyIsTaken
  <2>7. p.kind = "redirect" =>
          AcceptsScheme([Unread EXCEPT !.schema = server.release], p.scheme)
    BY <2>2, <2>4, SchemeIsTaken
  <2>8. server.release = "plusColumns" => (p.reqOff => p.crowdOff)
    BY <2>3, <2>4 DEF cleanForwardOptions, FlavourOf, Upstream
  <2>9. QED
    BY <2>4, <2>5, <2>6, <2>7, <2>8 DEF Taken, TakesValue
<1>2. QED
  BY <1>1, KInvInductive, PTL

---------------------------------------------------------------------------
(* Certificates.                                                           *)

\* In a finite set ordered by R there is a first element: of the subsets without
\* one, a smallest would have one.
LEMMA FirstExists ==
  ASSUME NEW S, IsFiniteSet(S), S # {}, NEW R,
         \A a, b, c \in S : <<a, b>> \in R /\ <<b, c>> \in R => <<a, c>> \in R,
         \A a, b \in S : a # b => <<a, b>> \in R \/ <<b, a>> \in R
  PROVE  \E a \in S : \A b \in S \ {a} : <<a, b>> \in R
<1> DEFINE First(U) == \E a \in U : \A b \in U \ {a} : <<a, b>> \in R
           T == {U \in SUBSET S : U # {} /\ ~First(U)}
<1>1. SUFFICES ASSUME T # {}
               PROVE  FALSE
  OBVIOUS
<1>2. PICK U \in T : \A V \in T : <<V, U>> \notin StrictSubsetOrdering(S)
  <2>1. T \subseteq FiniteSubsetsOf(S)
    BY FS_FiniteSubsetsOfFinite
  <2> HIDE DEF T
  <2>2. QED
    BY <1>1, <2>1, FS_StrictSubsetOrderingWellFounded, WFMin
<1>3. PICK x \in U : x \in S
  OBVIOUS
<1> DEFINE V == U \ {x}
<1>4. V \notin T
  <2>1. V \subseteq U /\ V # U /\ U \subseteq S
    BY <1>3
  <2>2. V \in T => <<V, U>> \in StrictSubsetOrdering(S)
    BY <2>1 DEF StrictSubsetOrdering
  <2>3. QED
    BY <1>2, <2>2
<1>5. V = {} \/ First(V)
  BY <1>4
<1>6. CASE V = {}
  BY <1>3, <1>6
<1>7. CASE First(V)
  <2>1. PICK w \in V : \A b \in V \ {w} : <<w, b>> \in R
    BY <1>7
  <2>2. w \in S /\ w # x /\ w \in U
    BY <2>1
  <2>3. CASE <<w, x>> \in R
    <3>1. \A b \in U \ {w} : <<w, b>> \in R
      BY <2>1, <2>3
    <3>2. QED
      BY <2>2, <3>1
  <2>4. CASE <<x, w>> \in R
    <3>1. \A b \in U \ {x} : <<x, b>> \in R
      BY <1>3, <2>1, <2>2, <2>4
    <3>2. QED
      BY <1>3, <3>1
  <2>5. QED
    BY <1>3, <2>2, <2>3, <2>4
<1>8. QED
  BY <1>5, <1>6, <1>7

\* What the selection needs to know of a list of certificates.
Listed(list) ==
  /\ IsFiniteSet(DOMAIN list)
  /\ \A id \in DOMAIN list :
       /\ id \in Nat \ {0}
       /\ {"names", "provider", "deleted", "expiry"} \subseteq DOMAIN list[id]
       /\ list[id].expiry \in Nat /\ <<>> \notin list[id].names

\* best has a winner where a certificate fits, and it fits.
LEMMA WinnerFits ==
  ASSUME NEW domains, NEW list, Listed(list), NEW now, Candidates(domains, list, now) # {}
  PROVE  Winner(domains, list, now) \in Candidates(domains, list, now)
<1> DEFINE S == Candidates(domains, list, now)
           class(id) == classify(list[id], domains)
           R == {p \in S \X S : Before(p[1], p[2], domains, list)}
<1>1. S \subseteq DOMAIN list /\ IsFiniteSet(S)
  BY FS_Subset DEF Candidates, Listed
<1>2. \A id \in S : id \in Nat /\ list[id].expiry \in Nat /\ class(id) \in Nat
  <2>1. \A id \in S : class(id) \in Nat
    BY DEF classify, Unmatched, ExactOnly, ExactExtra, Mixed, Wildcard
  <2>2. QED
    BY <1>1, <2>1 DEF Listed
<1> HIDE DEF S, class
<1>3. \A a, b \in S : <<a, b>> \in R <=>
        \/ class(a) < class(b)
        \/ class(a) = class(b) /\ list[a].expiry > list[b].expiry
        \/ class(a) = class(b) /\ list[a].expiry = list[b].expiry /\ a < b
  BY DEF Before, class
<1> HIDE DEF R
<1>4. \A a, b, c \in S : <<a, b>> \in R /\ <<b, c>> \in R => <<a, c>> \in R
  BY <1>2, <1>3
<1>5. \A a, b \in S : a # b => <<a, b>> \in R \/ <<b, a>> \in R
  BY <1>2, <1>3
<1>6. S # {}
  BY DEF S
<1>7. \E a \in S : \A b \in S \ {a} : <<a, b>> \in R
  BY <1>1, <1>4, <1>5, <1>6, FirstExists
<1>8. \E a \in S : \A b \in S \ {a} : Before(a, b, domains, list)
  BY <1>3, <1>7 DEF R
<1>9. QED
  BY <1>6, <1>8 DEF Winner, S

\* best returns a certificate that fits, and another than the attached one only
\* if its class is better.
LEMMA BestFits ==
  ASSUME NEW domains, NEW list, Listed(list), NEW now, NEW current,
         Candidates(domains, list, now) # {}
  PROVE  LET id == best(domains, list, current, now)
         IN  /\ id \in Candidates(domains, list, now)
             /\ current \in Candidates(domains, list, now) /\ id # current =>
                  classify(list[id], domains) < classify(list[current], domains)
<1> DEFINE winner == Winner(domains, list, now)
<1>1. winner \in Candidates(domains, list, now)
  BY WinnerFits
<1>2. \A c : classify(c, domains) \in Nat
  BY DEF classify, Unmatched, ExactOnly, ExactExtra, Mixed, Wildcard
<1> HIDE DEF winner
<1>3. CASE /\ current \in Candidates(domains, list, now)
           /\ classify(list[current], domains) <= classify(list[winner], domains)
  BY <1>3 DEF best, winner
<1>4. CASE ~(/\ current \in Candidates(domains, list, now)
             /\ classify(list[current], domains) <= classify(list[winner], domains))
  <2>1. best(domains, list, current, now) = winner
    BY <1>4 DEF best, winner
  <2>2. QED
    BY <1>1, <1>2, <1>4, <2>1
<1>5. QED
  BY <1>3, <1>4

\* Where no certificate fits, best has none.
LEMMA BestOfNone ==
  ASSUME NEW domains, NEW list, NEW now, NEW current, Candidates(domains, list, now) = {}
  PROVE  best(domains, list, current, now) = NoCertificate
BY DEF best, Winner

\* A stream has no name a certificate could cover.
LEMMA StreamsFitNone ==
  ASSUME NEW t \in Targets, t.kind = "stream", NEW list, Listed(list)
  PROVE  Candidates(Wanting(t, list), list, server.now) = {}
<1>1. t.doms = {} /\ t.primary = <<>>
  BY TargetsAssumption
<1>2. Candidates({}, list, server.now) = {}
  BY DEF Candidates, classify
<1>3. \A id \in DOMAIN list : ~Covers(list[id], <<>>)
  BY DEF Covers, wildcardMatch, Listed
<1>4. Candidates({<<>>}, list, server.now) = {}
  BY <1>3 DEF Candidates, classify
<1>5. QED
  BY <1>1, <1>2, <1>4 DEF Wanting

\* A host that chooses for itself gets a certificate that fits what is wanted of
\* one, and another than the attached one only if its class is better.
LEMMA AutoFits ==
  ASSUME NEW t \in Targets, t.cert.mode = "auto", NEW live, NEW list, Listed(list),
         Candidates(Wanting(t, list), list, server.now) # {}
  PROVE  LET c == Certificate(t, live, list)
             D == Wanting(t, list)
         IN  /\ t.kind # "stream"
             /\ c \in Candidates(D, list, server.now) /\ c \in Nat \ {0}
             /\ Fits(Current(live), list, D) /\ c # Current(live) =>
                  classify(list[c], D) < classify(list[Current(live)], D)
<1> DEFINE now == server.now
           D == Wanting(t, list)
           c == Certificate(t, live, list)
           chosen == best(D, list, Current(live), now)
<1>1. t.kind # "stream" /\ t.doms # {} /\ t.primary \in t.doms
  BY StreamsFitNone, TargetsAssumption
<1>2. /\ chosen \in Candidates(D, list, now) /\ chosen \in Nat \ {0}
      /\ Current(live) \in Candidates(D, list, now) /\ chosen # Current(live) =>
           classify(list[chosen], D) < classify(list[Current(live)], D)
  <2>1. chosen \in Candidates(D, list, now) => chosen \in Nat \ {0}
    BY DEF Candidates, Listed
  <2>2. QED
    BY <2>1, BestFits
<1>3. c = chosen
  <2> HIDE DEF chosen
  <2>1. ASSUME Resolve(t.cert, t.doms, t.primary, list, Current(live), Partial, now) = chosen
        PROVE  c = chosen
    BY <1>2, <2>1 DEF Certificate, resolveCertificate, NoCertificate
  <2>2. CASE Candidates(t.doms, list, now) # {}
    <3>1. best(t.doms, list, Current(live), now) = chosen
      BY <2>2 DEF Wanting, chosen
    <3>2. QED
      BY <1>1, <1>2, <2>1, <3>1 DEF Resolve, NoCertificate
  <2>3. CASE Candidates(t.doms, list, now) = {}
    <3>1. best(t.doms, list, Current(live), now) = NoCertificate
      BY <2>3, BestOfNone
    <3>2. D = {t.primary} /\ Partial # "none"
      BY <2>3 DEF Wanting
    <3>3. best({t.primary}, list, Current(live), now) = chosen
      BY <3>2 DEF chosen
    <3>4. QED
      BY <1>1, <1>2, <2>1, <3>1, <3>2, <3>3 DEF Resolve
  <2>4. QED
    BY <2>2, <2>3
<1>4. QED
  BY <1>1, <1>2, <1>3 DEF Fits

\* The certificate a run derives is the one the host has after the write.
LEMMA CertIsWritten ==
  ASSUME IInv, Apply, hosts' # hosts, run.target.kind # "stream",
         Certificate(run.target, run.live, worker.certs) # NewCertificate
  PROVE  CertAt(hosts', run.target.key) = Certificate(run.target, run.live, worker.certs)
<1> DEFINE t == run.target
           r == Desired(t, run.live, worker, dialect)
           p == Payload(r, dialect)
           c == Certificate(t, run.live, worker.certs)
<1>1. {"kind", "key", "ids", "listType", "group", "cert"} \subseteq DOMAIN t
  BY TargetsAssumption DEF IInv
<1>2. r.kind = t.kind /\ r.cert = c
  BY <1>1, DesiredKeeps
<1>3. PICK old, cert :
        /\ old \in Hosts(t.key) \/ old = NoHost(r.kind, t.key)
        /\ r.cert # NewCertificate => cert = r.cert
        /\ hosts' = (hosts \ Hosts(t.key)) \cup {Store(server.release, old, p, cert)}
  BY ApplyWrites
<1>4. old.key = t.key
  <2>1. CASE old \in Hosts(t.key)
    BY <2>1 DEF Hosts
  <2>2. CASE old = NoHost(r.kind, t.key)
    <3>1. NoHost(r.kind, t.key).key = t.key
      BY NewIsSound
    <3>2. QED
      BY <2>2, <3>1
  <2>3. QED
    BY <1>3, <2>1, <2>2
<1>5. p.kind = t.kind
  BY <1>2, PayloadKeeps
<1> HIDE DEF r, p, c
<1> DEFINE new == Store(server.release, old, p, cert)
<1>6. new.key = t.key /\ new.cert = c
  BY <1>2, <1>3, <1>4, <1>5, StoreKeeps DEF c
<1> HIDE DEF new
<1>7. \A s \in hosts' : s.key = t.key <=> s = new
  BY <1>3, <1>6 DEF Hosts, new
<1>8. new \in hosts'
  BY <1>3 DEF new
<1>9. CertAt(hosts', t.key) = c
  BY <1>6, <1>7, <1>8 DEF CertAt
<1>10. QED
  BY <1>9 DEF c

\* What the process remembers of the certificates: a list it has read, of which
\* the server has since deleted some; no id is used again.
OlderThan(old, new) ==
  /\ old.names = new.names /\ old.provider = new.provider /\ old.expiry = new.expiry
  /\ old.deleted => new.deleted
ListsAreReal ==
  /\ {"certs", "gone"} \subseteq DOMAIN server /\ {"certs", "known"} \subseteq DOMAIN worker
  /\ Listed(server.certs) /\ Listed(worker.certs)
  /\ IsFiniteSet(server.gone) /\ server.gone \subseteq Nat
ListsAgree ==
  /\ worker.known = DOMAIN worker.certs
  /\ DOMAIN worker.certs \subseteq DOMAIN server.certs \cup server.gone
  /\ \A id \in DOMAIN worker.certs \cap DOMAIN server.certs :
       OlderThan(worker.certs[id], server.certs[id])
CInv == ListsAreReal /\ ListsAgree

LEMMA CInvInit == Init => CInv
<1> SUFFICES ASSUME Init PROVE CInv
  OBVIOUS
<1>1. /\ {"certs", "gone"} \subseteq DOMAIN server
      /\ server.certs = [id \in AtStart |-> CertOf[id]] /\ server.gone = {}
      /\ worker = NewProcess
  BY DEF Init
<1>2. IsFiniteSet(AtStart) /\ IsFiniteSet({}) /\ AtStart \subseteq DOMAIN CertOf
  BY HostAssumption, CertsAssumption, FS_Subset, FS_EmptySet
<1>3. Listed(server.certs)
  BY <1>1, <1>2, CertsAssumption DEF Listed
<1>4. worker.certs = Empty /\ worker.known = {} /\ {"certs", "known"} \subseteq DOMAIN worker
  BY <1>1 DEF NewProcess
<1>5. DOMAIN Empty = {}
  BY DEF Empty
<1>6. QED
  BY <1>1, <1>2, <1>3, <1>4, <1>5 DEF CInv, ListsAreReal, ListsAgree, Listed

\* The id of a certificate the server issues was never used.
LEMMA IssuedIsNew ==
  ASSUME CInv
  PROVE  Issued \in Nat \ {0} /\ Issued \notin DOMAIN server.certs \cup server.gone
<1> DEFINE S == {0} \cup DOMAIN server.certs \cup server.gone \cup DOMAIN CertOf
           R == {p \in S \X S : p[1] >= p[2]}
<1>1. S \subseteq Nat
  BY CertsAssumption DEF CInv, ListsAreReal, Listed
<1>2. IsFiniteSet(S)
  BY CertsAssumption, FS_Union, FS_Singleton DEF CInv, ListsAreReal, Listed
<1>3. Issued = Max(S) + 1
  BY DEF Issued
<1>4. DOMAIN server.certs \cup server.gone \subseteq S
  OBVIOUS
<1> HIDE DEF S
<1>5. \A a, b \in S : <<a, b>> \in R <=> a >= b
  OBVIOUS
<1> HIDE DEF R
<1>6. \A a, b, c \in S : <<a, b>> \in R /\ <<b, c>> \in R => <<a, c>> \in R
  BY <1>1, <1>5
<1>7. \A a, b \in S : a # b => <<a, b>> \in R \/ <<b, a>> \in R
  BY <1>1, <1>5
<1>8. PICK a \in S : \A b \in S : a >= b
  <2>1. PICK a \in S : \A b \in S \ {a} : <<a, b>> \in R
    <3>1. S # {}
      BY DEF S
    <3>2. QED
      BY <1>2, <1>6, <1>7, <3>1, FirstExists
  <2>2. \A b \in S \ {a} : a >= b
    BY <1>5, <2>1
  <2>3. QED
    BY <1>1, <2>2
<1>9. Max(S) \in S /\ \A b \in S : Max(S) >= b
  BY <1>8 DEF Max
<1>10. Issued \in Nat \ {0} /\ Issued \notin S
  <2> DEFINE m == Max(S)
  <2>1. m \in Nat /\ \A b \in S : b \in Nat /\ m >= b
    BY <1>1, <1>9
  <2>2. Issued = m + 1
    BY <1>3
  <2> HIDE DEF m
  <2>3. QED
    BY <2>1, <2>2
<1>11. QED
  BY <1>4, <1>10

\* A certificate added under an unused id.
LEMMA AddedIsListed ==
  ASSUME NEW list, Listed(list), NEW id \in Nat \ {0}, id \notin DOMAIN list, NEW c,
         {"names", "provider", "deleted", "expiry"} \subseteq DOMAIN c,
         c.expiry \in Nat, <<>> \notin c.names
  PROVE  LET new == With(list, id, c)
         IN  /\ Listed(new) /\ DOMAIN new = DOMAIN list \cup {id}
             /\ \A i \in DOMAIN list : new[i] = list[i]
<1> DEFINE new == With(list, id, c)
<1>1. DOMAIN new = DOMAIN list \cup {id}
  BY DEF With
<1>2. \A i \in DOMAIN list : new[i] = list[i]
  BY DEF With
<1>3. new[id] = c
  BY DEF With
<1> HIDE DEF new
<1>4. IsFiniteSet(DOMAIN new)
  BY <1>1, FS_AddElement DEF Listed
<1>5. Listed(new)
  BY <1>1, <1>2, <1>3, <1>4 DEF Listed
<1>6. QED
  BY <1>1, <1>2, <1>5 DEF new

\* A write adds at most the certificate issued for it.
LEMMA ApplyIssues ==
  ASSUME IInv, CInv, Apply
  PROVE  /\ {"certs", "gone"} \subseteq DOMAIN server' /\ {"certs", "known"} \subseteq DOMAIN worker'
         /\ worker'.certs = worker.certs /\ worker'.known = worker.known
         /\ server'.gone = server.gone
         /\ \/ server'.certs = server.certs
            \/ \E c : /\ server'.certs = With(server.certs, Issued, c)
                      /\ {"names", "provider", "deleted", "expiry"} \subseteq DOMAIN c
                      /\ c.expiry \in Nat /\ <<>> \notin c.names
<1> DEFINE Kept == /\ {"certs", "known"} \subseteq DOMAIN worker'
                   /\ worker'.certs = worker.certs /\ worker'.known = worker.known
           Grown == \E c : /\ server'.certs = With(server.certs, Issued, c)
                           /\ {"names", "provider", "deleted", "expiry"} \subseteq DOMAIN c
                           /\ c.expiry \in Nat /\ <<>> \notin c.names
           r == Desired(run.target, run.live, worker, dialect)
           p == Payload(r, dialect)
<1>1. /\ {"certs", "gone"} \subseteq DOMAIN server /\ {"certs", "known"} \subseteq DOMAIN worker
  BY DEF CInv, ListsAreReal
<1> HIDE DEF r, p
<1>2. \/ UNCHANGED <<server, worker>>
      \/ UNCHANGED server /\ worker' = [worker EXCEPT !.cache = {Fingerprint(r)}]
      \/ \E old : Write(r, p, old)
  BY DEF Apply, r, p
<1>3. ASSUME NEW old, Write(r, p, old), ~Taken(p)
      PROVE  UNCHANGED <<server, worker>>
  BY <1>3 DEF Write
<1>4. ASSUME NEW old, Write(r, p, old), Taken(p)
      PROVE  /\ Kept /\ {"certs", "gone"} \subseteq DOMAIN server' /\ server'.gone = server.gone
             /\ server'.certs = server.certs \/ Grown
  <2> DEFINE c == [names |-> run.target.doms, provider |-> "letsencrypt",
                   deleted |-> FALSE, expiry |-> MaxTime + 1, nice |-> ""]
  <2>1. Kept
    BY <1>1, <1>4 DEF Write
  <2>2. \/ UNCHANGED server
        \/ server' = [server EXCEPT !.certs = With(server.certs, Issued, c)]
    BY <1>4 DEF Write
  <2>3. /\ {"names", "provider", "deleted", "expiry"} \subseteq DOMAIN c
        /\ c.expiry \in Nat /\ <<>> \notin c.names
    BY HostAssumption, TargetsAssumption DEF IInv
  <2> HIDE DEF c
  <2>4. QED
    BY <1>1, <2>1, <2>2, <2>3
<1>5. QED
  BY <1>1, <1>2, <1>3, <1>4

\* What the server, its users and the clock make of the certificates.
LEMMA CInvStep == IInv /\ CInv /\ [Next]_vars => CInv'
<1> SUFFICES ASSUME IInv, CInv, [Next]_vars PROVE CInv'
  OBVIOUS
<1>1. /\ {"certs", "gone"} \subseteq DOMAIN server /\ {"certs", "known"} \subseteq DOMAIN worker
      /\ Listed(server.certs) /\ Listed(worker.certs)
      /\ IsFiniteSet(server.gone) /\ server.gone \subseteq Nat
      /\ ListsAgree
  BY DEF CInv, ListsAreReal
<1> DEFINE ServerKept == /\ {"certs", "gone"} \subseteq DOMAIN server'
                         /\ server'.certs = server.certs /\ server'.gone = server.gone
           WorkerKept == /\ {"certs", "known"} \subseteq DOMAIN worker'
                         /\ worker'.certs = worker.certs /\ worker'.known = worker.known
<1>2. ASSUME ServerKept, WorkerKept PROVE CInv'
  BY <1>1, <1>2 DEF CInv, ListsAreReal, ListsAgree
<1>3. ASSUME NEW id \in Nat \ {0}, id \notin DOMAIN server.certs \cup server.gone, NEW c,
             {"names", "provider", "deleted", "expiry"} \subseteq DOMAIN c,
             c.expiry \in Nat, <<>> \notin c.names, WorkerKept,
             {"certs", "gone"} \subseteq DOMAIN server',
             server'.certs = With(server.certs, id, c), server'.gone = server.gone
      PROVE  CInv'
  <2>1. /\ Listed(server'.certs) /\ DOMAIN server'.certs = DOMAIN server.certs \cup {id}
        /\ \A i \in DOMAIN server.certs : server'.certs[i] = server.certs[i]
    <3>1. id \in Nat \ {0} /\ id \notin DOMAIN server.certs /\ Listed(server.certs)
      BY <1>1, <1>3
    <3>2. /\ {"names", "provider", "deleted", "expiry"} \subseteq DOMAIN c
          /\ c.expiry \in Nat /\ <<>> \notin c.names
      BY <1>3
    <3>3. Listed(With(server.certs, id, c))
      BY <3>1, <3>2, AddedIsListed
    <3>4. server'.certs = With(server.certs, id, c)
      BY <1>3
    <3>5. QED
      BY <3>1, <3>3, <3>4 DEF With
  <2>2. id \notin DOMAIN worker.certs
    BY <1>1, <1>3 DEF ListsAgree
  <2>3. ListsAgree'
    BY <1>1, <1>3, <2>1, <2>2 DEF ListsAgree
  <2>4. QED
    BY <1>1, <1>3, <2>1, <2>3 DEF CInv, ListsAreReal
<1>4. ASSUME NEW certsOk, NEW listsOk, Load(certsOk, listsOk) PROVE CInv'
  <2>1. ServerKept /\ worker' = loadAccessLists(loadCertificates(certsOk), listsOk)
    BY <1>1, <1>4 DEF Load
  <2> DEFINE w == loadCertificates(certsOk)
  <2>2. /\ {"certs", "known"} \subseteq DOMAIN w
        /\ \/ w.certs = worker.certs /\ w.known = worker.known
           \/ w.certs = server.certs /\ w.known = DOMAIN server.certs
    BY <1>1 DEF loadCertificates
  <2> HIDE DEF w
  <2>3. {"certs", "known"} \subseteq DOMAIN worker' /\ worker'.certs = w.certs /\ worker'.known = w.known
    BY <2>1, <2>2 DEF loadAccessLists, w
  <2>4. CASE WorkerKept
    BY <1>2, <2>1, <2>4
  <2>5. CASE worker'.certs = server.certs /\ worker'.known = DOMAIN server.certs
    BY <1>1, <2>1, <2>3, <2>5 DEF CInv, ListsAreReal, ListsAgree, OlderThan
  <2>6. QED
    BY <2>2, <2>3, <2>4, <2>5
<1>5. CASE Apply
  <2>1. CASE server'.certs = server.certs
    BY <1>2, <1>5, <2>1, ApplyIssues
  <2>2. CASE server'.certs # server.certs
    BY <1>3, <1>5, <2>2, ApplyIssues, IssuedIsNew
  <2>3. QED
    BY <2>1, <2>2
<1>6. CASE Recheck \/ UNCHANGED vars
  BY <1>1, <1>2, <1>6 DEF Recheck, vars
<1>7. CASE Restart
  <2>1. ServerKept /\ worker' = NewProcess
    BY <1>1, <1>7 DEF Restart
  <2>2. /\ {"certs", "known"} \subseteq DOMAIN worker'
        /\ DOMAIN worker'.certs = {} /\ worker'.known = {}
    BY <2>1 DEF NewProcess, Empty
  <2>3. Listed(worker'.certs)
    BY <2>2, FS_EmptySet DEF Listed
  <2>4. QED
    BY <1>1, <2>1, <2>2, <2>3 DEF CInv, ListsAreReal, ListsAgree
<1>8. CASE Tick \/ ListsChange
  BY <1>1, <1>2, <1>8 DEF Tick, ListsChange
<1>9. ASSUME NEW t \in Targets, Relabel(t) PROVE CInv'
  BY <1>1, <1>2, <1>9 DEF Relabel
<1>10. ASSUME NEW to \in Served, Upgrade(to) PROVE CInv'
  BY <1>1, <1>2, <1>10 DEF Upgrade
<1>11. ASSUME NEW id \in DOMAIN CertOf, Import(id) PROVE CInv'
  <2>1. /\ id \notin DOMAIN server.certs \cup server.gone /\ WorkerKept
        /\ server' = [server EXCEPT !.certs = With(server.certs, id, CertOf[id])]
    BY <1>1, <1>11 DEF Import
  <2>2. /\ {"certs", "gone"} \subseteq DOMAIN server' /\ server'.gone = server.gone
        /\ server'.certs = With(server.certs, id, CertOf[id])
    BY <1>1, <2>1
  <2>3. QED
    BY <1>3, <2>1, <2>2, CertsAssumption
<1>12. ASSUME NEW id, Remove(id) PROVE CInv'
  <2>1. id \in DOMAIN server.certs /\ id \in Nat /\ WorkerKept
    BY <1>1, <1>12 DEF Remove, Listed
  <2>2. /\ {"certs", "gone"} \subseteq DOMAIN server' /\ server'.gone = server.gone \cup {id}
        /\ \/ server'.certs = [server.certs EXCEPT ![id].deleted = TRUE]
           \/ server'.certs = [i \in DOMAIN server.certs \ {id} |-> server.certs[i]]
    BY <1>1, <1>12 DEF Remove
  <2>3. IsFiniteSet(server'.gone) /\ server'.gone \subseteq Nat
    BY <1>1, <2>1, <2>2, FS_AddElement
  <2>4. CASE server'.certs = [server.certs EXCEPT ![id].deleted = TRUE]
    <3>1. /\ DOMAIN server'.certs = DOMAIN server.certs
          /\ \A i \in DOMAIN server.certs \ {id} : server'.certs[i] = server.certs[i]
          /\ server'.certs[id] = [server.certs[id] EXCEPT !.deleted = TRUE]
      BY <2>1, <2>4
    <3>2. {"names", "provider", "deleted", "expiry"} \subseteq DOMAIN server.certs[id]
      BY <1>1, <2>1 DEF Listed
    <3>3. /\ {"names", "provider", "deleted", "expiry"} \subseteq DOMAIN server'.certs[id]
          /\ server'.certs[id].names = server.certs[id].names
          /\ server'.certs[id].provider = server.certs[id].provider
          /\ server'.certs[id].expiry = server.certs[id].expiry
          /\ server'.certs[id].deleted
      BY <3>1, <3>2
    <3>4. Listed(server'.certs)
      BY <1>1, <2>1, <3>1, <3>3 DEF Listed
    <3>5. \A i \in DOMAIN worker.certs \cap DOMAIN server.certs :
            OlderThan(worker.certs[i], server'.certs[i])
      BY <1>1, <3>1, <3>3 DEF ListsAgree, OlderThan
    <3>6. ListsAgree'
      BY <1>1, <2>1, <2>2, <3>1, <3>5 DEF ListsAgree
    <3>7. QED
      BY <1>1, <2>1, <2>2, <2>3, <3>4, <3>6 DEF CInv, ListsAreReal
  <2>5. CASE server'.certs = [i \in DOMAIN server.certs \ {id} |-> server.certs[i]]
    <3>1. /\ DOMAIN server'.certs = DOMAIN server.certs \ {id}
          /\ \A i \in DOMAIN server'.certs : server'.certs[i] = server.certs[i]
      BY <2>5
    <3>2. Listed(server'.certs)
      BY <1>1, <3>1, FS_RemoveElement DEF Listed
    <3>3. ListsAgree'
      BY <1>1, <2>1, <2>2, <3>1 DEF ListsAgree
    <3>4. QED
      BY <1>1, <2>1, <2>2, <2>3, <3>2, <3>3 DEF CInv, ListsAreReal
  <2>6. QED
    BY <2>2, <2>4, <2>5
<1>13. ASSUME NEW s \in hosts, Copy(s) \/ Rename(s) \/ SpoilMarker(s) \/ Regroup(s)
       PROVE  CInv'
  BY <1>1, <1>2, <1>13 DEF Copy, Rename, SpoilMarker, Regroup
<1>14. QED
  BY <1>4, <1>5, <1>6, <1>7, <1>8, <1>9, <1>10, <1>11, <1>12, <1>13 DEF Next

LEMMA CInvInductive == Spec => [](IInv /\ CInv)
BY CInvInit, CInvStep, Inductive, PTL DEF Spec

\* A run moves a host that chooses for itself only to a certificate of a strictly
\* better class, or away from one that does not fit any more: best prefers the
\* attached certificate to every other of its class, so an import or a longer
\* validity shuffles no hosts.
THEOREM NoShuffling == Spec => CertificatesDoNotShuffle
<1> DEFINE Better == Apply =>
             LET t == run.target
                 was == Current(run.live)
                 is == CertAt(hosts', t.key)
                 D == Wanting(t, worker.certs)
             IN  hosts' # hosts /\ t.cert.mode = "auto" /\ Fits(was, worker.certs, D) /\ is # was
                   => classify(worker.certs[is], D) < classify(worker.certs[was], D)
<1>1. IInv /\ CInv => Better
  <2> DEFINE t == run.target
             was == Current(run.live)
             D == Wanting(t, worker.certs)
             c == Certificate(t, run.live, worker.certs)
  <2> SUFFICES ASSUME IInv, CInv, Apply, hosts' # hosts, t.cert.mode = "auto",
                      Fits(was, worker.certs, D), CertAt(hosts', t.key) # was
               PROVE  classify(worker.certs[CertAt(hosts', t.key)], D)
                        < classify(worker.certs[was], D)
    OBVIOUS
  <2>1. Candidates(D, worker.certs, server.now) # {}
    BY DEF Fits
  <2>2. /\ t.kind # "stream" /\ c \in Nat \ {0}
        /\ c # was => classify(worker.certs[c], D) < classify(worker.certs[was], D)
    BY <2>1, AutoFits DEF IInv, CInv, ListsAreReal
  <2> HIDE DEF c
  <2>3. CertAt(hosts', t.key) = c
    BY <2>2, CertIsWritten DEF c, NewCertificate
  <2>4. QED
    BY <2>2, <2>3
<1>2. QED
  BY <1>1, CInvInductive, PTL DEF CertificatesDoNotShuffle

\* No run takes the certificate from a host while it fits, once the process has
\* read a list with it: a list that cannot be read leaves the earlier one in
\* loadCertificates, and what that says of the certificate is still true.
THEOREM CertificatesAreKept == Spec => KeepsCertificate
<1> DEFINE Kept == Apply /\ hosts' # hosts /\ Current(run.live) \in worker.known
                     => ~Stripped(hosts')
<1>1. IInv /\ CInv => Kept
  <2> DEFINE t == run.target
             was == Current(run.live)
             D == Wanting(t, worker.certs)
             c == Certificate(t, run.live, worker.certs)
             is == CertAt(hosts', t.key)
  <2> SUFFICES ASSUME IInv, CInv, Apply, hosts' # hosts, was \in worker.known,
                      t.cert.mode = "auto", Partial = "primary",
                      Fits(was, server.certs, {t.primary})
               PROVE  is # NoCertificate /\ usable(worker.certs[is], server.now)
    BY DEF Stripped
  <2>1. Fits(was, worker.certs, {t.primary})
    <3>1. /\ was \in DOMAIN worker.certs /\ was \in DOMAIN server.certs
          /\ OlderThan(worker.certs[was], server.certs[was])
      BY DEF Fits, Candidates, CInv, ListsAgree
    <3>2. usable(worker.certs[was], server.now)
      BY <3>1 DEF Fits, Candidates, usable, OlderThan
    <3>3. classify(worker.certs[was], {t.primary}) # Unmatched
      BY <3>1 DEF Fits, Candidates, classify, Covers, OlderThan
    <3>4. QED
      BY <3>1, <3>2, <3>3 DEF Fits, Candidates
  <2>2. Candidates(D, worker.certs, server.now) # {}
    BY <2>1 DEF Wanting, Fits
  <2>3. t.kind # "stream" /\ c \in Nat \ {0} /\ c \in Candidates(D, worker.certs, server.now)
    BY <2>2, AutoFits DEF IInv, CInv, ListsAreReal
  <2> HIDE DEF c
  <2>4. is = c
    BY <2>3, CertIsWritten DEF c, NewCertificate
  <2>5. QED
    BY <2>3, <2>4 DEF Candidates, NoCertificate
<1>2. QED
  BY <1>1, CInvInductive, PTL DEF KeepsCertificate

---------------------------------------------------------------------------
(* What is written is what will be asked for.                              *)

\* What the arguments below need to know of a target whose access lists are
\* resolved, and of a resource.
Asks(t) ==
  /\ {"kind", "key", "cert", "doms", "primary", "forced", "hsts", "http2", "http3", "trust", "ids",
      "listType", "crowdOff", "reqOff", "frame", "loc", "scheme", "udp", "level", "user", "group",
      "email"} \subseteq DOMAIN t
  /\ {t.hsts, t.http2, t.http3, t.trust, t.crowdOff, t.reqOff, t.loc.enabled} \subseteq BOOLEAN
  /\ {"there", "enabled", "ids", "listType", "frame", "config"} \subseteq DOMAIN t.loc
Full(r) ==
  /\ {"kind", "key", "cert", "forced", "hsts", "http2", "http3", "trust", "ids", "listType",
      "crowdOff", "reqOff", "frame", "loc", "scheme", "udp", "level", "user", "meta", "marked"}
       \subseteq DOMAIN r
  /\ {"there", "enabled", "ids", "listType", "frame", "config"} \subseteq DOMAIN r.loc
  /\ {"owner", "dir", "email"} \subseteq DOMAIN r.meta

\* What is built from the labels with a certificate.
Secure(t, cert) == cert # NoCertificate /\ t.kind # "stream"
IsBuilt(r, t, cert) ==
  /\ Full(r) /\ r.kind = t.kind /\ r.key = t.key /\ r.cert = cert
  /\ r.forced = (Secure(t, cert) /\ t.forced # "no")
  /\ r.hsts = (Secure(t, cert) /\ t.forced # "no" /\ t.hsts)
  /\ r.http2 = (Secure(t, cert) /\ t.http2) /\ r.http3 = (Secure(t, cert) /\ t.http3)
  /\ r.trust = t.trust /\ r.ids = t.ids /\ r.listType = t.listType
  /\ r.crowdOff = t.crowdOff /\ r.reqOff = t.reqOff /\ r.frame = t.frame /\ r.loc = t.loc
  /\ r.scheme = t.scheme /\ r.udp = t.udp /\ r.level = t.level /\ r.user = t.user
  /\ r.meta.owner = Us /\ r.meta.dir = t.group /\ r.marked = FALSE

\* BuildResource, setting by setting.
LEMMA BuiltFields ==
  ASSUME NEW t, Asks(t), NEW cert
  PROVE  IsBuilt(BuildResource(t, cert), t, cert)
<1> DEFINE r == BuildResource(t, cert)
<1>1. /\ r.kind = t.kind /\ r.key = t.key /\ r.cert = cert
      /\ r.trust = t.trust /\ r.ids = t.ids /\ r.listType = t.listType
      /\ r.crowdOff = t.crowdOff /\ r.reqOff = t.reqOff /\ r.frame = t.frame /\ r.loc = t.loc
      /\ r.scheme = t.scheme /\ r.udp = t.udp /\ r.level = t.level /\ r.user = t.user
      /\ r.meta = buildMeta(t) /\ r.marked = FALSE
      /\ DOMAIN r = {"kind", "key", "cert", "forced", "hsts", "http2", "http3", "trust", "ids",
                     "listType", "crowdOff", "reqOff", "frame", "loc", "scheme", "udp", "level",
                     "user", "meta", "marked"}
  BY DEF BuildResource
<1>2. /\ r.forced = (Secure(t, cert) /\ t.forced # "no")
      /\ r.hsts = (Secure(t, cert) /\ t.forced # "no" /\ t.hsts)
      /\ r.http2 = (Secure(t, cert) /\ t.http2)
      /\ r.http3 = (Secure(t, cert) /\ t.http3)
  BY DEF BuildResource, normalizeSSL, Secure, Asks
<1> HIDE DEF r
<1>3. IsBuilt(r, t, cert)
  BY <1>1, <1>2 DEF IsBuilt, Full, Asks, buildMeta
<1>4. QED
  BY <1>3 DEF r

\* What of it this server can keep.
IsConform(q, r, d) ==
  LET npm == WrittenAs(d) = "npm"
  IN  /\ Full(q) /\ q.kind = r.kind /\ q.key = r.key /\ q.cert = r.cert
      /\ q.forced = r.forced /\ q.hsts = r.hsts
      /\ q.http2 = (r.http2 /\ Accepts(d, r.kind, "http2_support"))
      /\ q.http3 = (~npm /\ r.http3)
      /\ q.trust = (r.trust /\ Accepts(d, r.kind, "trust_forwarded_proto"))
      /\ q.ids = r.ids /\ q.listType = r.listType
      /\ q.crowdOff = (~npm /\ r.crowdOff) /\ q.reqOff = (~npm /\ r.reqOff)
      /\ q.frame = IF npm THEN "" ELSE r.frame
      /\ q.loc.there = r.loc.there /\ q.loc.enabled = r.loc.enabled
      /\ q.loc.ids = IF npm THEN {} ELSE r.loc.ids
      /\ q.loc.listType = IF npm THEN "" ELSE r.loc.listType
      /\ q.loc.frame = IF npm THEN "" ELSE r.loc.frame
      /\ q.loc.config = IF ~npm /\ Accepts(d, r.kind, "locations/npmplus_location_config")
                        THEN r.loc.config ELSE ""
      /\ q.scheme = IF r.kind = "redirect" THEN keepSchemeFor(d, r.scheme) ELSE r.scheme
      /\ q.udp = r.udp
      /\ q.level = LET l == IF npm THEN 0 ELSE r.level
                   IN  IF ProxyProtocolIsFlag(d) /\ l > 1 THEN 1 ELSE l
      /\ q.user = IF npm /\ r.kind = "stream" THEN "" ELSE r.user
      /\ q.meta.owner = r.meta.owner /\ q.meta.dir = IF npm THEN Unset ELSE r.meta.dir
      /\ q.marked = CarriesMarker(d, r.kind)

\* stripPlus, setting by setting.
LEMMA StripFields ==
  ASSUME NEW r, Full(r)
  PROVE  LET q == stripPlus(r)
         IN  /\ Full(q) /\ q.kind = r.kind /\ q.key = r.key /\ q.cert = r.cert
             /\ q.forced = r.forced /\ q.hsts = r.hsts /\ q.http2 = r.http2 /\ q.http3 = FALSE
             /\ q.trust = r.trust /\ q.ids = r.ids /\ q.listType = r.listType
             /\ q.crowdOff = FALSE /\ q.reqOff = FALSE /\ q.frame = ""
             /\ q.loc = stripLocation(r.loc) /\ q.scheme = r.scheme /\ q.udp = r.udp
             /\ q.level = 0 /\ q.user = IF r.kind = "stream" THEN "" ELSE r.user
             /\ q.meta.owner = r.meta.owner /\ q.meta.dir = Unset
<1>1. {"there", "enabled", "ids", "listType", "frame", "config"}
        \subseteq DOMAIN stripLocation(r.loc)
  BY DEF stripLocation, NoLocation
<1>2. QED
  BY <1>1 DEF stripPlus, Full

\* And for the location of the host.
LEMMA StripLocationFields ==
  ASSUME NEW l
  PROVE  LET k == stripLocation(l)
         IN  k.there = l.there /\ k.enabled = l.enabled /\ k.ids = {} /\ k.listType = ""
             /\ k.frame = "" /\ k.config = ""
BY DEF stripLocation, NoLocation

\* The desired resource before it is compared with a host.
Bools(r) == /\ r.http2 \in BOOLEAN /\ r.http3 \in BOOLEAN /\ r.trust \in BOOLEAN
            /\ r.crowdOff \in BOOLEAN /\ r.reqOff \in BOOLEAN

\* Conform leaves what the server takes.
LEMMA ConformFields ==
  ASSUME NEW r, Full(r), Bools(r), NEW d
  PROVE  IsConform(Conform(r, d), r, d)
<1> DEFINE npm == WrittenAs(d) = "npm"
           s == IF npm THEN stripPlus(r) ELSE r
           q == Conform(r, d)
<1>1. /\ Full(s) /\ s.kind = r.kind /\ s.key = r.key /\ s.cert = r.cert
      /\ s.forced = r.forced /\ s.hsts = r.hsts /\ s.http2 = r.http2
      /\ s.http3 = (~npm /\ r.http3)
      /\ s.trust = r.trust /\ s.ids = r.ids /\ s.listType = r.listType
      /\ s.crowdOff = (~npm /\ r.crowdOff) /\ s.reqOff = (~npm /\ r.reqOff)
      /\ s.frame = IF npm THEN "" ELSE r.frame
      /\ s.scheme = r.scheme /\ s.udp = r.udp
      /\ s.level = IF npm THEN 0 ELSE r.level
      /\ s.user = IF npm /\ r.kind = "stream" THEN "" ELSE r.user
      /\ s.meta.owner = r.meta.owner /\ s.meta.dir = IF npm THEN Unset ELSE r.meta.dir
  BY StripFields DEF Bools
<1>2. /\ s.loc.there = r.loc.there /\ s.loc.enabled = r.loc.enabled
      /\ s.loc.ids = IF npm THEN {} ELSE r.loc.ids
      /\ s.loc.listType = IF npm THEN "" ELSE r.loc.listType
      /\ s.loc.frame = IF npm THEN "" ELSE r.loc.frame
      /\ s.loc.config = IF npm THEN "" ELSE r.loc.config
  <2>1. npm => s.loc = stripLocation(r.loc)
    BY StripFields
  <2>2. ~npm => s.loc = r.loc
    OBVIOUS
  <2> HIDE DEF npm, s
  <2>3. QED
    BY <2>1, <2>2, StripLocationFields
<1>3. q = [s EXCEPT !.marked = CarriesMarker(d, r.kind),
                !.http2 = @ /\ Accepts(d, r.kind, "http2_support"),
                !.trust = @ /\ Accepts(d, r.kind, "trust_forwarded_proto"),
                !.loc.config = IF Accepts(d, r.kind, "locations/npmplus_location_config")
                               THEN @ ELSE "",
                !.scheme = IF r.kind = "redirect" THEN keepSchemeFor(d, @) ELSE @,
                !.level = IF ProxyProtocolIsFlag(d) /\ @ > 1 THEN 1 ELSE @]
  BY DEF Conform
<1> HIDE DEF s, q
<1>4. /\ q.kind = s.kind /\ q.key = s.key /\ q.cert = s.cert
      /\ q.forced = s.forced /\ q.hsts = s.hsts /\ q.http3 = s.http3
      /\ q.ids = s.ids /\ q.listType = s.listType
      /\ q.crowdOff = s.crowdOff /\ q.reqOff = s.reqOff
      /\ q.frame = s.frame /\ q.udp = s.udp /\ q.user = s.user /\ q.meta = s.meta
      /\ DOMAIN q = DOMAIN s
  BY <1>3
<1>5. /\ q.http2 = (s.http2 /\ Accepts(d, r.kind, "http2_support"))
      /\ q.trust = (s.trust /\ Accepts(d, r.kind, "trust_forwarded_proto"))
      /\ q.marked = CarriesMarker(d, r.kind)
      /\ q.scheme = IF r.kind = "redirect" THEN keepSchemeFor(d, s.scheme) ELSE s.scheme
      /\ q.level = IF ProxyProtocolIsFlag(d) /\ s.level > 1 THEN 1 ELSE s.level
  BY <1>1, <1>3 DEF Full
<1>6. q.loc = [s.loc EXCEPT !.config =
                 IF Accepts(d, r.kind, "locations/npmplus_location_config") THEN @ ELSE ""]
  BY <1>1, <1>3 DEF Full
<1>7. /\ q.loc.there = s.loc.there /\ q.loc.enabled = s.loc.enabled
      /\ q.loc.ids = s.loc.ids /\ q.loc.listType = s.loc.listType /\ q.loc.frame = s.loc.frame
      /\ q.loc.config = IF Accepts(d, r.kind, "locations/npmplus_location_config")
                        THEN s.loc.config ELSE ""
      /\ DOMAIN q.loc = DOMAIN s.loc
  BY <1>1, <1>6 DEF Full
<1>8. Full(q)
  BY <1>1, <1>4, <1>7 DEF Full
<1> HIDE DEF npm
<1>9. QED
  BY <1>1, <1>2, <1>4, <1>5, <1>7, <1>8 DEF IsConform, npm, q

\* What it takes over from the host it is compared with.
IsAdopted(q, r, l) ==
  /\ Full(q) /\ q.kind = r.kind /\ q.key = r.key
  /\ q.cert = IF r.cert = NewCertificate /\ l.cert > 0 THEN l.cert ELSE r.cert
  /\ q.forced = r.forced /\ q.hsts = r.hsts /\ q.http2 = r.http2 /\ q.http3 = r.http3
  /\ q.trust = r.trust /\ q.ids = r.ids /\ q.listType = r.listType
  /\ q.crowdOff = r.crowdOff /\ q.reqOff = r.reqOff
  /\ q.frame = IF r.frame = "" THEN l.frame ELSE r.frame
  /\ q.loc.there = r.loc.there /\ q.loc.enabled = r.loc.enabled
  /\ q.loc.ids = r.loc.ids /\ q.loc.listType = r.loc.listType /\ q.loc.config = r.loc.config
  /\ q.loc.frame = IF r.loc.frame = "" /\ r.loc.there /\ l.loc.there THEN l.loc.frame
                   ELSE r.loc.frame
  /\ q.scheme = r.scheme /\ q.udp = r.udp /\ q.level = r.level /\ q.user = r.user
  /\ q.meta.owner = r.meta.owner
  /\ q.meta.dir = IF r.meta.dir = Unset THEN l.meta.dir ELSE r.meta.dir
  /\ q.marked = r.marked

\* AdoptServerState takes from the host only what the resource leaves open.
LEMMA AdoptFields ==
  ASSUME NEW r, Full(r), NEW l
  PROVE  IsAdopted(AdoptServerState(r, l), r, l)
<1> DEFINE q == AdoptServerState(r, l)
<1>1. /\ q.kind = r.kind /\ q.key = r.key
      /\ q.forced = r.forced /\ q.hsts = r.hsts /\ q.http2 = r.http2 /\ q.http3 = r.http3
      /\ q.trust = r.trust /\ q.ids = r.ids /\ q.listType = r.listType
      /\ q.crowdOff = r.crowdOff /\ q.reqOff = r.reqOff
      /\ q.scheme = r.scheme /\ q.udp = r.udp /\ q.level = r.level /\ q.user = r.user
      /\ q.marked = r.marked /\ DOMAIN q = DOMAIN r
  BY DEF AdoptServerState
<1>2. /\ q.cert = IF r.cert = NewCertificate /\ l.cert > 0 THEN l.cert ELSE r.cert
      /\ q.frame = IF r.frame = "" THEN l.frame ELSE r.frame
      /\ q.loc = [r.loc EXCEPT !.frame =
                    IF @ = "" /\ r.loc.there /\ l.loc.there THEN l.loc.frame ELSE @]
      /\ q.meta = [r.meta EXCEPT !.dir = IF @ = Unset THEN l.meta.dir ELSE @]
  BY DEF AdoptServerState, Full
<1> HIDE DEF q
<1>3. /\ q.loc.there = r.loc.there /\ q.loc.enabled = r.loc.enabled
      /\ q.loc.ids = r.loc.ids /\ q.loc.listType = r.loc.listType /\ q.loc.config = r.loc.config
      /\ q.loc.frame = IF r.loc.frame = "" /\ r.loc.there /\ l.loc.there THEN l.loc.frame
                       ELSE r.loc.frame
      /\ DOMAIN q.loc = DOMAIN r.loc
  BY <1>2 DEF Full
<1>4. /\ q.meta.owner = r.meta.owner
      /\ q.meta.dir = IF r.meta.dir = Unset THEN l.meta.dir ELSE r.meta.dir
      /\ DOMAIN q.meta = DOMAIN r.meta
  BY <1>2 DEF Full
<1>5. Full(q)
  BY <1>1, <1>3, <1>4 DEF Full
<1>6. IsAdopted(q, r, l)
  BY <1>1, <1>2, <1>3, <1>4, <1>5 DEF IsAdopted
<1>7. QED
  BY <1>6 DEF q

\* What is read back of a request the server has stored in place of a host.
IsReadBack(x, r, d, release, old, cert) ==
  LET plus == release \notin Upstream
      secure == cert # NoCertificate
      F == Payload(r, d).fields
      lists == accessLists(r)
      level == IF ProxyProtocolIsFlag(d) /\ r.level > 0 THEN 1 ELSE r.level
      adv == IF r.kind = "stream" /\ ~plus THEN old.adv ELSE advancedFor(r, d)
      meta == IF "meta" \in F THEN r.meta ELSE old.meta
      lifted == liftOwnership(adv, meta.owner, old.key)
  IN  /\ x.key = old.key
      /\ x.cert = IF r.kind = "stream" /\ "certificate_id" \notin F THEN old.cert ELSE cert
      /\ x.forced = (r.forced /\ secure) /\ x.hsts = (r.hsts /\ r.forced /\ secure)
      /\ x.http2 = IF "http2_support" \in F THEN r.http2 /\ (secure \/ release = "npm212")
                   ELSE old.http2
      /\ x.http3 = (plus /\ r.http3 /\ (secure \/ release # "plusColumns"))
      /\ x.trust = IF "trust_forwarded_proto" \in F THEN r.trust ELSE old.trust
      /\ x.ids = lists[1] /\ x.listType = IF plus THEN lists[2] ELSE ""
      /\ x.crowdOff = (plus /\ r.crowdOff)
      /\ x.reqOff = (plus /\ WrittenAs(d) # "npm" /\ cleanForwardOptions(r))
      /\ x.frame = IF r.kind # "proxy" \/ ~plus THEN ""
                   ELSE IF r.frame = "" THEN DefaultFrame ELSE r.frame
      /\ x.loc = StoredLocation(release, r.loc)
      /\ x.scheme = IF r.kind = "redirect" THEN keepSchemeFor(d, r.scheme) ELSE r.scheme
      /\ x.udp = r.udp
      /\ x.level = IF plus THEN (IF release = "plusMeta" /\ level > 0 THEN 1 ELSE level) ELSE 0
      /\ x.user = adv.user
      /\ x.meta.owner = lifted[1] /\ x.marked = lifted[2]
      /\ x.meta.dir = liftDirectory(meta.dir, IF "npmplus_directory" \in F THEN r.meta.dir
                                              ELSE old.column)

\* What is stored of a request, and decoded again.
LEMMA ReadBack ==
  ASSUME NEW r, NEW d, NEW release, NEW old, NEW cert
  PROVE  IsReadBack(Decode(Store(release, old, Payload(r, d), cert)), r, d, release, old, cert)
<1> DEFINE p == Payload(r, d)
           s == Store(release, old, p, cert)
           x == Decode(s)
           plus == release \notin Upstream
           secure == cert # NoCertificate
           lists == accessLists(r)
           level == IF ProxyProtocolIsFlag(d) /\ r.level > 0 THEN 1 ELSE r.level
           adv == IF r.kind = "stream" /\ ~plus THEN old.adv ELSE advancedFor(r, d)
           meta == IF "meta" \in p.fields THEN r.meta ELSE old.meta
<1>1. /\ p.kind = r.kind /\ p.forced = r.forced /\ p.hsts = r.hsts /\ p.http2 = r.http2
      /\ p.http3 = r.http3 /\ p.trust = r.trust /\ p.lists = lists /\ p.crowdOff = r.crowdOff
      /\ p.frame = r.frame /\ p.loc = r.loc /\ p.udp = r.udp /\ p.level = level
      /\ p.adv = advancedFor(r, d) /\ p.meta = r.meta
      /\ p.scheme = IF r.kind = "redirect" THEN keepSchemeFor(d, r.scheme) ELSE r.scheme
  BY DEF Payload
<1>2. p.reqOff = (WrittenAs(d) # "npm" /\ cleanForwardOptions(r))
  BY DEF Payload, cleanForwardOptions
<1> HIDE DEF p
<1>3. /\ s.key = old.key
      /\ s.cert = IF p.kind = "stream" /\ "certificate_id" \notin p.fields THEN old.cert ELSE cert
      /\ s.lists = IF plus THEN p.lists ELSE <<p.lists[1], "">>
      /\ s.frame = IF p.kind # "proxy" \/ ~plus THEN ""
                   ELSE IF p.frame = "" THEN DefaultFrame ELSE p.frame
      /\ s.loc = StoredLocation(release, p.loc) /\ s.scheme = p.scheme /\ s.udp = p.udp
      /\ s.level = IF plus THEN (IF release = "plusMeta" /\ p.level > 0 THEN 1 ELSE p.level)
                   ELSE 0
      /\ s.adv = IF p.kind = "stream" /\ ~plus THEN old.adv ELSE p.adv
      /\ s.meta = IF "meta" \in p.fields THEN p.meta ELSE old.meta
      /\ s.column = IF "npmplus_directory" \in p.fields THEN p.meta.dir ELSE old.column
      /\ s.trust = IF "trust_forwarded_proto" \in p.fields THEN p.trust ELSE old.trust
  BY DEF Store
<1>4. /\ s.forced = (p.forced /\ secure) /\ s.hsts = (p.hsts /\ p.forced /\ secure)
      /\ s.http3 = (plus /\ p.http3 /\ (secure \/ release # "plusColumns"))
      /\ s.crowdOff = (plus /\ p.crowdOff) /\ s.reqOff = (plus /\ p.reqOff)
  BY DEF Store
<1>5. s.http2 = IF "http2_support" \in p.fields THEN p.http2 /\ (secure \/ release = "npm212")
                ELSE old.http2
  BY DEF Store
<1> HIDE DEF s
<1>6. /\ x.key = s.key /\ x.cert = s.cert /\ x.forced = s.forced /\ x.hsts = s.hsts
      /\ x.http2 = s.http2 /\ x.http3 = s.http3 /\ x.trust = s.trust
      /\ x.ids = s.lists[1] /\ x.listType = s.lists[2] /\ x.crowdOff = s.crowdOff
      /\ x.reqOff = s.reqOff /\ x.frame = s.frame /\ x.loc = s.loc /\ x.scheme = s.scheme
      /\ x.udp = s.udp /\ x.level = s.level /\ x.user = s.adv.user
      /\ x.meta.owner = liftOwnership(s.adv, s.meta.owner, s.key)[1]
      /\ x.marked = liftOwnership(s.adv, s.meta.owner, s.key)[2]
      /\ x.meta.dir = liftDirectory(s.meta.dir, s.column)
  BY DEF Decode
<1> HIDE DEF x, lists, level
<1>7. s.adv = adv /\ s.meta = meta
  BY <1>1, <1>3
<1> HIDE DEF adv, meta
<1>8. /\ x.ids = lists[1] /\ x.listType = IF plus THEN lists[2] ELSE ""
  <2>1. s.lists = IF plus THEN lists ELSE <<lists[1], "">>
    BY <1>1, <1>3
  <2>2. <<lists[1], "">>[1] = lists[1] /\ <<lists[1], "">>[2] = ""
    OBVIOUS
  <2>3. x.ids = s.lists[1] /\ x.listType = s.lists[2]
    BY <1>6
  <2> HIDE DEF plus
  <2>4. QED
    BY <2>1, <2>2, <2>3
<1>9. x.level = IF plus THEN (IF release = "plusMeta" /\ level > 0 THEN 1 ELSE level) ELSE 0
  BY <1>1, <1>3, <1>6
<1>10. /\ x.crowdOff = (plus /\ r.crowdOff)
       /\ x.reqOff = (plus /\ WrittenAs(d) # "npm" /\ cleanForwardOptions(r))
       /\ x.forced = (r.forced /\ secure) /\ x.hsts = (r.hsts /\ r.forced /\ secure)
       /\ x.http3 = (plus /\ r.http3 /\ (secure \/ release # "plusColumns"))
  <2> HIDE DEF plus, secure
  <2>1. /\ x.crowdOff = (plus /\ r.crowdOff)
        /\ x.forced = (r.forced /\ secure) /\ x.hsts = (r.hsts /\ r.forced /\ secure)
        /\ x.http3 = (plus /\ r.http3 /\ (secure \/ release # "plusColumns"))
    BY <1>1, <1>4, <1>6
  <2>2. x.reqOff = (plus /\ WrittenAs(d) # "npm" /\ cleanForwardOptions(r))
    BY <1>2, <1>4, <1>6
  <2>3. QED
    BY <2>1, <2>2
<1>11. x.http2 = IF "http2_support" \in p.fields THEN r.http2 /\ (secure \/ release = "npm212")
                 ELSE old.http2
  BY <1>1, <1>5, <1>6
<1>12. /\ x.key = old.key
       /\ x.cert = IF r.kind = "stream" /\ "certificate_id" \notin p.fields THEN old.cert ELSE cert
       /\ x.trust = IF "trust_forwarded_proto" \in p.fields THEN r.trust ELSE old.trust
       /\ x.frame = IF r.kind # "proxy" \/ ~plus THEN ""
                    ELSE IF r.frame = "" THEN DefaultFrame ELSE r.frame
       /\ x.loc = StoredLocation(release, r.loc)
       /\ x.scheme = IF r.kind = "redirect" THEN keepSchemeFor(d, r.scheme) ELSE r.scheme
       /\ x.udp = r.udp
  BY <1>1, <1>3, <1>6
<1>13. /\ x.user = adv.user
       /\ x.meta.owner = liftOwnership(adv, meta.owner, old.key)[1]
       /\ x.marked = liftOwnership(adv, meta.owner, old.key)[2]
       /\ x.meta.dir = liftDirectory(meta.dir, IF "npmplus_directory" \in p.fields
                                               THEN r.meta.dir ELSE old.column)
  BY <1>1, <1>3, <1>6, <1>7
<1>14. IsReadBack(x, r, d, release, old, cert)
  BY <1>8, <1>9, <1>10, <1>11, <1>12, <1>13 DEF IsReadBack, lists, level, adv, meta, p
<1>15. QED
  BY <1>14 DEF x, s, p

\* What a client that has probed a release knows of it, by a schema or without.
Knows(d, release, kind) ==
  /\ WrittenAs(d) = FlavourOf(release)
  /\ ProxyProtocolIsFlag(d) <=> release = "plusMeta"
  /\ kind # "stream" => (Accepts(d, kind, "http2_support") <=> release # "plusColumns")
  /\ kind = "proxy" => (Accepts(d, kind, "trust_forwarded_proto")
                          <=> release \notin {"npm211", "plusColumns"})
  /\ release = "plusColumns" => ~Accepts(d, kind, "locations/npmplus_location_config")
  /\ CarriesMarker(d, kind) <=> kind # "stream" \/ release \notin Upstream
  /\ kind = "stream" => (Accepts(d, kind, "certificate_id") <=> release # "npm211")
  /\ Accepts(d, kind, "meta") <=> release # "plusColumns"
  /\ Accepts(d, kind, "npmplus_directory") <=> release = "plusColumns"

\* A probe finds out what the release takes.
LEMMA ProbeKnows ==
  ASSUME NEW release \in Releases, NEW kind \in Kinds
  PROVE  Knows(Probe(release), release, kind)
<1> DEFINE d == Probe(release)
<1>1. /\ d.flavour = FlavourOf(release) /\ d.version = Reports(release)
      /\ d.schema = IF release \in Schemas THEN release ELSE None
      /\ release \notin Schemas => d.retired = (release = "plusColumns")
  BY DEF Probe, ShapeRetired
<1>2. WrittenAs(d) = FlavourOf(release) /\ release # None
  BY <1>1 DEF WrittenAs, FlavourOf, Releases, None
<1> HIDE DEF d
<1>3. CASE release \in Schemas
  <2>1. d.schema = release /\ d.schema # None
    BY <1>1, <1>2, <1>3
  <2>2. \A f : Accepts(d, kind, f) <=> f \in Takes(release, kind)
    BY <2>1 DEF Accepts
  <2>3. ProxyProtocolIsFlag(d) <=> release = "plusMeta"
    BY <2>1 DEF ProxyProtocolIsFlag
  <2>4. /\ kind # "stream" => ("http2_support" \in Takes(release, kind) <=> release # "plusColumns")
        /\ kind = "proxy" => ("trust_forwarded_proto" \in Takes(release, kind)
                                <=> release \notin {"npm211", "plusColumns"})
    BY DEF Takes, LegacySwitches, Kinds, Releases, Upstream
  <2>5. /\ release = "plusColumns" =>
             "locations/npmplus_location_config" \notin Takes(release, kind)
        /\ kind = "stream" => ("certificate_id" \in Takes(release, kind) <=> release # "npm211")
    BY DEF Takes, LegacySwitches, Kinds, Releases, Upstream
  <2>6. /\ "meta" \in Takes(release, kind) <=> release # "plusColumns"
        /\ "npmplus_directory" \in Takes(release, kind) <=> release = "plusColumns"
    BY DEF Takes, LegacySwitches, Kinds, Releases, Upstream
  <2>7. AdvancedField(kind) \in Takes(release, kind) <=> kind # "stream" \/ release \notin Upstream
    BY DEF Takes, LegacySwitches, Kinds, Releases, AdvancedField
  <2>8. QED
    BY <1>2, <2>2, <2>3, <2>4, <2>5, <2>6, <2>7 DEF Knows, CarriesMarker, d
<1>4. CASE release \notin Schemas
  <2>1. d.schema = None
    BY <1>1, <1>4
  <2>2. \A f : Accepts(d, kind, f) <=> Assumes(d, kind, f)
    BY <2>1 DEF Accepts
  <2>3. ProxyProtocolIsFlag(d) <=> release = "plusMeta"
    BY <1>1, <1>2, <1>4, <2>1 DEF ProxyProtocolIsFlag, FlavourOf, Releases, Upstream
  <2>4. AdvancedField(kind) = IF kind = "stream" THEN "npmplus_advanced_config"
                              ELSE "advanced_config"
    BY DEF AdvancedField
  <2>5. CASE release \in Upstream
    <3>1. \A f : Assumes(d, kind, f) <=>
            /\ f \notin PlusFields
            /\ f = "trust_forwarded_proto" \/ (kind = "stream" /\ f = "certificate_id")
                 => release # "npm211"
      BY <1>1, <1>2, <2>5 DEF Assumes, FlavourOf, AtLeast212, VersionShape, Reports, Upstream
    <3>2. release # "plusColumns" /\ release # "plusMeta"
      BY <2>5 DEF Upstream
    <3>3. QED
      BY <1>2, <2>2, <2>3, <2>4, <2>5, <3>1, <3>2 DEF Knows, CarriesMarker, PlusFields, Kinds, d
  <2>6. CASE release \notin Upstream
    <3>1. \A f : Assumes(d, kind, f) <=>
            /\ f \in {"meta", "locations/npmplus_location_config"} \cup LegacySwitches(kind)
                 => release = "plusMeta"
            /\ f \in ColumnFields => release = "plusColumns"
      BY <1>1, <1>2, <1>4, <2>6 DEF Assumes, FlavourOf, Releases, Upstream
    <3>2. /\ "npmplus_directory" \notin LegacySwitches(kind)
          /\ "npmplus_advanced_config" \notin LegacySwitches(kind)
          /\ "advanced_config" \notin LegacySwitches(kind)
          /\ "certificate_id" \notin LegacySwitches(kind)
          /\ kind # "stream" => "http2_support" \in LegacySwitches(kind)
          /\ kind = "proxy" => "trust_forwarded_proto" \in LegacySwitches(kind)
      BY DEF LegacySwitches, Kinds
    <3>3. release \in {"plusMeta", "plusColumns"}
      BY <2>6 DEF Releases, Upstream
    <3>4. QED
      BY <1>2, <2>2, <2>3, <2>4, <2>6, <3>1, <3>2, <3>3
         DEF Knows, CarriesMarker, ColumnFields, Kinds, d
  <2>7. QED
    BY <2>5, <2>6
<1>5. QED
  BY <1>3, <1>4

\* Which of the properties above its requests carry.
LEMMA BodyFields ==
  ASSUME NEW d, NEW release \in Releases, NEW kind \in Kinds, Knows(d, release, kind)
  PROVE  LET F == Body(d, kind)
         IN  /\ "http2_support" \in F <=> kind # "stream" /\ release # "plusColumns"
             /\ "trust_forwarded_proto" \in F
                  <=> kind = "proxy" /\ release \notin {"npm211", "plusColumns"}
             /\ kind = "stream" => ("certificate_id" \in F <=> release # "npm211")
             /\ "meta" \in F <=> release # "plusColumns"
             /\ "npmplus_directory" \in F <=> release = "plusColumns"
<1> DEFINE flavour == FlavourOf(release)
           F == Body(d, kind)
<1>1. \A f : f \in F <=> \/ f \in Fixed(flavour, kind)
                         \/ f \in Optional(flavour, kind) /\ Accepts(d, kind, f)
  BY DEF Body, Knows
<1>2. flavour = "npm" <=> release \in Upstream
  BY DEF FlavourOf
<1> HIDE DEF F, flavour
<1>3. CASE kind = "proxy"
  BY <1>1, <1>2, <1>3 DEF Knows, Fixed, Optional, F, Upstream, Releases
<1>4. CASE kind = "stream"
  BY <1>1, <1>2, <1>4 DEF Knows, Fixed, Optional, F, Upstream, Releases
<1>5. CASE kind \in {"redirect", "dead"}
  BY <1>1, <1>2, <1>5 DEF Knows, Fixed, Optional, F, Upstream, Releases
<1>6. QED
  BY <1>3, <1>4, <1>5 DEF Kinds

---------------------------------------------------------------------------
(* A host that is written and read back.                                 *)

\* The resource a run writes: what it wants, with what it adopts of the host it
\* replaces, if there is one.
IsWritten(r, q) ==
  /\ Full(r) /\ r.kind = q.kind /\ r.key = q.key
  /\ r.forced = q.forced /\ r.hsts = q.hsts /\ r.http2 = q.http2 /\ r.http3 = q.http3
  /\ r.trust = q.trust /\ r.ids = q.ids /\ r.listType = q.listType
  /\ r.crowdOff = q.crowdOff /\ r.reqOff = q.reqOff
  /\ q.frame # "" => r.frame = q.frame
  /\ r.loc.there = q.loc.there /\ r.loc.enabled = q.loc.enabled
  /\ r.loc.ids = q.loc.ids /\ r.loc.listType = q.loc.listType /\ r.loc.config = q.loc.config
  /\ q.loc.frame # "" \/ ~q.loc.there => r.loc.frame = q.loc.frame
  /\ r.scheme = q.scheme /\ r.udp = q.udp /\ r.level = q.level /\ r.user = q.user
  /\ r.meta.owner = q.meta.owner
  /\ q.meta.dir # Unset => r.meta.dir = q.meta.dir

\* A target whose settings survive: those of its kind, and nothing upstream NPM
\* could not show again.
Suits(t, release) ==
  /\ Asks(t) /\ t.kind \in Kinds /\ t.level \in Nat
  /\ t.kind # "proxy" => t.trust = FALSE /\ t.frame = ""
  /\ t.listType \in {"", "public", "custom"} /\ (t.listType = "custom" => t.ids # {})
  /\ release \in Upstream => t.loc.enabled

\* A stored host has nothing its release would neither take nor clear.
IsLean(s, kind, release) ==
  /\ kind = "stream" \/ release = "plusColumns" => s.http2 = FALSE
  /\ kind # "proxy" \/ release \in {"npm211", "plusColumns"} => s.trust = FALSE
  /\ kind = "stream" /\ release \in Upstream =>
       s.adv.user = "" /\ s.adv.marks = {} /\ s.adv.broken = FALSE
  /\ release = "plusColumns" => s.meta.dir = Unset
  /\ kind = "stream" /\ release = "npm211" => s.cert = NoCertificate

\* The round trip: a resource r is written with a certificate and read back as x,
\* and q is what the next run wants, before it adopts anything of x.
RoundTrip(t, release, d, old, c1, r, cert, x, c2, q) ==
  /\ Suits(t, release) /\ release \in Releases /\ Knows(d, release, t.kind)
  /\ IsLean(old, t.kind, release) /\ old.key = t.key
  /\ \E b1, q1 : IsBuilt(b1, t, c1) /\ IsConform(q1, b1, d) /\ IsWritten(r, q1)
  /\ IsReadBack(x, r, d, release, old, cert)
  /\ \E b2, q2 : IsBuilt(b2, t, c2) /\ IsConform(q2, b2, d) /\ IsAdopted(q, q2, x)
  /\ t.kind # "stream" => (c1 # NoCertificate <=> cert # NoCertificate)
                          /\ (c2 # NoCertificate <=> cert # NoCertificate)

\* Both spellings of an access list are one, also when it is read back.
ListsReturn(r, x, q) ==
  /\ x.ids = accessLists(r)[1] /\ x.listType \in {accessLists(r)[2], ""}
  /\ q.ids = r.ids /\ q.listType = r.listType
  /\ r.listType \in {"", "public", "custom"} /\ (r.listType = "custom" => r.ids # {})

\* So an access list read back is compared as the one that was wanted.
LEMMA ListsAgain ==
  ASSUME NEW r, NEW x, NEW q, ListsReturn(r, x, q)
  PROVE  accessLists(x) = accessLists(q)
<1> USE DEF ListsReturn
<1>1. accessLists(q) = accessLists(r)
  BY DEF accessLists
<1>2. CASE r.listType = "public" \/ (r.listType = "" /\ r.ids = {})
  BY <1>1, <1>2 DEF accessLists
<1>3. CASE ~(r.listType = "public" \/ (r.listType = "" /\ r.ids = {}))
  <2>1. accessLists(r) = <<r.ids, "custom">> /\ r.ids # {}
    BY <1>3 DEF accessLists
  <2>2. x.ids = r.ids /\ x.listType \in {"", "custom"}
    <3>1. accessLists(r)[1] = r.ids /\ accessLists(r)[2] = "custom"
      <4>1. <<r.ids, "custom">>[1] = r.ids /\ <<r.ids, "custom">>[2] = "custom"
        OBVIOUS
      <4>2. QED
        BY <2>1, <4>1
    <3>2. QED
      BY <3>1
  <2>3. accessLists(x) = <<x.ids, "custom">>
    BY <2>1, <2>2 DEF accessLists
  <2>4. QED
    BY <1>1, <2>1, <2>2, <2>3
<1>4. QED
  BY <1>2, <1>3

\* keepSchemeFor keeps what it has spelt.
LEMMA SchemeAgain ==
  ASSUME NEW d, NEW scheme
  PROVE  keepSchemeFor(d, keepSchemeFor(d, scheme)) = keepSchemeFor(d, scheme)
BY DEF keepSchemeFor

\* A marker line of the host's own key names its owner; without one, the meta
\* object does.
LEMMA LiftMarker ==
  ASSUME NEW adv, NEW owner, NEW key, ~adv.broken, adv.marks = {[key |-> key, owner |-> Us]}
  PROVE  /\ liftOwnership(adv, owner, key)[1] = Us
         /\ liftOwnership(adv, owner, key)[2] = TRUE
<1> DEFINE m == CHOOSE m \in adv.marks : TRUE
<1>1. adv.marks # {}
  OBVIOUS
<1>2. m \in adv.marks
  BY <1>1
<1>3. Cardinality(adv.marks) = 1
  BY FS_Singleton
<1>4. m.key = key /\ m.owner = Us
  BY <1>2
<1>5. liftOwnership(adv, owner, key) = <<m.owner, TRUE>>
  BY <1>1, <1>3, <1>4 DEF liftOwnership
<1> HIDE DEF m
<1>6. QED
  BY <1>4, <1>5

\* Without a marker line the meta object alone says whose a host is.
LEMMA LiftNone ==
  ASSUME NEW adv, NEW owner, NEW key, ~adv.broken, adv.marks = {}
  PROVE  /\ liftOwnership(adv, owner, key)[1] = owner
         /\ liftOwnership(adv, owner, key)[2] = FALSE
<1>1. Cardinality(adv.marks) = 0
  BY FS_EmptySet
<1>2. Cardinality(adv.marks) # 1 /\ ~(adv.broken \/ adv.marks # {})
  BY <1>1
<1>3. liftOwnership(adv, owner, key) = <<owner, FALSE>>
  BY <1>2 DEF liftOwnership
<1>4. QED
  BY <1>3

\* A location is stored as it was sent, or upstream as nothing but its presence.
IsLocation(l) == {"there", "enabled", "ids", "listType", "frame", "config"} \subseteq DOMAIN l
IsStoredLocation(k, release, l) ==
  /\ k.there = l.there
  /\ release \in Upstream =>
       /\ k.enabled = TRUE /\ k.ids = {} /\ k.listType = "" /\ k.frame = "" /\ k.config = ""
  /\ release \notin Upstream =>
       /\ k.enabled = l.enabled
       /\ k.ids = locationLists(l)[1] /\ k.listType = locationLists(l)[2]
       /\ k.config = IF release = "plusColumns" THEN "" ELSE l.config
       /\ k.frame = IF l.there /\ release = "plusColumns" /\ l.frame = ""
                    THEN DefaultFrame ELSE l.frame

\* StoredLocation, setting by setting.
LEMMA StoredLocationFields ==
  ASSUME NEW release, NEW l, IsLocation(l)
  PROVE  IsStoredLocation(StoredLocation(release, l), release, l)
<1>1. CASE release \in Upstream
  BY <1>1 DEF StoredLocation, NoLocation, IsStoredLocation
<1>2. CASE release \notin Upstream
  BY <1>2 DEF StoredLocation, IsLocation, IsStoredLocation
<1>3. QED
  BY <1>1, <1>2

\* The access list of a location is compared as it was sent.
LEMMA LocationAgain ==
  ASSUME NEW l, NEW k, k.ids = locationLists(l)[1], k.listType = locationLists(l)[2]
  PROVE  locationLists(k) = locationLists(l)
<1> DEFINE type == IF l.listType # "" THEN l.listType
                   ELSE IF l.ids # {} THEN "custom" ELSE "global"
           ids == IF type = "custom" THEN l.ids ELSE {}
<1>1. locationLists(l) = <<ids, type>> /\ type # ""
  BY DEF locationLists
<1>2. type # "custom" => ids = {}
  OBVIOUS
<1> HIDE DEF ids, type
<1>3. k.ids = ids /\ k.listType = type
  <2>1. <<ids, type>>[1] = ids /\ <<ids, type>>[2] = type
    OBVIOUS
  <2>2. QED
    BY <1>1, <2>1
<1>4. locationLists(k) = <<ids, type>>
  BY <1>1, <1>2, <1>3 DEF locationLists
<1>5. QED
  BY <1>1, <1>4

\* Each setting the comparison looks at, but for the certificate, is read back as
\* it is wanted.
LEMMA SettingsReturn ==
  ASSUME NEW t, NEW release, NEW d, NEW old, NEW c1, NEW r, NEW cert, NEW x, NEW c2, NEW q,
         RoundTrip(t, release, d, old, c1, r, cert, x, c2, q), q.cert = x.cert
  PROVE  Fingerprint(q) = Fingerprint(x)
<1>1. PICK b1, q1 : IsBuilt(b1, t, c1) /\ IsConform(q1, b1, d) /\ IsWritten(r, q1)
  BY DEF RoundTrip
<1>2. PICK b2, q2 : IsBuilt(b2, t, c2) /\ IsConform(q2, b2, d) /\ IsAdopted(q, q2, x)
  BY DEF RoundTrip
<1> DEFINE F == Payload(r, d).fields
           plus == release \notin Upstream
<1>3. /\ Suits(t, release) /\ release \in Releases /\ Knows(d, release, t.kind)
      /\ IsLean(old, t.kind, release) /\ old.key = t.key
      /\ IsReadBack(x, r, d, release, old, cert)
  BY DEF RoundTrip
<1>4. WrittenAs(d) = "npm" <=> ~plus
  BY <1>3 DEF Knows, FlavourOf
<1>5. /\ r.kind = t.kind /\ r.key = t.key /\ t.kind \in Kinds
      /\ r.meta.owner = Us
  BY <1>1, <1>3 DEF IsBuilt, IsConform, IsWritten, Suits
<1>6. /\ "http2_support" \in F <=> t.kind # "stream" /\ release # "plusColumns"
      /\ "trust_forwarded_proto" \in F
           <=> t.kind = "proxy" /\ release \notin {"npm211", "plusColumns"}
      /\ t.kind = "stream" => ("certificate_id" \in F <=> release # "npm211")
      /\ "meta" \in F <=> release # "plusColumns"
      /\ "npmplus_directory" \in F <=> release = "plusColumns" /\ r.meta.dir # Unset
  <2>1. F = Body(d, t.kind) \ (ColumnFields \ columnsFor(r))
    BY <1>5 DEF Payload
  <2>2. QED
    BY <1>3, <1>5, <2>1, BodyFields DEF ColumnFields, columnsFor
<1> HIDE DEF F, plus
<1>7. q.key = x.key
  BY <1>2, <1>3 DEF IsBuilt, IsConform, IsAdopted, IsReadBack
<1> DEFINE S == t.kind # "stream" /\ cert # NoCertificate
<1>8. Secure(t, c1) = S /\ Secure(t, c2) = S
  BY DEF RoundTrip, Secure
<1>9. q.forced = x.forced /\ q.hsts = x.hsts
  <2>1. q.forced = (S /\ t.forced # "no") /\ q.hsts = (S /\ t.forced # "no" /\ t.hsts)
    BY <1>2, <1>8 DEF IsBuilt, IsConform, IsAdopted
  <2>2. r.forced = (S /\ t.forced # "no") /\ r.hsts = (S /\ t.forced # "no" /\ t.hsts)
    BY <1>1, <1>8 DEF IsBuilt, IsConform, IsWritten
  <2>3. /\ x.forced = (r.forced /\ cert # NoCertificate)
        /\ x.hsts = (r.hsts /\ r.forced /\ cert # NoCertificate)
    BY <1>3 DEF IsReadBack
  <2>4. QED
    BY <2>1, <2>2, <2>3
<1>10. q.http2 = x.http2
  <2>1. /\ q.http2 = (S /\ t.http2 /\ Accepts(d, t.kind, "http2_support"))
        /\ r.http2 = (S /\ t.http2 /\ Accepts(d, t.kind, "http2_support"))
    BY <1>1, <1>2, <1>8 DEF IsBuilt, IsConform, IsAdopted, IsWritten
  <2>2. x.http2 = IF "http2_support" \in F
                  THEN r.http2 /\ (cert # NoCertificate \/ release = "npm212") ELSE old.http2
    BY <1>3 DEF IsReadBack, F
  <2>3. CASE t.kind = "stream" \/ release = "plusColumns"
    <3>1. q.http2 = FALSE
      BY <1>3, <2>1, <2>3 DEF Knows
    <3>2. x.http2 = FALSE
      BY <1>3, <1>6, <2>2, <2>3 DEF IsLean
    <3>3. QED
      BY <3>1, <3>2
  <2>4. CASE ~(t.kind = "stream" \/ release = "plusColumns")
    BY <1>6, <2>1, <2>2, <2>4
  <2>5. QED
    BY <2>3, <2>4
<1>11. q.http3 = x.http3
  <2>1. q.http3 = (plus /\ S /\ t.http3) /\ r.http3 = (plus /\ S /\ t.http3)
    BY <1>1, <1>2, <1>4, <1>8 DEF IsBuilt, IsConform, IsAdopted, IsWritten
  <2>2. x.http3 = (plus /\ r.http3 /\ (cert # NoCertificate \/ release # "plusColumns"))
    BY <1>3 DEF IsReadBack, plus
  <2>3. QED
    BY <2>1, <2>2
<1>12. q.trust = x.trust
  <2> DEFINE kept == t.trust /\ Accepts(d, t.kind, "trust_forwarded_proto")
  <2>1. q.trust = kept /\ r.trust = kept
    <3>1. q1.trust = kept
      BY <1>1 DEF IsBuilt, IsConform
    <3>2. q2.trust = kept
      BY <1>2 DEF IsBuilt, IsConform
    <3> HIDE DEF kept
    <3>3. r.trust = kept
      BY <1>1, <3>1 DEF IsWritten
    <3>4. q.trust = kept
      BY <1>2, <3>2 DEF IsAdopted
    <3>5. QED
      BY <3>3, <3>4
  <2>2. x.trust = IF "trust_forwarded_proto" \in F THEN r.trust ELSE old.trust
    BY <1>3 DEF IsReadBack, F
  <2>3. CASE t.kind # "proxy"
    <3>1. q.trust = FALSE
      BY <1>3, <2>1, <2>3 DEF Suits
    <3>2. x.trust = FALSE
      BY <1>3, <1>6, <2>2, <2>3 DEF IsLean
    <3>3. QED
      BY <3>1, <3>2
  <2>4. CASE t.kind = "proxy" /\ release \in {"npm211", "plusColumns"}
    <3>1. q.trust = FALSE
      BY <1>3, <2>1, <2>4 DEF Knows
    <3>2. x.trust = FALSE
      BY <1>3, <1>6, <2>2, <2>4 DEF IsLean
    <3>3. QED
      BY <3>1, <3>2
  <2>5. CASE t.kind = "proxy" /\ release \notin {"npm211", "plusColumns"}
    BY <1>6, <2>1, <2>2, <2>5
  <2>6. QED
    BY <2>3, <2>4, <2>5
<1>13. accessLists(q) = accessLists(x)
  <2>1. /\ q.ids = t.ids /\ q.listType = t.listType /\ r.ids = t.ids /\ r.listType = t.listType
    <3>1. q1.ids = t.ids /\ q1.listType = t.listType
      BY <1>1 DEF IsBuilt, IsConform
    <3>2. q2.ids = t.ids /\ q2.listType = t.listType
      BY <1>2 DEF IsBuilt, IsConform
    <3>3. r.ids = q1.ids /\ r.listType = q1.listType
      BY <1>1 DEF IsWritten
    <3>4. q.ids = q2.ids /\ q.listType = q2.listType
      BY <1>2 DEF IsAdopted
    <3>5. QED
      BY <3>1, <3>2, <3>3, <3>4
  <2>2. x.ids = accessLists(r)[1] /\ x.listType \in {accessLists(r)[2], ""}
    BY <1>3 DEF IsReadBack
  <2>3. r.listType \in {"", "public", "custom"} /\ (r.listType = "custom" => r.ids # {})
    BY <1>3, <2>1 DEF Suits
  <2>4. q.ids = r.ids /\ q.listType = r.listType
    BY <2>1
  <2>5. ListsReturn(r, x, q)
    BY <2>2, <2>3, <2>4 DEF ListsReturn
  <2>6. QED
    BY <2>5, ListsAgain
<1>14. q.crowdOff = x.crowdOff /\ q.scheme = x.scheme
  <2>1. /\ q.crowdOff = (plus /\ t.crowdOff) /\ r.crowdOff = (plus /\ t.crowdOff)
    <3>1. q1.crowdOff = (plus /\ t.crowdOff) /\ q2.crowdOff = (plus /\ t.crowdOff)
      <4>1. q1.crowdOff = (plus /\ t.crowdOff)
        BY <1>1, <1>4 DEF IsBuilt, IsConform
      <4>2. q2.crowdOff = (plus /\ t.crowdOff)
        BY <1>2, <1>4 DEF IsBuilt, IsConform
      <4>3. QED
        BY <4>1, <4>2
    <3>2. r.crowdOff = q1.crowdOff
      BY <1>1 DEF IsWritten
    <3>3. q.crowdOff = q2.crowdOff
      BY <1>2 DEF IsAdopted
    <3>4. QED
      BY <3>1, <3>2, <3>3
  <2>2. x.crowdOff = (plus /\ r.crowdOff)
    BY <1>3 DEF IsReadBack, plus
  <2> DEFINE kept == IF t.kind = "redirect" THEN keepSchemeFor(d, t.scheme) ELSE t.scheme
  <2>3. q.scheme = kept /\ r.scheme = kept
    <3>1. q1.scheme = kept
      BY <1>1 DEF IsBuilt, IsConform
    <3>2. q2.scheme = kept
      BY <1>2 DEF IsBuilt, IsConform
    <3> HIDE DEF kept
    <3>3. r.scheme = kept
      BY <1>1, <3>1 DEF IsWritten
    <3>4. q.scheme = kept
      BY <1>2, <3>2 DEF IsAdopted
    <3>5. QED
      BY <3>3, <3>4
  <2>4. x.scheme = IF t.kind = "redirect" THEN keepSchemeFor(d, r.scheme) ELSE r.scheme
    BY <1>3, <1>5 DEF IsReadBack
  <2>5. QED
    BY <2>1, <2>2, <2>3, <2>4, SchemeAgain
<1>15. cleanForwardOptions(q) = cleanForwardOptions(x)
  <2> DEFINE kept == IF t.kind = "redirect" THEN keepSchemeFor(d, t.scheme) ELSE t.scheme
  <2>1. q.reqOff = (plus /\ t.reqOff) /\ q.crowdOff = (plus /\ t.crowdOff) /\ q.scheme = kept
    BY <1>2, <1>4 DEF IsBuilt, IsConform, IsAdopted
  <2>2. r.reqOff = (plus /\ t.reqOff) /\ r.crowdOff = (plus /\ t.crowdOff) /\ r.scheme = kept
    BY <1>1, <1>4 DEF IsBuilt, IsConform, IsWritten
  <2> HIDE DEF kept
  <2>3. x.reqOff = (plus /\ WrittenAs(d) # "npm" /\ cleanForwardOptions(r))
    BY <1>3 DEF IsReadBack, plus
  <2>4. cleanForwardOptions(q) = cleanForwardOptions(r)
    BY <2>1, <2>2 DEF cleanForwardOptions
  <2>5. ~plus => cleanForwardOptions(r) = FALSE
    BY <2>2 DEF cleanForwardOptions
  <2>6. x.reqOff = cleanForwardOptions(r)
    BY <1>4, <2>3, <2>5 DEF cleanForwardOptions
  <2>7. QED
    BY <1>14, <2>4, <2>6 DEF cleanForwardOptions
<1>16. q.frame = x.frame
  <2>1. q.frame = LET f == IF plus THEN t.frame ELSE "" IN IF f = "" THEN x.frame ELSE f
    BY <1>2, <1>4 DEF IsBuilt, IsConform, IsAdopted
  <2>2. plus /\ t.frame # "" => r.frame = t.frame
    BY <1>1, <1>4 DEF IsBuilt, IsConform, IsWritten
  <2>3. x.frame = IF t.kind # "proxy" \/ ~plus THEN ""
                  ELSE IF r.frame = "" THEN DefaultFrame ELSE r.frame
    BY <1>3, <1>5 DEF IsReadBack, plus
  <2>4. t.kind # "proxy" => t.frame = ""
    BY <1>3 DEF Suits
  <2>5. QED
    BY <2>1, <2>2, <2>3, <2>4
<1>17. q.udp = x.udp /\ q.user = x.user
  <2> DEFINE user == IF ~plus /\ t.kind = "stream" THEN "" ELSE t.user
  <2>1. q.udp = t.udp /\ r.udp = t.udp /\ x.udp = r.udp
    BY <1>1, <1>2, <1>3 DEF IsBuilt, IsConform, IsAdopted, IsWritten, IsReadBack
  <2>2. q.user = user
    BY <1>2, <1>4 DEF IsBuilt, IsConform, IsAdopted
  <2>3. r.user = user
    BY <1>1, <1>4 DEF IsBuilt, IsConform, IsWritten
  <2>4. x.user = (IF t.kind = "stream" /\ ~plus THEN old.adv ELSE advancedFor(r, d)).user
    BY <1>3, <1>5 DEF IsReadBack, plus
  <2>5. advancedFor(r, d).user = r.user
    BY DEF advancedFor
  <2>6. t.kind = "stream" /\ ~plus => old.adv.user = ""
    BY <1>3 DEF IsLean, plus
  <2>7. QED
    BY <2>1, <2>2, <2>3, <2>4, <2>5, <2>6
<1>18. q.level = x.level
  <2> DEFINE l == IF plus THEN t.level ELSE 0
             flag == release = "plusMeta"
             level == IF flag /\ l > 1 THEN 1 ELSE l
  <2>1. l \in Nat /\ (ProxyProtocolIsFlag(d) <=> flag) /\ (flag => plus)
    BY <1>3 DEF Suits, Knows, plus, Upstream
  <2> HIDE DEF flag
  <2>2. q.level = level
    BY <1>2, <1>4, <2>1 DEF IsBuilt, IsConform, IsAdopted
  <2>3. r.level = level
    BY <1>1, <1>4, <2>1 DEF IsBuilt, IsConform, IsWritten
  <2>4. x.level = LET k == IF flag /\ r.level > 0 THEN 1 ELSE r.level
                  IN  IF plus THEN (IF flag /\ k > 0 THEN 1 ELSE k) ELSE 0
    BY <1>3, <2>1 DEF IsReadBack, plus, flag
  <2>5. level \in Nat /\ (flag => level <= 1) /\ (~plus => level = 0)
    BY <2>1
  <2> HIDE DEF level
  <2>6. QED
    BY <2>1, <2>2, <2>3, <2>4, <2>5
<1>19. q.meta.owner = x.meta.owner /\ q.marked = x.marked
  <2> DEFINE place == t.kind # "stream" \/ plus
             adv == IF place THEN advancedFor(r, d) ELSE old.adv
             meta == IF "meta" \in F THEN r.meta ELSE old.meta
  <2>1. q.meta.owner = Us /\ q.marked = CarriesMarker(d, t.kind)
    BY <1>2 DEF IsBuilt, IsConform, IsAdopted
  <2>2. CarriesMarker(d, t.kind) = place
    <3>1. CarriesMarker(d, t.kind) <=> place
      BY <1>3 DEF Knows, plus
    <3>2. CarriesMarker(d, t.kind) \in BOOLEAN
      <4>1. \A f : Assumes(d, t.kind, f) \in BOOLEAN
        BY DEF Assumes
      <4>2. CASE d.schema # None
        BY <4>2 DEF CarriesMarker, Accepts
      <4>3. CASE d.schema = None
        BY <4>1, <4>3 DEF CarriesMarker, Accepts
      <4>4. QED
        BY <4>2, <4>3
    <3>3. QED
      BY <3>1, <3>2
  <2>3. /\ x.meta.owner = liftOwnership(adv, meta.owner, t.key)[1]
        /\ x.marked = liftOwnership(adv, meta.owner, t.key)[2]
    BY <1>3, <1>5 DEF IsReadBack, F, plus
  <2>4. CASE place
    <3>1. adv.broken = FALSE /\ adv.marks = {[key |-> t.key, owner |-> Us]}
      BY <1>5, <2>2, <2>4 DEF advancedFor
    <3> HIDE DEF adv, meta, place
    <3>2. QED
      BY <2>1, <2>2, <2>3, <2>4, <3>1, LiftMarker
  <2>5. CASE ~place
    <3>1. adv.broken = FALSE /\ adv.marks = {}
      BY <1>3, <2>5 DEF IsLean, plus
    <3>2. meta.owner = Us /\ q.marked = FALSE
      BY <1>5, <1>6, <2>1, <2>2, <2>5 DEF plus, Upstream
    <3> HIDE DEF adv, meta, place
    <3>3. /\ liftOwnership(adv, meta.owner, t.key)[1] = meta.owner
          /\ liftOwnership(adv, meta.owner, t.key)[2] = FALSE
      <4>1. \A a, o, k : ~a.broken /\ a.marks = {}
                          => /\ liftOwnership(a, o, k)[1] = o
                             /\ liftOwnership(a, o, k)[2] = FALSE
        BY LiftNone
      <4>2. QED
        BY <3>1, <4>1
    <3>4. QED
      BY <2>1, <2>3, <3>2, <3>3
  <2>6. QED
    BY <2>4, <2>5
<1>20. (IF q.meta.dir = Unset THEN "" ELSE q.meta.dir)
         = (IF x.meta.dir = Unset THEN "" ELSE x.meta.dir)
  <2> DEFINE want == IF plus THEN t.group ELSE Unset
  <2>1. q.meta.dir = IF want = Unset THEN x.meta.dir ELSE want
    BY <1>2, <1>4 DEF IsBuilt, IsConform, IsAdopted
  <2>2. want # Unset => r.meta.dir = want
    BY <1>1, <1>4 DEF IsBuilt, IsConform, IsWritten
  <2>3. x.meta.dir = liftDirectory((IF "meta" \in F THEN r.meta ELSE old.meta).dir,
                                   IF "npmplus_directory" \in F THEN r.meta.dir ELSE old.column)
    BY <1>3 DEF IsReadBack, F
  <2>4. want # Unset /\ release # "plusColumns" => x.meta.dir = want
    BY <1>6, <2>2, <2>3 DEF liftDirectory
  <2>5. want # Unset /\ release = "plusColumns" /\ want # "" => x.meta.dir = want
    BY <1>3, <1>6, <2>2, <2>3 DEF liftDirectory, IsLean
  <2>6. CASE want = Unset
    BY <2>1, <2>6
  <2>7. CASE want # Unset /\ want # ""
    BY <2>1, <2>4, <2>5, <2>7
  <2>8. CASE want = ""
    <3>1. x.meta.dir \in {"", Unset}
      BY <1>3, <1>6, <2>2, <2>3, <2>8 DEF liftDirectory, IsLean, Unset
    <3>2. q.meta.dir = ""
      BY <2>1, <2>8 DEF Unset
    <3>3. QED
      BY <3>1, <3>2
  <2>9. QED
    BY <2>6, <2>7, <2>8
<1>21. LET a == q.loc
           b == x.loc
       IN  /\ a.there = b.there /\ a.enabled = b.enabled /\ a.frame = b.frame
           /\ locationLists(a) = locationLists(b) /\ a.config = b.config
  <2> DEFINE config == IF plus /\ Accepts(d, t.kind, "locations/npmplus_location_config")
                       THEN t.loc.config ELSE ""
             frame == IF plus THEN t.loc.frame ELSE ""
             ids == IF plus THEN t.loc.ids ELSE {}
             type == IF plus THEN t.loc.listType ELSE ""
             a == q.loc
             b == x.loc
             l == r.loc
  <2>1. /\ a.there = t.loc.there /\ a.enabled = t.loc.enabled /\ a.ids = ids
        /\ a.listType = type /\ a.config = config
        /\ a.frame = IF frame = "" /\ t.loc.there /\ b.there THEN b.frame ELSE frame
    <3>1. /\ q2.loc.there = t.loc.there /\ q2.loc.enabled = t.loc.enabled /\ q2.loc.ids = ids
          /\ q2.loc.listType = type /\ q2.loc.config = config /\ q2.loc.frame = frame
      BY <1>2, <1>4 DEF IsBuilt, IsConform
    <3> HIDE DEF config, frame, ids, type
    <3>2. QED
      BY <1>2, <3>1 DEF IsAdopted
  <2>2. /\ l.there = t.loc.there /\ l.enabled = t.loc.enabled /\ l.ids = ids
        /\ l.listType = type /\ l.config = config
        /\ frame # "" \/ ~t.loc.there => l.frame = frame
    <3>1. /\ q1.loc.there = t.loc.there /\ q1.loc.enabled = t.loc.enabled /\ q1.loc.ids = ids
          /\ q1.loc.listType = type /\ q1.loc.config = config /\ q1.loc.frame = frame
      BY <1>1, <1>4 DEF IsBuilt, IsConform
    <3> HIDE DEF config, frame, ids, type
    <3>2. QED
      BY <1>1, <3>1 DEF IsWritten
  <2>3. b = StoredLocation(release, l) /\ IsLocation(l)
    BY <1>1, <1>3 DEF IsReadBack, IsWritten, Full, IsLocation
  <2>4. IsStoredLocation(b, release, l)
    BY <2>3, StoredLocationFields
  <2>5. ~plus => t.loc.enabled = TRUE
    BY <1>3 DEF Suits, Asks, plus
  <2>6. release = "plusColumns" => config = ""
    BY <1>3 DEF Knows
  <2> HIDE DEF a, b, l, config, frame, ids, type
  <2>7. CASE ~plus
    <3>1. /\ b.there = l.there /\ b.enabled = TRUE /\ b.ids = {} /\ b.listType = ""
          /\ b.frame = "" /\ b.config = ""
      BY <2>4, <2>7 DEF plus, IsStoredLocation
    <3>2. frame = "" /\ ids = {} /\ type = "" /\ config = ""
      BY <2>7 DEF frame, ids, type, config
    <3>3. locationLists(a) = locationLists(b)
      BY <2>1, <3>1, <3>2 DEF locationLists
    <3>4. QED
      BY <2>1, <2>2, <2>5, <2>7, <3>1, <3>2, <3>3 DEF a, b
  <2>8. CASE plus
    <3>1. /\ b.there = l.there /\ b.enabled = l.enabled
          /\ b.ids = locationLists(l)[1] /\ b.listType = locationLists(l)[2]
          /\ b.config = IF release = "plusColumns" THEN "" ELSE l.config
          /\ b.frame = IF l.there /\ release = "plusColumns" /\ l.frame = ""
                       THEN DefaultFrame ELSE l.frame
      BY <2>4, <2>8 DEF plus, IsStoredLocation
    <3>2. locationLists(b) = locationLists(l)
      BY <3>1, LocationAgain
    <3>3. locationLists(a) = locationLists(l)
      BY <2>1, <2>2 DEF locationLists
    <3>4. a.config = b.config
      BY <2>1, <2>2, <2>6, <3>1
    <3>5. a.frame = b.frame
      BY <2>1, <2>2, <3>1
    <3>6. QED
      BY <2>1, <2>2, <3>1, <3>2, <3>3, <3>4, <3>5 DEF a, b
  <2>9. QED
    BY <2>7, <2>8
<1>22. QED
  BY <1>7, <1>9, <1>10, <1>11, <1>12, <1>13, <1>14, <1>15, <1>16, <1>17, <1>18, <1>19,
     <1>20, <1>21 DEF Fingerprint

---------------------------------------------------------------------------
(* The certificate the next run would choose.                            *)

\* The certificate a run chooses for a target, given the one it has.
Chosen(t, current, list, now) ==
  resolveCertificate(t.cert, t.doms, t.primary, list, current, Partial, AutoCreate, now)

\* A set of ids has a smallest.
LEMMA MinIsIn ==
  ASSUME NEW S, S \subseteq Nat \ {0}, IsFiniteSet(S), S # {}
  PROVE  Min(S) \in Nat \ {0}
<1> DEFINE R == {e \in S \X S : e[1] <= e[2]}
<1>1. \A a, b \in S : <<a, b>> \in R <=> a <= b
  OBVIOUS
<1> HIDE DEF R
<1>2. \A a \in S : a \in Nat
  OBVIOUS
<1>3. \A a, b, c \in S : <<a, b>> \in R /\ <<b, c>> \in R => <<a, c>> \in R
  BY <1>1, <1>2
<1>4. \A a, b \in S : a # b => <<a, b>> \in R \/ <<b, a>> \in R
  BY <1>1, <1>2
<1>5. \E a \in S : \A b \in S \ {a} : <<a, b>> \in R
  BY ONLY IsFiniteSet(S), S # {}, <1>3, <1>4, FirstExists
<1>6. PICK a \in S : \A b \in S \ {a} : <<a, b>> \in R
  BY <1>5
<1>7. \A b \in S : a <= b
  <2> SUFFICES ASSUME NEW b \in S PROVE a <= b
    OBVIOUS
  <2>1. CASE b = a
    BY <1>2, <2>1
  <2>2. CASE b # a
    BY <1>1, <1>6, <2>2
  <2>3. QED
    BY <2>1, <2>2
<1>8. QED
  BY <1>7 DEF Min

\* best keeps what it has chosen.
LEMMA BestAgain ==
  ASSUME NEW domains, NEW list, Listed(list), NEW now, NEW current,
         Candidates(domains, list, now) # {}
  PROVE  LET c == best(domains, list, current, now)
         IN  c \in Nat \ {0} /\ best(domains, list, c, now) = c
<1> DEFINE c == best(domains, list, current, now)
           winner == Winner(domains, list, now)
           C == Candidates(domains, list, now)
<1>1. winner \in C /\ \A x : classify(x, domains) \in Nat
  BY WinnerFits DEF classify, Unmatched, ExactOnly, ExactExtra, Mixed, Wildcard
<1>2. c \in C
  BY BestFits
<1>3. c \in Nat \ {0}
  BY <1>2 DEF Candidates, Listed
<1>4. best(domains, list, c, now) =
        IF c \in C /\ classify(list[c], domains) <= classify(list[winner], domains)
        THEN c ELSE winner
  BY DEF best
<1>5. c = IF current \in C /\ classify(list[current], domains) <= classify(list[winner], domains)
          THEN current ELSE winner
  BY DEF best
<1> HIDE DEF c, winner, C
<1>6. classify(list[c], domains) <= classify(list[winner], domains)
  BY <1>1, <1>5
<1>7. QED
  BY <1>2, <1>3, <1>4, <1>6 DEF c

\* A new certificate is requested where the labels say so, or where the host is
\* to choose and none fits.
NoneFits(t, list, now) ==
  /\ AutoCreate /\ t.doms # {} /\ Candidates(t.doms, list, now) = {}
  /\ Partial = "none" \/ Candidates({t.primary}, list, now) = {}
Requests(t, list, now) ==
  t.cert.mode = "new" \/ (t.cert.mode = "auto" /\ NoneFits(t, list, now))

\* It is asked for where the labels say so, and "auto" only where none fits.
LEMMA RequestsNew ==
  ASSUME NEW t, NEW list, NEW now, NEW current, Requests(t, list, now)
  PROVE  Chosen(t, current, list, now) = NewCertificate
<1>1. CASE t.cert.mode = "new"
  BY <1>1 DEF Chosen, resolveCertificate, Resolve, NewCertificate, NoCertificate
<1>2. CASE t.cert.mode = "auto" /\ NoneFits(t, list, now)
  <2>1. best(t.doms, list, current, now) = NoCertificate
    BY <1>2, BestOfNone DEF NoneFits
  <2>2. Partial # "none" => best({t.primary}, list, current, now) = NoCertificate
    BY <1>2, BestOfNone DEF NoneFits
  <2>3. Resolve(t.cert, t.doms, t.primary, list, current, Partial, now) = NoCertificate
    BY <1>2, <2>1, <2>2 DEF Resolve
  <2>4. QED
    BY <1>2, <2>3 DEF Chosen, resolveCertificate, NoneFits
<1>3. QED
  BY <1>1, <1>2 DEF Requests

\* Where none is requested the choice does not change once the host has it.
LEMMA ChoiceStays ==
  ASSUME NEW t \in Targets, NEW list, Listed(list), NEW now, NEW current,
         ~Requests(t, list, now), Chosen(t, current, list, now) # Refused
  PROVE  LET c == Chosen(t, current, list, now)
         IN  c \in Nat /\ Chosen(t, IF c > 0 THEN c ELSE NoCertificate, list, now) = c
<1> DEFINE c == Chosen(t, current, list, now)
           again == IF c > 0 THEN c ELSE NoCertificate
           Resolved(cur) == Resolve(t.cert, t.doms, t.primary, list, cur, Partial, now)
<1>1. t.cert.mode \in Modes /\ (t.cert.mode = "id" => t.cert.id \in Nat \ {0})
  BY SettingsAssumption
<1>2. t.cert.mode # "auto" => \A cur : Chosen(t, cur, list, now) = Resolved(cur)
  BY DEF Chosen, resolveCertificate
<1>3. CASE t.cert.mode \in {"none", "id"}
  <2>1. \A cur : Resolved(cur) = IF t.cert.mode = "none" THEN NoCertificate ELSE t.cert.id
    BY <1>3 DEF Resolve
  <2> HIDE DEF Resolved
  <2>2. QED
    BY <1>1, <1>2, <1>3, <2>1 DEF NoCertificate
<1>4. CASE t.cert.mode = "name"
  <2> DEFINE named == {id \in DOMAIN list : list[id].nice = t.cert.name}
  <2>1. \A cur : Resolved(cur) = IF named = {} THEN Refused ELSE Min(named)
    BY <1>4 DEF Resolve
  <2>2. named # {} => Min(named) \in Nat \ {0}
    <3>1. named \subseteq Nat \ {0}
      BY DEF Listed
    <3>2. IsFiniteSet(named)
      BY FS_Subset DEF Listed
    <3> HIDE DEF named
    <3>3. QED
      BY <3>1, <3>2, MinIsIn
  <2> HIDE DEF Resolved, named
  <2>3. QED
    BY <1>2, <1>4, <2>1, <2>2
<1>5. CASE t.cert.mode = "domain"
  <2> DEFINE asked(cur) == best({t.cert.domain}, list, cur, now)
  <2>1. \A cur : Resolved(cur) = IF asked(cur) = NoCertificate THEN Refused ELSE asked(cur)
    BY <1>5 DEF Resolve
  <2>2. CASE Candidates({t.cert.domain}, list, now) = {}
    <3>1. asked(current) = NoCertificate
      BY <2>2, BestOfNone
    <3>2. QED
      BY <1>2, <1>5, <2>1, <3>1
  <2>3. CASE Candidates({t.cert.domain}, list, now) # {}
    <3>1. asked(current) \in Nat \ {0} /\ asked(asked(current)) = asked(current)
      BY <2>3, BestAgain
    <3> HIDE DEF asked, Resolved
    <3>2. c = asked(current)
      BY <1>2, <1>5, <2>1, <3>1 DEF NoCertificate
    <3>3. again = asked(current)
      BY <3>1, <3>2
    <3>4. Chosen(t, again, list, now) = asked(current)
      BY <1>2, <1>5, <2>1, <3>1, <3>3 DEF NoCertificate
    <3>5. QED
      BY <3>1, <3>2, <3>4
  <2>4. QED
    BY <2>2, <2>3
<1>6. CASE t.cert.mode = "auto"
  <2> DEFINE whole(cur) == best(t.doms, list, cur, now)
             part(cur) == best({t.primary}, list, cur, now)
  <2>1. \A cur : Resolved(cur) =
          IF t.doms = {} \/ (whole(cur) = NoCertificate /\ Partial = "none") THEN NoCertificate
          ELSE IF whole(cur) # NoCertificate THEN whole(cur) ELSE part(cur)
    BY <1>6 DEF Resolve
  <2>2. \A cur : Chosen(t, cur, list, now) =
          IF Resolved(cur) = NoCertificate /\ AutoCreate /\ t.doms # {} THEN NewCertificate
          ELSE Resolved(cur)
    BY <1>6 DEF Chosen, resolveCertificate
  <2> HIDE DEF Resolved
  <2>3. CASE t.doms = {}
    BY <2>1, <2>2, <2>3 DEF NoCertificate
  <2>4. CASE t.doms # {} /\ Candidates(t.doms, list, now) # {}
    <3>1. whole(current) \in Nat \ {0} /\ whole(whole(current)) = whole(current)
      BY <2>4, BestAgain
    <3> HIDE DEF whole, part
    <3>2. Chosen(t, current, list, now) = whole(current)
      BY <2>1, <2>2, <2>4, <3>1 DEF NoCertificate
    <3>3. Chosen(t, whole(current), list, now) = whole(current)
      BY <2>1, <2>2, <2>4, <3>1 DEF NoCertificate
    <3>4. QED
      BY <3>1, <3>2, <3>3
  <2>5. CASE /\ t.doms # {} /\ Candidates(t.doms, list, now) = {}
             /\ Partial # "none" /\ Candidates({t.primary}, list, now) # {}
    <3>1. \A cur : whole(cur) = NoCertificate
      BY <2>5, BestOfNone
    <3>2. part(current) \in Nat \ {0} /\ part(part(current)) = part(current)
      BY <2>5, BestAgain
    <3> HIDE DEF whole, part
    <3>3. Chosen(t, current, list, now) = part(current)
      BY <2>1, <2>2, <2>5, <3>1, <3>2 DEF NoCertificate
    <3>4. Chosen(t, part(current), list, now) = part(current)
      BY <2>1, <2>2, <2>5, <3>1, <3>2 DEF NoCertificate
    <3>5. QED
      BY <3>2, <3>3, <3>4
  <2>6. CASE /\ t.doms # {} /\ Candidates(t.doms, list, now) = {}
             /\ Partial = "none" \/ Candidates({t.primary}, list, now) = {}
    <3>1. ~AutoCreate
      BY <1>6, <2>6 DEF Requests, NoneFits
    <3>2. \A cur : whole(cur) = NoCertificate
      BY <2>6, BestOfNone
    <3>3. Partial # "none" => \A cur : part(cur) = NoCertificate
      BY <2>6, BestOfNone
    <3> HIDE DEF whole, part
    <3>4. \A cur : Chosen(t, cur, list, now) = NoCertificate
      BY <2>1, <2>2, <3>1, <3>2, <3>3
    <3>5. QED
      BY <3>4 DEF NoCertificate
  <2>7. QED
    BY <2>3, <2>4, <2>5, <2>6
<1>7. QED
  BY <1>1, <1>3, <1>4, <1>5, <1>6, RequestsNew DEF Modes, Requests

\* A certificate issued for the domains of a host is the one it chooses from
\* then on.
LEMMA IssuedIsChosen ==
  ASSUME NEW t, t.cert.mode = "auto", NEW list, Listed(list), NEW now \in Nat,
         NEW id \in DOMAIN list, t.doms # {}, list[id].names = t.doms,
         list[id].provider = "letsencrypt", list[id].deleted = FALSE, list[id].expiry > now
  PROVE  Chosen(t, id, list, now) = id
<1> DEFINE winner == Winner(t.doms, list, now)
           C == Candidates(t.doms, list, now)
<1>1. classify(list[id], t.doms) = ExactOnly
  BY DEF classify, Covers
<1>2. id \in C
  BY <1>1 DEF Candidates, usable, ExactOnly, Unmatched
<1>3. winner \in C
  BY <1>2, WinnerFits
<1>4. classify(list[winner], t.doms) \in Nat /\ classify(list[winner], t.doms) >= ExactOnly
  BY DEF classify, Unmatched, ExactOnly, ExactExtra, Mixed, Wildcard
<1> HIDE DEF winner, C
<1>5. best(t.doms, list, id, now) = id
  BY <1>1, <1>2, <1>4 DEF best, winner, C
<1>6. id # NoCertificate
  BY DEF Listed, NoCertificate
<1>7. Resolve(t.cert, t.doms, t.primary, list, id, Partial, now) = id
  BY <1>5, <1>6 DEF Resolve
<1>8. QED
  BY <1>6, <1>7 DEF Chosen, resolveCertificate

---------------------------------------------------------------------------
(* A run and the next.                                                   *)

\* The labels ask for nothing upstream NPM would not show again: a location
\* switched off, or, before 2.12, a stream with a certificate.
NothingDrifts ==
  \A t \in Targets : Served \cap Upstream # {} =>
    /\ t.loc.enabled
    /\ "npm211" \in Served /\ t.kind = "stream" => t.cert.mode = "none"

\* The resource of a target, as Desired builds it.
Named(t, lists) == [t EXCEPT !.ids = resolveAccessLists(t, lists).ids]
Wanted(t, cert, lists, d) == Conform(BuildResource(Named(t, lists), cert), d)
Rebuilt(t, l, certs, lists, d, now) ==
  AdoptServerState(Wanted(t, Chosen(t, Current({l}), certs, now), lists, d), l)

\* The next run has nothing to write.
NothingToWrite(t, s, certs, lists, d, now) ==
  LET l == Decode(s)
  IN  Fingerprint(Rebuilt(t, l, certs, lists, d, now)) = Fingerprint(l)

\* The certificate of the one host that is there.
LEMMA CurrentOf ==
  ASSUME NEW l
  PROVE  Current({l}) = IF l.cert > 0 THEN l.cert ELSE NoCertificate
<1>1. (CHOOSE k \in {l} : TRUE) = l
  OBVIOUS
<1>2. QED
  BY <1>1 DEF Current

\* Such labels suit each release that is served.
LEMMA NamedSuits ==
  ASSUME NothingDrifts, NEW t \in Targets, NEW lists, t.names \subseteq DOMAIN lists,
         NEW release \in Served
  PROVE  LET u == Named(t, lists)
         IN  Suits(u, release) /\ u.kind = t.kind /\ u.key = t.key
<1> DEFINE u == Named(t, lists)
<1>1. /\ {"kind", "key", "ids", "names", "listType", "group", "cert", "doms", "primary"}
           \subseteq DOMAIN t
      /\ t.kind \in Kinds
  BY TargetsAssumption
<1>2. /\ {"forced", "hsts", "http2", "http3", "trust", "crowdOff", "reqOff", "frame", "loc",
          "scheme", "udp", "level", "user", "email"} \subseteq DOMAIN t
      /\ {t.hsts, t.http2, t.http3, t.trust, t.crowdOff, t.reqOff, t.loc.enabled} \subseteq BOOLEAN
      /\ DOMAIN NoLocation \subseteq DOMAIN t.loc /\ t.level \in Nat
      /\ t.kind # "proxy" => ~t.trust /\ t.frame = ""
      /\ t.listType \in {"", "public", "custom"}
      /\ t.listType = "custom" => t.ids \cup t.names # {}
  BY SettingsAssumption
<1>3. release \in Upstream => t.loc.enabled
  BY DEF NothingDrifts
<1>4. /\ u.kind = t.kind /\ u.key = t.key /\ DOMAIN u = DOMAIN t /\ u.loc = t.loc
      /\ u.hsts = t.hsts /\ u.http2 = t.http2 /\ u.http3 = t.http3 /\ u.trust = t.trust
      /\ u.crowdOff = t.crowdOff /\ u.reqOff = t.reqOff /\ u.level = t.level
      /\ u.frame = t.frame /\ u.listType = t.listType
      /\ u.ids = t.ids \cup {lists[n] : n \in t.names}
  BY <1>1 DEF Named, resolveAccessLists
<1>5. DOMAIN NoLocation = {"there", "enabled", "ids", "listType", "frame", "config"}
  BY DEF NoLocation
<1> HIDE DEF u
<1>6. Asks(u)
  <2>1. {"kind", "key", "cert", "doms", "primary", "forced", "hsts", "http2", "http3", "trust",
         "ids", "listType", "crowdOff", "reqOff", "frame", "loc", "scheme", "udp", "level",
         "user", "group", "email"} \subseteq DOMAIN u
    <3>1. {"kind", "key", "ids", "listType", "group", "cert", "doms", "primary"} \subseteq DOMAIN u
      BY <1>1, <1>4
    <3>2. {"forced", "hsts", "http2", "http3", "trust", "crowdOff", "reqOff", "frame", "loc",
           "scheme", "udp", "level", "user", "email"} \subseteq DOMAIN u
      BY <1>2, <1>4
    <3>3. QED
      BY <3>1, <3>2
  <2>2. {u.hsts, u.http2, u.http3, u.trust, u.crowdOff, u.reqOff, u.loc.enabled}
          \subseteq BOOLEAN
    BY <1>2, <1>4
  <2>3. {"there", "enabled", "ids", "listType", "frame", "config"} \subseteq DOMAIN u.loc
    BY <1>2, <1>4, <1>5
  <2>4. QED
    BY <2>1, <2>2, <2>3 DEF Asks
<1>7. t.listType = "custom" => u.ids # {}
  <2>1. ASSUME NEW n \in t.names PROVE lists[n] \in u.ids
    BY <1>4
  <2>2. ASSUME NEW n \in t.ids PROVE n \in u.ids
    BY <1>4
  <2>3. QED
    BY <1>2, <2>1, <2>2
<1>8. t.kind # "proxy" => t.trust = FALSE
  BY <1>2
<1>9. Suits(u, release)
  BY <1>1, <1>2, <1>3, <1>4, <1>6, <1>7, <1>8 DEF Suits
<1>10. QED
  BY <1>4, <1>9 DEF u

\* What is wanted, and what is written of it.
LEMMA WantedFields ==
  ASSUME NEW t, NEW lists, NEW cert, NEW d, Asks(Named(t, lists))
  PROVE  LET b == BuildResource(Named(t, lists), cert)
         IN  IsBuilt(b, Named(t, lists), cert) /\ IsConform(Wanted(t, cert, lists, d), b, d)
<1> DEFINE u == Named(t, lists)
           b == BuildResource(u, cert)
<1>1. IsBuilt(b, u, cert)
  BY BuiltFields
<1>2. Full(b)
  BY <1>1 DEF IsBuilt
<1>3. /\ b.http2 = (Secure(u, cert) /\ u.http2) /\ b.http3 = (Secure(u, cert) /\ u.http3)
      /\ b.trust = u.trust /\ b.crowdOff = u.crowdOff /\ b.reqOff = u.reqOff
  BY <1>1 DEF IsBuilt
<1>4. Bools(b)
  BY <1>3 DEF Asks, Bools
<1> HIDE DEF b, u
<1>5. IsConform(Conform(b, d), b, d)
  BY <1>2, <1>4, ConformFields
<1>6. QED
  BY <1>1, <1>5 DEF b, u, Wanted

\* What is adopted does not touch what is wanted.
LEMMA AdoptedIsWritten ==
  ASSUME NEW q, NEW r, Full(q), r = q \/ \E l : IsAdopted(r, q, l)
  PROVE  IsWritten(r, q)
<1>1. CASE r = q
  BY <1>1 DEF IsWritten
<1>2. ASSUME NEW l, IsAdopted(r, q, l)
      PROVE  IsWritten(r, q)
  BY <1>2 DEF IsWritten, IsAdopted
<1>3. QED
  BY <1>1, <1>2

\* The run before: what it wrote, for the certificate it chose and the host it
\* found, if any; and the lists the next one works with.
Replaced(t, live, certs, lists, d, now) ==
  LET q == Wanted(t, Chosen(t, Current(live), certs, now), lists, d)
  IN  IF live = {} THEN q ELSE AdoptServerState(q, CHOOSE l \in live : TRUE)
Ran(t, release, d, old, live, certs, lists, now, id) ==
  /\ t \in Targets /\ release \in Served /\ release \in Releases /\ d = Probe(release)
  /\ t.names \subseteq DOMAIN lists
  /\ IsLean(old, t.kind, release) /\ old.key = t.key
  /\ live = {} \/ live = {Decode(old)}
  /\ Listed(certs) /\ now \in Nat /\ now <= MaxTime /\ id \in Nat \ {0} /\ id \notin DOMAIN certs
  /\ Chosen(t, Current(live), certs, now) # Refused
IssuedFor(t) == [names |-> t.doms, provider |-> "letsencrypt", deleted |-> FALSE,
                 expiry |-> MaxTime + 1, nice |-> ""]

\* What the host and the list of certificates hold of that run.
Rewrote(t, release, d, old, live, certs, lists, now, id, cert, x, certs2) ==
  LET r == Replaced(t, live, certs, lists, d, now)
  IN  /\ cert = IF r.cert = NewCertificate THEN id ELSE r.cert
      /\ x.cert = IF t.kind = "stream" /\ release = "npm211" THEN old.cert ELSE cert
      /\ certs2 = certs
           \/ (r.cert = NewCertificate /\ certs2 = With(certs, id, IssuedFor(t)))

\* The certificate the host has then is the one the next run chooses, or the next
\* run asks for a new one and adopts it.
LEMMA CertReturns ==
  ASSUME NothingDrifts, NEW t, NEW release, NEW d, NEW old, NEW live, NEW certs, NEW lists,
         NEW now, NEW id, Ran(t, release, d, old, live, certs, lists, now, id),
         NEW cert, NEW x, NEW certs2,
         Rewrote(t, release, d, old, live, certs, lists, now, id, cert, x, certs2)
  PROVE  LET c1 == Chosen(t, Current(live), certs, now)
             c2 == Chosen(t, Current({x}), certs2, now)
         IN  /\ c2 = x.cert \/ (c2 = NewCertificate /\ x.cert > 0)
             /\ t.kind # "stream" => (c1 # NoCertificate <=> cert # NoCertificate)
                                     /\ (c2 # NoCertificate <=> cert # NoCertificate)
<1> DEFINE c1 == Chosen(t, Current(live), certs, now)
           c2 == Chosen(t, Current({x}), certs2, now)
           r == Replaced(t, live, certs, lists, d, now)
           l == Decode(old)
           bare == t.kind = "stream" /\ release = "npm211"
<1>1. /\ t \in Targets /\ release \in Served /\ t.names \subseteq DOMAIN lists
      /\ (live = {} \/ live = {l}) /\ Listed(certs) /\ now \in Nat /\ now <= MaxTime
      /\ id \in Nat \ {0} /\ id \notin DOMAIN certs /\ c1 # Refused
  BY DEF Ran
<1>2. r.cert = IF live # {} /\ c1 = NewCertificate /\ l.cert > 0 THEN l.cert ELSE c1
  <2> DEFINE q == Wanted(t, c1, lists, d)
             b == BuildResource(Named(t, lists), c1)
  <2>1. Suits(Named(t, lists), release)
    BY <1>1, NamedSuits
  <2>2. IsBuilt(b, Named(t, lists), c1) /\ IsConform(q, b, d)
    BY <2>1, WantedFields DEF Suits
  <2>3. q.cert = c1 /\ Full(q)
    BY <2>2 DEF IsBuilt, IsConform
  <2>4. r = IF live = {} THEN q ELSE AdoptServerState(q, CHOOSE k \in live : TRUE)
    BY DEF Replaced
  <2> HIDE DEF q, b, c1, r, l
  <2>5. live # {} => r = AdoptServerState(q, l)
    BY <1>1, <2>4
  <2>6. IsAdopted(AdoptServerState(q, l), q, l)
    BY <2>3, AdoptFields
  <2>7. QED
    BY <2>3, <2>4, <2>5, <2>6 DEF IsAdopted
<1>3. Current({x}) = IF x.cert > 0 THEN x.cert ELSE NoCertificate
  BY CurrentOf
<1>4. /\ cert = IF r.cert = NewCertificate THEN id ELSE r.cert
      /\ x.cert = IF bare THEN old.cert ELSE cert
      /\ certs2 = certs \/ (r.cert = NewCertificate /\ certs2 = With(certs, id, IssuedFor(t)))
  BY DEF Rewrote
<1>5. /\ c2 = x.cert \/ (c2 = NewCertificate /\ x.cert > 0)
      /\ ~bare => (c1 # NoCertificate <=> cert # NoCertificate)
  <2>1. CASE bare
    <3>1. t.cert.mode = "none"
      BY <1>1, <2>1 DEF NothingDrifts, Upstream
    <3>2. c2 = NoCertificate
      BY <3>1 DEF Chosen, resolveCertificate, Resolve
    <3>3. x.cert = NoCertificate
      BY <1>4, <2>1 DEF Ran, IsLean
    <3>4. QED
      BY <2>1, <3>2, <3>3
  <2>2. CASE ~bare /\ Requests(t, certs, now) /\ live # {} /\ l.cert > 0
    <3>1. c1 = NewCertificate
      BY <2>2, RequestsNew
    <3> HIDE DEF r, l, c1
    <3>2. r.cert = l.cert /\ r.cert # NewCertificate /\ r.cert # NoCertificate
      BY <1>2, <2>2, <3>1 DEF NewCertificate, NoCertificate
    <3>3. cert = l.cert /\ x.cert = l.cert /\ certs2 = certs
      BY <1>4, <2>2, <3>2
    <3>4. c2 = NewCertificate
      BY <2>2, <3>3, RequestsNew
    <3>5. QED
      BY <2>2, <3>1, <3>2, <3>3, <3>4 DEF NewCertificate, NoCertificate
  <2>3. CASE ~bare /\ Requests(t, certs, now) /\ ~(live # {} /\ l.cert > 0)
    <3>1. c1 = NewCertificate
      BY <2>3, RequestsNew
    <3> HIDE DEF r, l, c1
    <3>2. r.cert = NewCertificate /\ cert = id /\ x.cert = id
      BY <1>2, <1>4, <2>3, <3>1
    <3>3. Current({x}) = id
      BY <1>1, <1>3, <3>2
    <3>4. CASE certs2 = certs \/ t.cert.mode = "new"
      <4>1. Requests(t, certs2, now)
        BY <2>3, <3>4 DEF Requests
      <4>2. c2 = NewCertificate
        BY <4>1, RequestsNew
      <4>3. QED
        BY <1>1, <3>1, <3>2, <4>2 DEF NewCertificate, NoCertificate
    <3>5. CASE certs2 = With(certs, id, IssuedFor(t)) /\ t.cert.mode # "new"
      <4> DEFINE issued == IssuedFor(t)
      <4>1. t.cert.mode = "auto" /\ t.doms # {} /\ <<>> \notin t.doms
        BY <1>1, <2>3, <3>5, TargetsAssumption DEF Requests, NoneFits
      <4>2. /\ issued.names = t.doms /\ issued.provider = "letsencrypt"
            /\ issued.deleted = FALSE /\ issued.expiry = MaxTime + 1
            /\ {"names", "provider", "deleted", "expiry"} \subseteq DOMAIN issued
        BY DEF IssuedFor
      <4>3. MaxTime + 1 \in Nat /\ MaxTime + 1 > now
        BY <1>1, HostAssumption
      <4> HIDE DEF issued
      <4>4. Listed(certs2) /\ id \in DOMAIN certs2
        <5>1. issued.expiry \in Nat /\ <<>> \notin issued.names
          BY <4>1, <4>2, <4>3
        <5>2. LET new == With(certs, id, issued)
              IN  Listed(new) /\ DOMAIN new = DOMAIN certs \cup {id}
          BY <1>1, <4>2, <5>1, AddedIsListed
        <5>3. QED
          BY <3>5, <5>2 DEF issued
      <4>5. certs2[id] = issued
        BY <3>5 DEF With, issued
      <4>6. Chosen(t, id, certs2, now) = id
        <5>1. /\ certs2[id].names = t.doms /\ certs2[id].provider = "letsencrypt"
              /\ certs2[id].deleted = FALSE /\ certs2[id].expiry > now
          BY <4>2, <4>3, <4>5
        <5>2. QED
          BY <1>1, <4>1, <4>4, <5>1, IssuedIsChosen
      <4>7. QED
        BY <1>1, <3>1, <3>2, <3>3, <4>6 DEF NewCertificate, NoCertificate
    <3>6. QED
      BY <1>4, <3>4, <3>5
  <2>4. CASE ~bare /\ ~Requests(t, certs, now)
    <3>1. c1 \in Nat /\ Chosen(t, IF c1 > 0 THEN c1 ELSE NoCertificate, certs, now) = c1
      BY <1>1, <2>4, ChoiceStays
    <3> HIDE DEF r, l, c1
    <3>2. r.cert = c1 /\ c1 # NewCertificate
      BY <1>2, <3>1 DEF NewCertificate
    <3>3. cert = c1 /\ x.cert = c1 /\ certs2 = certs
      BY <1>4, <2>4, <3>2
    <3>4. c2 = c1
      BY <1>3, <3>1, <3>3
    <3>5. QED
      BY <3>3, <3>4
  <2>5. QED
    BY <2>1, <2>2, <2>3, <2>4
<1> HIDE DEF r, c1, c2, l
<1>6. QED
  BY <1>4, <1>5 DEF c1, c2, NewCertificate, NoCertificate

\* What a run has written is what the next one would write again.
LEMMA WrittenReturns ==
  ASSUME NothingDrifts, NEW t, NEW release, NEW d, NEW old, NEW live, NEW certs, NEW lists,
         NEW now, NEW id, Ran(t, release, d, old, live, certs, lists, now, id), NEW certs2,
         LET r == Replaced(t, live, certs, lists, d, now)
         IN  certs2 = certs
               \/ (r.cert = NewCertificate /\ certs2 = With(certs, id, IssuedFor(t)))
  PROVE  LET r == Replaced(t, live, certs, lists, d, now)
             cert == IF r.cert = NewCertificate THEN id ELSE r.cert
         IN  NothingToWrite(t, Store(release, old, Payload(r, d), cert), certs2, lists, d, now)
<1> DEFINE c1 == Chosen(t, Current(live), certs, now)
           r == Replaced(t, live, certs, lists, d, now)
           cert == IF r.cert = NewCertificate THEN id ELSE r.cert
           s == Store(release, old, Payload(r, d), cert)
           x == Decode(s)
           c2 == Chosen(t, Current({x}), certs2, now)
           u == Named(t, lists)
           b1 == BuildResource(u, c1)
           q1 == Wanted(t, c1, lists, d)
           b2 == BuildResource(u, c2)
           q2 == Wanted(t, c2, lists, d)
           q == Rebuilt(t, x, certs2, lists, d, now)
           F == Payload(r, d).fields
<1>1. /\ t \in Targets /\ release \in Served /\ release \in Releases /\ d = Probe(release)
      /\ t.names \subseteq DOMAIN lists /\ (live = {} \/ live = {Decode(old)})
      /\ IsLean(old, t.kind, release) /\ old.key = t.key
  BY DEF Ran
<1>2. Suits(u, release) /\ u.kind = t.kind /\ u.key = t.key
  BY <1>1, NamedSuits
<1>3. Knows(d, release, u.kind)
  BY <1>1, <1>2, ProbeKnows DEF Suits
<1>4. /\ IsBuilt(b1, u, c1) /\ IsConform(q1, b1, d)
      /\ IsBuilt(b2, u, c2) /\ IsConform(q2, b2, d)
  BY <1>2, WantedFields DEF Suits
<1>5. Full(q1) /\ Full(q2) /\ q1.kind = t.kind
  BY <1>2, <1>4 DEF IsConform, IsBuilt
<1>6. q = AdoptServerState(q2, x)
  BY DEF Rebuilt
<1>7. IsReadBack(x, r, d, release, old, cert)
  BY ReadBack
<1>8. r = IF live = {} THEN q1 ELSE AdoptServerState(q1, CHOOSE k \in live : TRUE)
  BY DEF Replaced
<1> HIDE DEF c1, r, cert, s, x, c2, u, b1, q1, b2, q2, q
<1>9. IsWritten(r, q1)
  <2>1. r = q1 \/ \E l : IsAdopted(r, q1, l)
    BY <1>5, <1>8, AdoptFields
  <2>2. QED
    BY <1>5, <2>1, AdoptedIsWritten
<1>10. IsAdopted(q, q2, x)
  BY <1>5, <1>6, AdoptFields
<1>11. x.cert = IF t.kind = "stream" /\ release = "npm211" THEN old.cert ELSE cert
  <2>1. r.kind = t.kind
    BY <1>5, <1>9 DEF IsWritten
  <2>2. x.cert = IF r.kind = "stream" /\ "certificate_id" \notin F THEN old.cert ELSE cert
    BY <1>7 DEF IsReadBack
  <2>3. F = Body(d, t.kind) \ (ColumnFields \ columnsFor(r))
    BY <2>1 DEF Payload
  <2>4. t.kind = "stream" => ("certificate_id" \in Body(d, t.kind) <=> release # "npm211")
    BY <1>1, <1>2, <1>3, BodyFields DEF Suits
  <2>5. t.kind = "stream" => ("certificate_id" \in F <=> release # "npm211")
    BY <2>3, <2>4 DEF ColumnFields
  <2> HIDE DEF F
  <2>6. QED
    BY <2>1, <2>2, <2>5
<1>12. /\ c2 = x.cert \/ (c2 = NewCertificate /\ x.cert > 0)
       /\ t.kind # "stream" => (c1 # NoCertificate <=> cert # NoCertificate)
                               /\ (c2 # NoCertificate <=> cert # NoCertificate)
  <2>1. certs2 = certs \/ (r.cert = NewCertificate /\ certs2 = With(certs, id, IssuedFor(t)))
    BY DEF r
  <2>2. Rewrote(t, release, d, old, live, certs, lists, now, id, cert, x, certs2)
    BY <1>11, <2>1 DEF Rewrote, r, cert
  <2>3. QED
    BY <2>2, CertReturns DEF c1, c2
<1>13. q.cert = x.cert
  <2>1. q2.cert = c2
    BY <1>4 DEF IsConform, IsBuilt
  <2>2. QED
    BY <1>10, <1>12, <2>1 DEF IsAdopted
<1>14. RoundTrip(u, release, d, old, c1, r, cert, x, c2, q)
  BY <1>1, <1>2, <1>3, <1>4, <1>7, <1>9, <1>10, <1>12 DEF RoundTrip
<1>15. Fingerprint(q) = Fingerprint(x)
  BY <1>13, <1>14, SettingsReturn
<1>16. QED
  BY <1>15 DEF NothingToWrite, q, x, s, r, cert

---------------------------------------------------------------------------
(* A host that is settled, in every reachable state.                     *)

\* The hosts in every state: those of one kind, with nothing their release would
\* neither take nor clear.
HasSettings(s) ==
  /\ {"kind", "key", "cert", "http2", "trust", "adv", "meta", "column"} \subseteq DOMAIN s
  /\ {"user", "broken", "marks"} \subseteq DOMAIN s.adv
  /\ {"owner", "dir"} \subseteq DOMAIN s.meta
HostsAreLean ==
  /\ "settled" \in DOMAIN seen
  /\ {"release", "certs", "gone", "now"} \subseteq DOMAIN server
  /\ {"certs", "lists", "known", "cache"} \subseteq DOMAIN worker
  /\ server.release \in Served /\ server.now \in Nat /\ server.now <= MaxTime
  /\ \A s \in hosts : /\ HasSettings(s) /\ s.kind = target.kind
                      /\ IsLean(s, target.kind, server.release)

\* While a host is settled there is nothing to write, with the certificates the
\* process has or those it would read now.
Settled ==
  seen.settled =>
    /\ dialect = Probe(server.release)
    /\ target.names = {} \/ worker.lists = server.lists
    /\ \E s \in hosts :
         /\ Hosts(target.key) = {s}
         /\ \A certs \in {worker.certs, server.certs} :
              NothingToWrite(target, s, certs, worker.lists, dialect, server.now)

\* What a run does: nothing to the hosts, or it writes one.
Writes(old) ==
  LET t == run.target
      r == Desired(t, run.live, worker, dialect)
      p == Payload(r, dialect)
  IN  /\ t.names \subseteq DOMAIN worker.lists
      /\ Certificate(t, run.live, worker.certs) # Refused
      /\ old \in IF Hosts(r.key) = {} THEN {NoHost(r.kind, r.key)} ELSE Hosts(r.key)
      /\ Taken(p) /\ dialect' = dialect
      /\ hosts' = (hosts \ Hosts(r.key)) \cup
           {Store(server.release, old, p, IF p.cert = NewCertificate THEN Issued ELSE p.cert)}
      /\ server' = IF p.cert # NewCertificate THEN server
                   ELSE [server EXCEPT !.certs = With(@, Issued, IssuedFor(t))]
      /\ worker' = [worker EXCEPT !.cache = {Fingerprint(r)}]
      /\ seen' = [seen EXCEPT !.written = WrittenAs(dialect),
                    !.settled = /\ dialect = Probe(server.release) /\ t = target
                                /\ run.live = {Decode(s) : s \in Hosts(target.key)}
                                /\ worker.certs = server.certs
                                /\ target.names = {} \/ worker.lists = server.lists]
Rests == /\ UNCHANGED <<hosts, server, seen>> /\ dialect' \in {dialect, Probe(server.release)}
         /\ DOMAIN worker' = DOMAIN worker
         /\ worker'.certs = worker.certs /\ worker'.lists = worker.lists

\* A run of a target does one or the other.
LEMMA ApplyDoes ==
  ASSUME Apply
  PROVE  /\ run.phase = "loaded" /\ UNCHANGED target /\ run' = Idle
         /\ Rests \/ \E old : Writes(old)
<1> DEFINE t == run.target
           r == Desired(t, run.live, worker, dialect)
           p == Payload(r, dialect)
<1>1. run.phase = "loaded" /\ UNCHANGED target /\ run' = Idle
  BY DEF Apply
<1> HIDE DEF r, p
<1>2. \/ UNCHANGED <<hosts, server, worker, seen, dialect>>
      \/ /\ worker' = [worker EXCEPT !.cache = {Fingerprint(r)}]
         /\ UNCHANGED <<hosts, server, seen, dialect>>
      \/ /\ ~Skipped(t, run.live, worker)
         /\ \E old \in IF Hosts(r.key) = {} THEN {NoHost(r.kind, r.key)} ELSE Hosts(r.key) :
              Write(r, p, old)
  BY DEF Apply, r, p
<1>3. CASE UNCHANGED <<hosts, server, worker, seen, dialect>>
  BY <1>1, <1>3 DEF Rests
<1>4. CASE /\ worker' = [worker EXCEPT !.cache = {Fingerprint(r)}]
           /\ UNCHANGED <<hosts, server, seen, dialect>>
  <2>1. \A c : LET w == [worker EXCEPT !.cache = c]
             IN  DOMAIN w = DOMAIN worker /\ w.certs = worker.certs /\ w.lists = worker.lists
    OBVIOUS
  <2>2. QED
    BY <1>1, <1>4, <2>1 DEF Rests
<1>5. ASSUME ~Skipped(t, run.live, worker), NEW old,
             old \in IF Hosts(r.key) = {} THEN {NoHost(r.kind, r.key)} ELSE Hosts(r.key),
             Write(r, p, old)
      PROVE  Rests \/ Writes(old)
  <2>1. CASE ~Taken(p)
    BY <1>5, <2>1 DEF Write, Rests
  <2>2. CASE Taken(p)
    <3>1. t.names \subseteq DOMAIN worker.lists /\ Certificate(t, run.live, worker.certs) # Refused
      BY <1>5 DEF Skipped, resolveAccessLists
    <3>2. QED
      BY <1>5, <2>2, <3>1 DEF Write, Writes, IssuedFor, r, p
  <2>3. QED
    BY <2>1, <2>2
<1>6. QED
  BY <1>1, <1>2, <1>3, <1>4, <1>5

\* A run that writes an undisturbed host leaves nothing for the next one.
LEMMA WriteSettles ==
  ASSUME NothingDrifts, IInv, KInv, CInv, HostsAreLean, UNCHANGED target, NEW old, Writes(old),
         seen'.settled
  PROVE  Settled'
<1> DEFINE t == target
           release == server.release
           d == dialect
           live == run.live
           certs == worker.certs
           lists == worker.lists
           now == server.now
           r == Replaced(t, live, certs, lists, d, now)
           cert == IF r.cert = NewCertificate THEN Issued ELSE r.cert
           s == Store(release, old, Payload(r, d), cert)
<1>1. /\ d = Probe(release) /\ run.target = t /\ live = {Decode(q) : q \in Hosts(t.key)}
      /\ certs = server.certs /\ (t.names = {} \/ lists = server.lists)
  BY DEF Writes, HostsAreLean
<1>2. Desired(run.target, live, worker, d) = r
  <2>1. Certificate(t, live, certs) = Chosen(t, Current(live), certs, now)
    BY DEF Certificate, Chosen
  <2>2. QED
    BY <1>1, <2>1 DEF Desired, Replaced, Wanted, Named
<1>3. r.key = t.key /\ r.kind = t.kind
  <2>1. {"kind", "key", "ids", "listType", "group", "cert"} \subseteq DOMAIN t
    BY TargetsAssumption DEF IInv
  <2>2. QED
    BY <1>1, <1>2, <2>1, DesiredKeeps
<1>4. Payload(r, d).cert = r.cert
  BY PayloadKeeps
<1> HIDE DEF r
<1>5. /\ t.names \subseteq DOMAIN lists /\ Chosen(t, Current(live), certs, now) # Refused
      /\ old \in IF Hosts(t.key) = {} THEN {NoHost(t.kind, t.key)} ELSE Hosts(t.key)
      /\ Taken(Payload(r, d)) /\ dialect' = d
      /\ hosts' = (hosts \ Hosts(t.key)) \cup {s}
      /\ server' = IF r.cert # NewCertificate THEN server
                   ELSE [server EXCEPT !.certs = With(@, Issued, IssuedFor(t))]
      /\ worker' = [worker EXCEPT !.cache = {Fingerprint(r)}]
  BY <1>1, <1>2, <1>3, <1>4 DEF Writes, Certificate, Chosen
<1>6. IsLean(old, t.kind, release) /\ old.key = t.key
  <2>1. CASE old = NoHost(t.kind, t.key)
    BY <2>1 DEF NoHost, IsLean
  <2>2. CASE old \in Hosts(t.key)
    BY <2>2 DEF Hosts, HostsAreLean
  <2>3. QED
    BY <1>5, <2>1, <2>2
<1>7. live = {} \/ live = {Decode(old)}
  <2>1. \A q \in Hosts(t.key) : q = old
    BY <1>5, <1>6 DEF Hosts, KInv, HostsAreApart
  <2>2. QED
    BY <1>1, <1>5, <2>1
<1>8. Issued \in Nat \ {0} /\ Issued \notin DOMAIN certs
  BY <1>1, IssuedIsNew
<1>9. Ran(t, release, d, old, live, certs, lists, now, Issued)
  <2>1. t \in Targets /\ release \in Releases /\ Listed(certs)
    BY DEF IInv, KInv, ViewIsReal, CInv, ListsAreReal
  <2>2. release \in Served /\ now \in Nat /\ now <= MaxTime
    BY DEF HostsAreLean
  <2>3. QED
    BY <1>1, <1>5, <1>6, <1>7, <1>8, <2>1, <2>2 DEF Ran
<1>10. ASSUME NEW certs2,
              certs2 = certs
                \/ (r.cert = NewCertificate /\ certs2 = With(certs, Issued, IssuedFor(t)))
       PROVE  NothingToWrite(t, s, certs2, lists, d, now)
  BY <1>9, <1>10, WrittenReturns DEF r
<1>11. /\ server'.release = release /\ server'.now = now
       /\ server'.lists = server.lists
       /\ server'.certs = certs
            \/ (r.cert = NewCertificate /\ server'.certs = With(certs, Issued, IssuedFor(t)))
  BY <1>1, <1>5 DEF HostsAreLean
<1>12. worker'.certs = certs /\ worker'.lists = lists
  BY <1>5
<1>13. s.key = t.key
  BY <1>6, StoreKeeps
<1> HIDE DEF s
<1>14. Hosts(target.key)' = {s} /\ s \in hosts'
  BY <1>5, <1>13 DEF Hosts
<1>15. \A certs2 \in {worker'.certs, server'.certs} :
         NothingToWrite(t, s, certs2, lists, d, now)
  BY <1>10, <1>11, <1>12
<1>16. \A certs2 \in {worker'.certs, server'.certs} :
         NothingToWrite(target', s, certs2, worker'.lists, dialect', server'.now)
  BY <1>5, <1>11, <1>12, <1>15
<1>17. dialect' = Probe(server'.release) /\ (target'.names = {} \/ worker'.lists = server'.lists)
  BY <1>1, <1>5, <1>11, <1>12
<1>18. QED
  BY <1>14, <1>16, <1>17 DEF Settled

\* What the UI makes of a host leaves it lean.
LEMMA EditsAreLean ==
  ASSUME NEW s, HasSettings(s), NEW kind, NEW release, IsLean(s, kind, release)
  PROVE  /\ LET q == [s EXCEPT !.key = OtherKey]
            IN  HasSettings(q) /\ q.kind = s.kind /\ IsLean(q, kind, release)
         /\ s.adv.marks # {} =>
              \A q \in {[s EXCEPT !.adv.broken = TRUE, !.adv.marks = {}],
                        [s EXCEPT !.adv.marks = {}]} :
                HasSettings(q) /\ q.kind = s.kind /\ IsLean(q, kind, release)
         /\ LET q == [s EXCEPT !.column = "picked"]
            IN  HasSettings(q) /\ q.kind = s.kind /\ IsLean(q, kind, release)
         /\ release # "plusColumns" =>
              LET q == [s EXCEPT !.meta.dir = "picked"]
              IN  HasSettings(q) /\ q.kind = s.kind /\ IsLean(q, kind, release)
<1>1. LET q == [s EXCEPT !.key = OtherKey]
      IN  HasSettings(q) /\ q.kind = s.kind /\ IsLean(q, kind, release)
  BY DEF HasSettings, IsLean
<1>2. ASSUME s.adv.marks # {},
             NEW q \in {[s EXCEPT !.adv.broken = TRUE, !.adv.marks = {}],
                        [s EXCEPT !.adv.marks = {}]}
      PROVE  HasSettings(q) /\ q.kind = s.kind /\ IsLean(q, kind, release)
  <2>1. /\ q.kind = s.kind /\ q.cert = s.cert /\ q.http2 = s.http2 /\ q.trust = s.trust
        /\ q.meta = s.meta /\ DOMAIN q = DOMAIN s /\ DOMAIN q.adv = DOMAIN s.adv
    BY <1>2 DEF HasSettings
  <2>2. ~(kind = "stream" /\ release \in Upstream)
    BY <1>2 DEF IsLean
  <2>3. QED
    BY <2>1, <2>2 DEF HasSettings, IsLean
<1>3. LET q == [s EXCEPT !.column = "picked"]
      IN  HasSettings(q) /\ q.kind = s.kind /\ IsLean(q, kind, release)
  BY DEF HasSettings, IsLean
<1>4. release # "plusColumns" =>
        LET q == [s EXCEPT !.meta.dir = "picked"]
        IN  HasSettings(q) /\ q.kind = s.kind /\ IsLean(q, kind, release)
  BY DEF HasSettings, IsLean
<1>5. QED
  BY <1>1, <1>2, <1>3, <1>4

\* An upgrade keeps a host lean: the releases only go up.
LEMMA UpgradesAreLean ==
  ASSUME NEW s, HasSettings(s), NEW kind, NEW release \in Releases, IsLean(s, kind, release),
         NEW to \in Releases, Rank(to) > Rank(release)
  PROVE  LET q == Migrate(s, to)
         IN  HasSettings(q) /\ q.kind = s.kind /\ IsLean(q, kind, to)
<1> DEFINE q == Migrate(s, to)
<1>1. CASE to \in Upstream
  <2>1. q = s
    BY <1>1 DEF Migrate, Upstream
  <2>2. release = "npm211" /\ to = "npm212"
    BY <1>1 DEF Rank, Upstream, Releases
  <2>3. QED
    BY <2>1, <2>2 DEF IsLean, Upstream
<1>2. CASE to = "plusMeta"
  <2>1. /\ DOMAIN q = DOMAIN s /\ q.kind = s.kind /\ q.adv = s.adv /\ q.meta = s.meta
        /\ q.http2 = s.http2 /\ q.trust = s.trust
    BY <1>2 DEF Migrate, Upstream, HasSettings
  <2>2. release \in Upstream
    BY <1>2 DEF Rank, Upstream, Releases
  <2> HIDE DEF q
  <2>3. QED
    BY <1>2, <2>1, <2>2 DEF IsLean, HasSettings, Upstream, q
<1>3. CASE to = "plusColumns"
  <2>1. /\ DOMAIN q = DOMAIN s /\ q.kind = s.kind /\ q.adv = s.adv
        /\ q.meta = [owner |-> Hand, dir |-> Unset, email |-> FALSE]
        /\ q.http2 = FALSE /\ q.trust = FALSE
    BY <1>3 DEF Migrate, Upstream, HasSettings
  <2> HIDE DEF q
  <2>2. HasSettings(q)
    BY <2>1 DEF HasSettings
  <2>3. q.meta.dir = Unset /\ to \notin Upstream /\ to # "npm211"
    BY <1>3, <2>1 DEF Upstream
  <2>4. IsLean(q, kind, to)
    BY <2>1, <2>3 DEF IsLean
  <2>5. QED
    BY <2>1, <2>2, <2>4 DEF q
<1> HIDE DEF q
<1>4. QED
  BY <1>1, <1>2, <1>3 DEF Releases, Upstream, q

\* So does a run that writes: what a release does not take, it keeps as it was.
LEMMA WritesAreLean ==
  ASSUME NEW release, NEW old, NEW kind \in Kinds, NEW p, NEW cert,
         p.kind = kind, p.fields \subseteq Takes(release, kind), release \in Releases,
         old.kind = kind, IsLean(old, kind, release),
         {"user", "broken", "marks"} \subseteq DOMAIN old.adv \cap DOMAIN p.adv,
         {"owner", "dir"} \subseteq DOMAIN old.meta \cap DOMAIN p.meta
  PROVE  LET s == Store(release, old, p, cert)
         IN  HasSettings(s) /\ s.kind = kind /\ IsLean(s, kind, release)
<1> DEFINE s == Store(release, old, p, cert)
<1>1. /\ kind = "stream" \/ release = "plusColumns" => "http2_support" \notin p.fields
      /\ kind # "proxy" \/ release \in {"npm211", "plusColumns"} =>
           "trust_forwarded_proto" \notin p.fields
      /\ release = "plusColumns" => "meta" \notin p.fields
      /\ kind = "stream" /\ release = "npm211" => "certificate_id" \notin p.fields
  <2>1. kind = "stream" \/ release = "plusColumns" => "http2_support" \notin Takes(release, kind)
    BY DEF Takes, LegacySwitches, Upstream, Kinds, Releases
  <2>2. kind # "proxy" \/ release \in {"npm211", "plusColumns"} =>
          "trust_forwarded_proto" \notin Takes(release, kind)
    BY DEF Takes, LegacySwitches, Upstream, Kinds, Releases
  <2>3. release = "plusColumns" => "meta" \notin Takes(release, kind)
    BY DEF Takes, LegacySwitches, Upstream, Kinds, Releases
  <2>4. kind = "stream" /\ release = "npm211" => "certificate_id" \notin Takes(release, kind)
    BY DEF Takes, LegacySwitches, Upstream, Kinds, Releases
  <2>5. QED
    BY <2>1, <2>2, <2>3, <2>4
<1>2. /\ s.kind = old.kind
      /\ {"kind", "key", "cert", "http2", "trust", "adv", "meta", "column"} \subseteq DOMAIN s
      /\ s.adv \in {old.adv, p.adv} /\ s.meta \in {old.meta, p.meta}
      /\ "http2_support" \notin p.fields => s.http2 = old.http2
      /\ "trust_forwarded_proto" \notin p.fields => s.trust = old.trust
      /\ "meta" \notin p.fields => s.meta = old.meta
      /\ p.kind = "stream" /\ release \in Upstream => s.adv = old.adv
      /\ p.kind = "stream" /\ "certificate_id" \notin p.fields => s.cert = old.cert
  BY DEF Store
<1> HIDE DEF s
<1>3. HasSettings(s)
  BY <1>2 DEF HasSettings
<1>4. IsLean(s, kind, release)
  BY <1>1, <1>2 DEF IsLean
<1>5. QED
  BY <1>2, <1>3, <1>4 DEF s

\* Every host is lean, in every state.
LEMMA LeanInit == Init => HostsAreLean /\ Settled
<1> SUFFICES ASSUME Init PROVE HostsAreLean /\ Settled
  OBVIOUS
<1>1. /\ {"release", "certs", "gone", "now"} \subseteq DOMAIN server
      /\ server.release \in Served /\ server.now = 0 /\ hosts = {}
      /\ {"certs", "lists", "known", "cache"} \subseteq DOMAIN worker
      /\ "settled" \in DOMAIN seen /\ seen.settled = FALSE
  BY DEF Init, NewProcess, Unseen
<1>2. QED
  BY <1>1, HostAssumption DEF HostsAreLean, Settled

\* Every step keeps the hosts lean.
LEMMA LeanStep == IInv /\ KInv /\ HostsAreLean /\ [Next]_vars => HostsAreLean'
<1> SUFFICES ASSUME IInv, KInv, HostsAreLean, [Next]_vars PROVE HostsAreLean'
  OBVIOUS
<1> DEFINE Lean(s) == /\ HasSettings(s) /\ s.kind = target.kind
                      /\ IsLean(s, target.kind, server.release)
           ServerKeeps == /\ DOMAIN server' = DOMAIN server /\ server'.release = server.release
                          /\ server'.now = server.now
           MindKeeps == DOMAIN worker' = DOMAIN worker /\ "settled" \in DOMAIN seen'
<1>1. /\ "settled" \in DOMAIN seen
      /\ {"release", "certs", "gone", "now"} \subseteq DOMAIN server
      /\ {"certs", "lists", "known", "cache"} \subseteq DOMAIN worker
      /\ server.release \in Served /\ server.now \in Nat /\ server.now <= MaxTime
      /\ server.release \in Releases
  BY HostAssumption DEF HostsAreLean
<1>2. \A s \in hosts : Lean(s)
  BY DEF HostsAreLean
<1> HIDE DEF Lean
<1>3. "settled" \in DOMAIN Changed /\ "settled" \in DOMAIN Unseen
  BY <1>1 DEF Changed, Unseen
<1>4. ASSUME ServerKeeps, MindKeeps, UNCHANGED target, \A s \in hosts' : Lean(s)
      PROVE  HostsAreLean'
  BY <1>1, <1>4 DEF HostsAreLean, Lean
<1>5. ASSUME NEW certsOk, NEW listsOk, Load(certsOk, listsOk) PROVE HostsAreLean'
  <2>1. \A c, k : DOMAIN [worker EXCEPT !.certs = c, !.known = k] = DOMAIN worker
    OBVIOUS
  <2>2. \A w, k : DOMAIN [w EXCEPT !.lists = k] = DOMAIN w
    OBVIOUS
  <2>3. DOMAIN loadCertificates(certsOk) = DOMAIN worker
    BY <2>1 DEF loadCertificates
  <2>4. DOMAIN worker' = DOMAIN worker
    BY <1>5, <2>2, <2>3 DEF Load, loadAccessLists
  <2>5. QED
    BY <1>1, <1>2, <1>4, <1>5, <2>4 DEF Load
<1>6. CASE Apply
  <2>1. CASE Rests
    BY <1>1, <1>2, <1>4, <1>6, <2>1, ApplyDoes DEF Rests
  <2>2. ASSUME NEW old, Writes(old) PROVE HostsAreLean'
    <3> DEFINE t == run.target
               r == Desired(t, run.live, worker, dialect)
               p == Payload(r, dialect)
               cert == IF p.cert = NewCertificate THEN Issued ELSE p.cert
               s == Store(server.release, old, p, cert)
    <3>1. /\ old \in IF Hosts(r.key) = {} THEN {NoHost(r.kind, r.key)} ELSE Hosts(r.key)
          /\ p.fields \subseteq Takes(server.release, p.kind)
          /\ hosts' = (hosts \ Hosts(r.key)) \cup {s}
          /\ server' = IF p.cert # NewCertificate THEN server
                       ELSE [server EXCEPT !.certs = With(@, Issued, IssuedFor(t))]
          /\ worker' = [worker EXCEPT !.cache = {Fingerprint(r)}]
      BY <2>2 DEF Writes, Taken
    <3>2. "settled" \in DOMAIN seen'
      BY <1>1, <2>2 DEF Writes
    <3>3. /\ t.kind = target.kind /\ t.kind \in Kinds
          /\ {"kind", "key", "ids", "listType", "group", "cert"} \subseteq DOMAIN t
      <4>1. run.phase = "loaded" /\ t \in Targets
        BY <1>6 DEF Apply, IInv
      <4>2. QED
        BY <4>1, TargetsAssumption DEF KInv, ViewIsReal
    <3>4. r.kind = t.kind /\ {"owner", "dir"} \subseteq DOMAIN r.meta
      BY <3>3, DesiredKeeps
    <3> HIDE DEF r
    <3>5. p.kind = r.kind /\ p.meta = r.meta /\ p.adv = advancedFor(r, dialect)
      BY DEF Payload
    <3>6. {"user", "broken", "marks"} \subseteq DOMAIN p.adv
      BY <3>5 DEF advancedFor
    <3> HIDE DEF p
    <3>7. /\ old.kind = target.kind /\ IsLean(old, target.kind, server.release)
          /\ {"user", "broken", "marks"} \subseteq DOMAIN old.adv
          /\ {"owner", "dir"} \subseteq DOMAIN old.meta
      <4>1. CASE old = NoHost(r.kind, r.key)
        BY <3>3, <3>4, <4>1 DEF NoHost, IsLean
      <4>2. CASE old \in Hosts(r.key)
        BY <1>2, <4>2 DEF Hosts, Lean, HasSettings
      <4>3. QED
        BY <3>1, <4>1, <4>2
    <3>8. HasSettings(s) /\ s.kind = target.kind /\ IsLean(s, target.kind, server.release)
      BY <1>1, <3>1, <3>3, <3>4, <3>5, <3>6, <3>7, WritesAreLean
    <3> HIDE DEF s
    <3>9. \A q \in hosts' : Lean(q)
      BY <1>2, <3>1, <3>8 DEF Lean
    <3>10. ServerKeeps /\ DOMAIN worker' = DOMAIN worker
      BY <1>1, <3>1
    <3>11. QED
      BY <1>4, <1>6, <3>2, <3>9, <3>10, ApplyDoes
  <2>3. QED
    BY <1>6, <2>1, <2>2, ApplyDoes
<1>7. CASE Recheck \/ UNCHANGED vars
  BY <1>1, <1>2, <1>3, <1>4, <1>7 DEF Recheck, vars
<1>8. CASE Restart
  <2>1. {"certs", "lists", "known", "cache"} \subseteq DOMAIN worker'
    BY <1>8 DEF Restart, NewProcess
  <2>2. QED
    BY <1>1, <1>2, <1>3, <1>8, <2>1 DEF Restart, HostsAreLean, Lean
<1>9. CASE Tick
  <2>1. /\ DOMAIN server' = DOMAIN server /\ server'.release = server.release
        /\ server'.now = server.now + 1 /\ server.now < MaxTime
        /\ UNCHANGED <<hosts, target, worker>> /\ seen' = Changed
    BY <1>1, <1>9 DEF Tick
  <2>2. server'.now \in Nat /\ server'.now <= MaxTime
    BY <1>1, <2>1, HostAssumption
  <2>3. QED
    BY <1>1, <1>2, <1>3, <2>1, <2>2 DEF HostsAreLean, Lean
<1>10. CASE ListsChange
  <2>1. /\ ServerKeeps /\ UNCHANGED <<hosts, target, worker>> /\ seen' = Changed
    BY <1>1, <1>10 DEF ListsChange
  <2>2. QED
    BY <1>1, <1>2, <1>3, <1>4, <2>1
<1>11. ASSUME NEW t \in Targets, Relabel(t) PROVE HostsAreLean'
  <2>1. /\ t.kind = target.kind /\ target' = t /\ UNCHANGED <<server, hosts, worker>>
        /\ "settled" \in DOMAIN seen'
    BY <1>3, <1>11 DEF Relabel
  <2>2. QED
    BY <1>1, <1>2, <2>1 DEF HostsAreLean, Lean
<1>12. ASSUME NEW to \in Served, Upgrade(to) PROVE HostsAreLean'
  <2>1. /\ hosts' = {Migrate(s, to) : s \in hosts} /\ Rank(to) > Rank(server.release)
        /\ server' = [server EXCEPT !.release = to]
        /\ UNCHANGED <<target, worker>> /\ seen' = Changed
    BY <1>12 DEF Upgrade
  <2>2. DOMAIN server' = DOMAIN server /\ server'.release = to /\ server'.now = server.now
    BY <1>1, <2>1
  <2>3. ASSUME NEW s \in hosts
        PROVE  LET q == Migrate(s, to)
               IN  HasSettings(q) /\ q.kind = target.kind /\ IsLean(q, target.kind, to)
    <3>1. to \in Releases /\ Lean(s)
      BY <1>2, HostAssumption
    <3>2. QED
      BY <1>1, <2>1, <3>1, UpgradesAreLean DEF Lean
  <2>4. QED
    BY <1>1, <1>3, <2>1, <2>2, <2>3 DEF HostsAreLean
<1>13. ASSUME NEW id, Import(id) \/ Remove(id) PROVE HostsAreLean'
  <2>1. UNCHANGED <<hosts, target, worker>> /\ seen' = Changed
    BY <1>13 DEF Import, Remove
  <2>2. CASE Import(id)
    BY <1>1, <1>2, <1>3, <1>4, <2>1, <2>2 DEF Import
  <2>3. CASE Remove(id)
    <3>1. \A c, g : LET v == [server EXCEPT !.certs = c, !.gone = g]
                   IN  /\ DOMAIN v = DOMAIN server /\ v.release = server.release
                       /\ v.now = server.now
      OBVIOUS
    <3>2. ServerKeeps
      BY <1>1, <2>3 DEF Remove
    <3>3. QED
      BY <1>1, <1>2, <1>3, <1>4, <2>1, <3>2
  <2>4. QED
    BY <1>13, <2>2, <2>3
<1>14. ASSUME NEW s \in hosts, Copy(s) \/ Rename(s) \/ SpoilMarker(s) \/ Regroup(s)
      PROVE  HostsAreLean'
  <2>1. /\ UNCHANGED <<server, target, worker>>
        /\ seen' = seen \/ "settled" \in DOMAIN seen'
    BY <1>3, <1>14 DEF Copy, Rename, SpoilMarker, Regroup
  <2>2. HasSettings(s) /\ s.kind = target.kind /\ IsLean(s, target.kind, server.release)
    BY <1>2 DEF Lean
  <2>3. \E q : Lean(q) /\ hosts' \in {hosts \cup {q}, (hosts \ {s}) \cup {q}}
    <3>1. CASE Copy(s) \/ Rename(s)
      BY <2>2, <3>1, EditsAreLean DEF Copy, Rename, Lean
    <3>2. CASE SpoilMarker(s)
      BY <2>2, <3>2, EditsAreLean DEF SpoilMarker, HasMarker, Lean
    <3>3. CASE Regroup(s)
      <4> DEFINE c == [s EXCEPT !.column = "picked"]
                 m == [s EXCEPT !.meta.dir = "picked"]
      <4>1. /\ HasSettings(c) /\ c.kind = s.kind /\ IsLean(c, target.kind, server.release)
            /\ server.release # "plusColumns" =>
                 HasSettings(m) /\ m.kind = s.kind /\ IsLean(m, target.kind, server.release)
        BY <2>2, EditsAreLean
      <4>2. hosts' = (hosts \ {s}) \cup {IF server.release = "plusColumns" THEN c ELSE m}
        BY <3>3 DEF Regroup
      <4> HIDE DEF c, m
      <4>3. \E q : Lean(q) /\ hosts' = (hosts \ {s}) \cup {q}
        BY <2>2, <4>1, <4>2 DEF Lean
      <4>4. QED
        BY <4>3
    <3>4. QED
      BY <1>14, <3>1, <3>2, <3>3
  <2>4. \A q \in hosts' : Lean(q)
    BY <1>2, <2>3
  <2>5. QED
    BY <1>1, <1>4, <2>1, <2>4
<1>15. QED
  BY <1>5, <1>6, <1>7, <1>8, <1>9, <1>10, <1>11, <1>12, <1>13, <1>14 DEF Next

\* Only a run that reads, a run that writes and a copy leave a host settled;
\* whatever else happens ends it.
LEMMA SettledStep ==
  ASSUME NothingDrifts
  PROVE  IInv /\ KInv /\ CInv /\ HostsAreLean /\ Settled /\ [Next]_vars => Settled'
<1> SUFFICES ASSUME IInv, KInv, CInv, HostsAreLean, Settled, [Next]_vars, seen'.settled
             PROVE  Settled'
  BY DEF Settled
<1>1. "settled" \in DOMAIN seen /\ {"certs", "lists", "known", "cache"} \subseteq DOMAIN worker
  BY DEF HostsAreLean
<1>2. Changed.settled = FALSE /\ Unseen.settled = FALSE
  BY <1>1 DEF Changed, Unseen
<1>3. ASSUME UNCHANGED <<server, target, dialect>>, seen'.settled = seen.settled,
             Hosts(target.key)' = Hosts(target.key),
             worker'.certs \in {worker.certs, server.certs},
             worker'.lists = worker.lists \/ (target.names # {} /\ worker'.lists = server.lists)
      PROVE  Settled'
  <2>1. /\ dialect = Probe(server.release)
        /\ target.names = {} \/ worker.lists = server.lists
        /\ \E s \in hosts :
             /\ Hosts(target.key) = {s}
             /\ \A certs \in {worker.certs, server.certs} :
                  NothingToWrite(target, s, certs, worker.lists, dialect, server.now)
    BY <1>3 DEF Settled
  <2>2. worker'.lists = worker.lists
    BY <1>3, <2>1
  <2>3. PICK s \in hosts :
          /\ Hosts(target.key) = {s}
          /\ \A certs \in {worker.certs, server.certs} :
               NothingToWrite(target, s, certs, worker.lists, dialect, server.now)
    BY <2>1
  <2>4. Hosts(target.key)' = {s}
    BY <1>3, <2>3
  <2>5. s \in hosts'
    BY <2>4 DEF Hosts
  <2>6. \A certs \in {worker'.certs, server'.certs} :
          NothingToWrite(target', s, certs, worker'.lists, dialect', server'.now)
    BY <1>3, <2>2, <2>3
  <2>7. QED
    BY <1>3, <2>1, <2>2, <2>4, <2>5, <2>6 DEF Settled
<1>4. ASSUME NEW certsOk, NEW listsOk, Load(certsOk, listsOk) PROVE Settled'
  <2> DEFINE w == loadCertificates(certsOk)
  <2>1. /\ w.certs \in {worker.certs, server.certs} /\ w.lists = worker.lists
        /\ "lists" \in DOMAIN w
    BY <1>1 DEF loadCertificates
  <2> HIDE DEF w
  <2>2. LET v == loadAccessLists(w, listsOk)
        IN  /\ v.certs = w.certs
            /\ v.lists = w.lists \/ (target.names # {} /\ v.lists = server.lists)
    BY <2>1 DEF loadAccessLists
  <2>3. worker' = loadAccessLists(w, listsOk) /\ UNCHANGED <<server, hosts, target, dialect, seen>>
    BY <1>4 DEF Load, w
  <2>4. QED
    BY <1>3, <2>1, <2>2, <2>3 DEF Hosts
<1>5. CASE Apply
  <2>1. CASE Rests
    <3>1. dialect' = dialect
      BY <2>1 DEF Rests, Settled
    <3>2. QED
      BY <1>3, <1>5, <2>1, <3>1, ApplyDoes DEF Rests, Hosts
  <2>2. ASSUME NEW old, Writes(old) PROVE Settled'
    BY <1>5, <2>2, ApplyDoes, WriteSettles
  <2>3. QED
    BY <1>5, <2>1, <2>2, ApplyDoes
<1>6. ASSUME NEW s \in hosts, Copy(s) PROVE Settled'
  <2> DEFINE q == [s EXCEPT !.key = OtherKey]
  <2>1. q.key = OtherKey
    BY EditsKeep DEF IInv, Sound
  <2>2. target.key # OtherKey
    BY TargetsAssumption DEF IInv
  <2>3. hosts' = hosts \cup {q} /\ UNCHANGED <<server, target, dialect, worker, seen>>
    BY <1>6 DEF Copy
  <2> HIDE DEF q
  <2>4. Hosts(target.key)' = Hosts(target.key)
    BY <2>1, <2>2, <2>3 DEF Hosts
  <2>5. QED
    BY <1>3, <2>3, <2>4
<1>7. ASSUME UNCHANGED vars PROVE Settled'
  BY <1>3, <1>7 DEF vars, Hosts
<1>8. CASE Recheck \/ Restart \/ Tick \/ ListsChange
  BY <1>2, <1>8 DEF Recheck, Restart, Tick, ListsChange
<1>9. ASSUME NEW t, Relabel(t) PROVE FALSE
  BY <1>1, <1>2, <1>9 DEF Relabel, Changed
<1>10. ASSUME NEW to, Upgrade(to) PROVE FALSE
  BY <1>2, <1>10 DEF Upgrade
<1>11. ASSUME NEW id, Import(id) \/ Remove(id) PROVE FALSE
  BY <1>2, <1>11 DEF Import, Remove
<1>12. ASSUME NEW s, Rename(s) \/ SpoilMarker(s) \/ Regroup(s) PROVE FALSE
  BY <1>1, <1>2, <1>12 DEF Rename, SpoilMarker, Regroup, Changed
<1>13. QED
  BY <1>4, <1>5, <1>6, <1>7, <1>8, <1>9, <1>10, <1>11, <1>12 DEF Next

\* What is settled would be built again.
LEMMA SettledConverges == Settled => WritesConverge
<1> SUFFICES ASSUME Settled, seen.settled
             PROVE  Fingerprint(Desired(target, Live, worker, dialect))
                      \in {Fingerprint(l) : l \in Live}
  BY DEF WritesConverge
<1>1. PICK s \in hosts :
        /\ Hosts(target.key) = {s}
        /\ NothingToWrite(target, s, worker.certs, worker.lists, dialect, server.now)
  BY DEF Settled
<1> DEFINE l == Decode(s)
<1>2. Live = {l}
  BY <1>1 DEF Live
<1> HIDE DEF l
<1>3. Certificate(target, {l}, worker.certs)
        = Chosen(target, Current({l}), worker.certs, server.now)
  BY DEF Certificate, Chosen
<1>4. Desired(target, {l}, worker, dialect)
        = Rebuilt(target, l, worker.certs, worker.lists, dialect, server.now)
  <2>1. (CHOOSE k \in {l} : TRUE) = l /\ {l} # {}
    OBVIOUS
  <2>2. QED
    BY <1>3, <2>1 DEF Desired, Rebuilt, Wanted, Named
<1>5. Fingerprint(Rebuilt(target, l, worker.certs, worker.lists, dialect, server.now))
        = Fingerprint(l)
  BY <1>1 DEF NothingToWrite, l
<1>6. QED
  BY <1>2, <1>4, <1>5

\* A run that wrote the labelled host, with nothing changed since it read, leaves
\* nothing for the next run: the host it reads back is the one it would build
\* again, whatever the server dropped, cleaned or filled in.  The labels do not
\* ask upstream NPM for what it cannot show again (NothingDrifts).
THEOREM WritesSettle ==
  ASSUME NothingDrifts
  PROVE  Spec => []WritesConverge
<1> DEFINE Inv == IInv /\ KInv /\ CInv /\ HostsAreLean /\ Settled
<1>1. Init => HostsAreLean /\ Settled
  BY LeanInit
<1>2. (IInv /\ KInv) /\ (IInv /\ CInv) /\ HostsAreLean /\ Settled /\ [Next]_vars
        => (HostsAreLean /\ Settled)'
  BY LeanStep, SettledStep
<1>3. Spec => [](IInv /\ KInv) /\ [](IInv /\ CInv)
  BY KInvInductive, CInvInductive, PTL
<1>4. Spec => [](HostsAreLean /\ Settled)
  BY <1>1, <1>2, <1>3, PTL DEF Spec
<1>5. QED
  BY <1>4, SettledConverges, PTL

-------------------------------------------------------------------------------
(* The type invariant. *)

\* A run works on at most one host, and no host has a word in place of an id.
TypesInv ==
  /\ run.phase \in {"idle", "loaded"}
  /\ run.live = {} \/ \E l : run.live = {l}
  /\ \A l \in run.live : l.cert \in Nat
  /\ \A s \in hosts : s.cert \in Nat /\ s.meta.owner \in {Us, Hand}

\* The certificate of a resource is an id, or is to be issued.
LEMMA DesiredCert ==
  ASSUME NEW t \in Targets, NEW live, NEW w, NEW d, Listed(w.certs),
         Certificate(t, live, w.certs) # Refused, \A l \in live : l.cert \in Nat
  PROVE  Desired(t, live, w, d).cert \in Nat \cup {NewCertificate}
<1> DEFINE c == Certificate(t, live, w.certs)
           u == [t EXCEPT !.ids = resolveAccessLists(t, w.lists).ids]
           b == BuildResource(u, c)
           l == CHOOSE x \in live : TRUE
           r == Desired(t, live, w, d)
<1>1. c \in Nat \cup {NewCertificate}
  <2>1. c = Chosen(t, Current(live), w.certs, server.now)
    BY DEF Certificate, Chosen
  <2>2. CASE Requests(t, w.certs, server.now)
    BY <2>1, <2>2, RequestsNew
  <2>3. CASE ~Requests(t, w.certs, server.now)
    BY <2>1, <2>3, ChoiceStays
  <2>4. QED
    BY <2>2, <2>3
<1>2. r = IF live = {} THEN Conform(b, d) ELSE AdoptServerState(Conform(b, d), l)
  BY DEF Desired
<1>3. {"cert", "meta", "loc", "frame"} \subseteq DOMAIN b /\ b.cert = c
  BY DEF BuildResource
<1> HIDE DEF b, c, r
<1>4. "cert" \in DOMAIN Conform(b, d) /\ Conform(b, d).cert = c
  <2>1. {"cert", "meta", "loc", "frame"} \subseteq DOMAIN stripPlus(b) /\ stripPlus(b).cert = c
    BY <1>3 DEF stripPlus
  <2>2. QED
    BY <1>3, <2>1 DEF Conform
<1>5. AdoptServerState(Conform(b, d), l).cert \in {c, l.cert}
  BY <1>4 DEF AdoptServerState
<1>6. live # {} => l.cert \in Nat
  OBVIOUS
<1> HIDE DEF l
<1>7. QED
  BY <1>1, <1>2, <1>4, <1>5, <1>6 DEF r

\* A list that is loaded has at most the host of the key, and whatever is written
\* carries an id: the answer to an order for a new certificate is one.
LEMMA TypesStep ==
  IInv /\ KInv /\ CInv /\ HostsAreLean /\ TypesInv /\ [Next]_vars => TypesInv'
<1> SUFFICES ASSUME IInv, KInv, CInv, HostsAreLean, TypesInv, [Next]_vars PROVE TypesInv'
  OBVIOUS
<1> DEFINE Typed(s) == s.cert \in Nat /\ s.meta.owner \in {Us, Hand}
<1>1. /\ run.phase \in {"idle", "loaded"} /\ (run.live = {} \/ \E l : run.live = {l})
      /\ \A l \in run.live : l.cert \in Nat
      /\ \A s \in hosts : Typed(s) /\ HasSettings(s)
  BY DEF TypesInv, HostsAreLean
<1>2. Idle.phase = "idle" /\ Idle.live = {}
  BY DEF Idle
<1> HIDE DEF Typed
<1>3. ASSUME run' \in {run, Idle}, \A s \in hosts' : Typed(s)
      PROVE  TypesInv'
  BY <1>1, <1>2, <1>3 DEF TypesInv, Typed
<1>4. ASSUME NEW certsOk, NEW listsOk, Load(certsOk, listsOk) PROVE TypesInv'
  <2> DEFINE live == {Decode(s) : s \in Hosts(target.key)}
  <2>1. run'.phase = "loaded" /\ run'.live = live /\ UNCHANGED hosts
    BY <1>4 DEF Load
  <2>2. \A s \in hosts : Decode(s).cert = s.cert
    BY DEF Decode
  <2>3. \A l \in live : l.cert \in Nat
    BY <1>1, <2>2 DEF Hosts, Typed
  <2>4. live = {} \/ \E l : live = {l}
    <3>1. \A q, s \in Hosts(target.key) : q = s
      BY DEF KInv, HostsAreApart, Hosts
    <3>2. QED
      BY <3>1
  <2> HIDE DEF live
  <2>5. QED
    BY <1>1, <2>1, <2>3, <2>4 DEF TypesInv, Typed
<1>5. CASE Apply
  <2>1. CASE Rests
    BY <1>1, <1>3, <1>5, <2>1, ApplyDoes DEF Rests
  <2>2. ASSUME NEW old, Writes(old) PROVE TypesInv'
    <3> DEFINE t == run.target
               r == Desired(t, run.live, worker, dialect)
               p == Payload(r, dialect)
               cert == IF p.cert = NewCertificate THEN Issued ELSE p.cert
               s == Store(server.release, old, p, cert)
    <3>1. /\ t \in Targets /\ Listed(worker.certs)
          /\ {"kind", "key", "ids", "listType", "group", "cert"} \subseteq DOMAIN t
      BY TargetsAssumption DEF IInv, CInv, ListsAreReal
    <3>2. /\ old \in IF Hosts(r.key) = {} THEN {NoHost(r.kind, r.key)} ELSE Hosts(r.key)
          /\ Certificate(t, run.live, worker.certs) # Refused
          /\ hosts' = (hosts \ Hosts(r.key)) \cup {s}
      BY <2>2 DEF Writes
    <3>3. r.cert \in Nat \cup {NewCertificate}
      BY <1>1, <3>1, <3>2, DesiredCert
    <3>4. r.meta.owner = Us
      BY <3>1, DesiredKeeps
    <3> HIDE DEF r
    <3>5. p.cert = r.cert /\ p.meta = r.meta
      BY PayloadKeeps
    <3> HIDE DEF p
    <3>6. cert \in Nat
      BY <3>3, <3>5, IssuedIsNew DEF NewCertificate
    <3>7. Typed(old)
      <4>1. CASE old = NoHost(r.kind, r.key)
        BY <4>1 DEF NoHost, Typed, NoCertificate
      <4>2. CASE old \in Hosts(r.key)
        BY <1>1, <4>2 DEF Hosts
      <4>3. QED
        BY <3>2, <4>1, <4>2
    <3>8. s.cert \in {old.cert, cert} /\ s.meta \in {old.meta, p.meta}
      BY DEF Store
    <3> HIDE DEF s, cert
    <3>9. Typed(s)
      BY <3>4, <3>5, <3>6, <3>7, <3>8 DEF Typed
    <3>10. QED
      BY <1>1, <1>3, <1>5, <3>2, <3>9, ApplyDoes
  <2>3. QED
    BY <1>5, <2>1, <2>2, ApplyDoes
<1>6. CASE Recheck \/ Restart \/ Tick \/ ListsChange \/ UNCHANGED vars
  BY <1>1, <1>3, <1>6 DEF Recheck, Restart, Tick, ListsChange, vars
<1>7. ASSUME NEW t, Relabel(t) PROVE TypesInv'
  BY <1>1, <1>3, <1>7 DEF Relabel
<1>8. ASSUME NEW to \in Served, Upgrade(to) PROVE TypesInv'
  <2>1. \A s \in hosts : Typed(Migrate(s, to))
    <3> SUFFICES ASSUME NEW s \in hosts PROVE Typed(Migrate(s, to))
      OBVIOUS
    <3> DEFINE q == Migrate(s, to)
    <3>1. Shape(s) /\ to \in Releases
      BY HostAssumption DEF IInv, Sound
    <3>2. q.cert = s.cert
      <4>1. CASE to \in Upstream
        BY <4>1 DEF Migrate, Upstream
      <4>2. CASE to = "plusMeta"
        BY <1>1, <4>2 DEF Migrate, Upstream, HasSettings
      <4>3. CASE to = "plusColumns"
        BY <1>1, <4>3 DEF Migrate, Upstream, HasSettings
      <4>4. QED
        BY <3>1, <4>1, <4>2, <4>3 DEF Releases, Upstream
    <3>3. q.meta.owner \in {s.meta.owner, Hand}
      <4>1. CASE to \in Upstream
        BY <4>1 DEF Migrate, Upstream
      <4>2. CASE to = "plusMeta"
        BY <1>1, <4>2 DEF Migrate, Upstream, HasSettings
      <4>3. CASE to = "plusColumns"
        BY <1>1, <4>3 DEF Migrate, Upstream, HasSettings
      <4>4. QED
        BY <3>1, <4>1, <4>2, <4>3 DEF Releases, Upstream
    <3> HIDE DEF q
    <3>4. QED
      BY <1>1, <3>2, <3>3 DEF Typed, q
  <2>2. QED
    BY <1>3, <1>8, <2>1 DEF Upgrade
<1>9. ASSUME NEW id, Import(id) \/ Remove(id) PROVE TypesInv'
  BY <1>1, <1>3, <1>9 DEF Import, Remove
<1>10. ASSUME NEW s \in hosts, Copy(s) \/ Rename(s) \/ SpoilMarker(s) \/ Regroup(s)
       PROVE  TypesInv'
  <2>1. /\ Typed([s EXCEPT !.key = OtherKey])
        /\ Typed([s EXCEPT !.adv.broken = TRUE, !.adv.marks = {}])
        /\ Typed([s EXCEPT !.adv.marks = {}]) /\ Typed([s EXCEPT !.column = "picked"])
        /\ Typed([s EXCEPT !.meta.dir = "picked"])
    BY <1>1 DEF HasSettings, Typed
  <2>2. UNCHANGED run
    BY <1>10 DEF Copy, Rename, SpoilMarker, Regroup
  <2>3. \A q \in hosts' : Typed(q)
    BY <1>1, <1>10, <2>1 DEF Copy, Rename, SpoilMarker, Regroup
  <2>4. QED
    BY <1>3, <2>2, <2>3
<1>11. QED
  BY <1>4, <1>5, <1>6, <1>7, <1>8, <1>9, <1>10 DEF Next

\* With the separation of the hosts by key these are all of TypeOK.
LEMMA TypesFollow ==
  IInv /\ KInv /\ HostsAreLean /\ TypesInv => TypeOK
<1> SUFFICES ASSUME IInv, KInv, HostsAreLean, TypesInv PROVE TypeOK
  OBVIOUS
<1>1. server.release \in Served /\ server.now \in 0..MaxTime /\ target \in Targets
  BY HostAssumption DEF HostsAreLean, IInv
<1>2. dialect \in Dialect
  <2>1. PICK release \in Releases : dialect = Probe(release)
    BY DEF KInv, ViewIsReal
  <2>2. /\ FlavourOf(release) \in {"auto", "npm", "npmplus"}
        /\ Reports(release) \in Releases \cup {""}
        /\ (IF release \in Schemas THEN release ELSE None) \in Releases \cup {None}
        /\ (release \notin Schemas /\ ShapeRetired(release)) \in BOOLEAN
    BY DEF FlavourOf, Reports
  <2>3. QED
    BY <2>1, <2>2 DEF Probe, Dialect
<1>3. ASSUME NEW S, \A a, b \in S : a = b
      PROVE  Cardinality(S) <= 1
  <2>1. CASE S = {}
    BY <2>1, FS_EmptySet
  <2>2. CASE S # {}
    <3>1. PICK a \in S : TRUE
      BY <2>2
    <3>2. S = {a}
      BY <1>3, <3>1
    <3>3. Cardinality(S) = 1
      BY <3>2, FS_Singleton
    <3>4. QED
      BY <3>3
  <2>3. QED
    BY <2>1, <2>2
<1>4. Cardinality(run.live) <= 1 /\ run.phase \in {"idle", "loaded"}
  BY <1>3 DEF TypesInv
<1>5. \A key : Cardinality(Hosts(key)) <= 1
  BY <1>3 DEF KInv, HostsAreApart, Hosts
<1>6. QED
  BY <1>1, <1>2, <1>4, <1>5 DEF TypeOK, TypesInv, IsCert

\* The types: among other things, a key has at most one host, a run works on at most
\* one, and the word "new", in place of an id, is in no stored host.
THEOREM TypesHold == Spec => []TypeOK
<1>1. Init => HostsAreLean /\ TypesInv
  <2>1. Init => TypesInv
    BY DEF Init, Idle, TypesInv
  <2>2. QED
    BY <2>1, LeanInit
<1>2. (IInv /\ KInv) /\ (IInv /\ CInv) /\ HostsAreLean /\ TypesInv /\ [Next]_vars
        => (HostsAreLean /\ TypesInv)'
  BY LeanStep, TypesStep
<1>3. Spec => [](IInv /\ KInv) /\ [](IInv /\ CInv)
  BY KInvInductive, CInvInductive, PTL
<1>4. Spec => [](HostsAreLean /\ TypesInv)
  BY <1>1, <1>2, <1>3, PTL DEF Spec
<1>5. QED
  BY <1>3, <1>4, TypesFollow, PTL

=============================================================================
