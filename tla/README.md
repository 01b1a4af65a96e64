# npmplus-docker-sync in TLA+

npmplus-docker-sync keeps the hosts of an nginx-proxy-manager (NPM or NPMplus)
in line with what the labels of Docker containers ask for.  This directory is
its verification project: TLA+ modules translated from the Go source, TLC
configurations that check them on small instances, and TLAPS proofs.

## 1. Inventory

| Component | State | Operations | Interacts with |
|---|---|---|---|
| Listener (`internal/docker/listener.go`) | event subscription, reconnect backoff, stream health | `Watch`, `Snapshot` | Docker API; sends events to the debouncer; the worker asks it for snapshots |
| Debouncer (`internal/syncer/debounce.go`) | pending events, timer, deadline | `Run` | reads the event channel, writes the batch channel |
| Worker loop (`internal/syncer/worker.go`, `Run`, `flush`) | resync and certificate tickers | one select loop | starts reconcile runs |
| Reconcile worker (`worker.go`, `resolve.go`, `cache.go`) | cache, backoff, age of stopped containers, last lists of certificates and access lists | `reconcile`, `reconcileKind`, `deleteOrphans` | Docker snapshots, NPM API, everybody else who writes to NPM |
| Desired resource (`internal/syncer/build.go`) | none | `BuildResource`, the SSL cascade | worker |
| API client (`internal/npm/client.go`) | session, dialect, version, cooldown | `do`, `attempt`, `ensureAuth`, `Recheck`, one method per call | NPM's HTTP API; only the worker's goroutine uses it after the start |
| Dialect (`flavor.go`, `capabilities.go`) | what the server accepts | `DetectFlavour`, `Accepts` | API client, payloads |
| Resources (`resources.go`, `payloads.go`, `models.go`) | none | `Conform`, `Payload`, `AdoptServerState`, `Fingerprint`, `UnmarshalJSON` | worker, dialect |
| Ownership (`marker.go`) | none | `liftOwnership`, `markerFor`, `metaForWrite` | every resource read or written |
| Certificates (`internal/certs`, `resolve.go`) | last certificate list and its hash | `Resolve`, `PollCertificates` | worker |
| Labels (`labels.go`, `docker/build.go`, `target.go`) | none | `Parse`, `Scan` | snapshots |
| Fields (`internal/fields`) | the table of fields, the defaults of the environment | `Lookup`, `LoadDefaults`, `Field.Parse` | labels |
| Configuration, health server, metrics, commands | static | | |

What is hard here: a run is a sequence of remote calls between which
containers change, people and other instances edit NPM, the process is
stopped, and calls fail or their answers are lost; deletions are destructive and
decided from a snapshot that is old by the time they happen; three goroutines
and two bounded channels lie between a Docker event and the run it causes.  The
server is one of four generations that refuse what they do not know, silently drop
or fill in what they do, and may be replaced by the next one between two requests; the
session can end at any time.  And what is wanted is itself unreliable: labels are typed by
hand.

What makes each part correct:

* **Worker**: it writes and deletes only what is its own or may be adopted;
  deletions only of orphans, never during the shutdown flush, never all at once
  past the guard; a stopped container's host keeps its content, and within the
  grace period is not touched at all; what the cache claims was really written;
  in the end every acceptable definition is served and leftovers are gone.
* **Debouncer**: a burst is cut when it is quiet or too old, not earlier and not
  later.
* **Listener**: it comes back after outages, soon if the last stream worked, and
  the health it reports is that of the stream.
* **Listener, debouncer and worker together**: no received event is forgotten,
  missed ones are made up for, everything ends after SIGTERM.
* **API client**: a session that ends is renewed once and unnoticed; no create is
  sent twice; no call hangs; whatever upgrade, probe or cooldown comes between, in
  the end what is written is accepted.
* **Dialect, resources, ownership**: a write is accepted by the server it is made
  for and settles: what is read back is what would be built again.  A host stays
  known as ours across upgrades, a copy made by hand never becomes ours, a group
  picked in the UI stays unless a run that had listed the host before writes the old one.
* **Certificates and access lists**: a certificate that fits reaches its host and
  stays; a list that cannot be read takes neither a certificate nor an access
  list away.
* **Labels**: a mistake in a label is reported, costs no host and no other
  definition; stopping a container is no mistake.

## 2. Modules

| Module | Models | Built on |
|---|---|---|
| `Reconciler` | one reconcile run, call by call, with its environment | |
| `ReconcilerProperties` | what the worker promises | `Reconciler` |
| `MCReconciler` | small worlds for TLC | `ReconcilerProperties` |
| `ReconcilerProofs` | proofs: what is touched and deleted | `ReconcilerProperties` |
| `ReconcilerRunProofs` | proofs: stopped hosts, switching off, the guard, the cache, backoff, the dry run | `ReconcilerProofs` |
| `Debouncer`, `DebouncerProofs` | `Debouncer.Run` | |
| `Listener`, `ListenerProofs` | `Listener.Watch`, stream health | |
| `WorkerLoop` | `Worker.Run`, `flush`, `PollCertificates` | |
| `Pipeline`, `PipelineProofs` | the goroutines and channels of `main.go` | instances of `Listener`, `Debouncer`, `WorkerLoop` |
| `Notifier` | abstract: the way from an event to a run is one flag | |
| `Dialects` | what a body may carry: `flavor.go`, `capabilities.go`, four releases | |
| `ApiClient`, `ApiClientProofs` | `client.go`, detection, the login at start | `Dialects` |
| `Certificates` | `certs.go`, `resolveCertificate` | |
| `Payloads` | `BuildResource`, `Conform`, `Payload`, decoding, marker, fingerprint | `Dialects`, `Certificates` |
| `HostSync`, `HostSyncProofs` | one labelled host over the life of the server | `Payloads` |
| `MCHostSync` | the targets and certificates TLC checks | `HostSync` |
| `LabelFields` | field registry and defaults | |
| `LabelParser` | names to definitions, container model | `LabelFields` |
| `LabelTargets` | definitions to targets, `Scan` | `LabelParser` |
| `LabelledContainer`, `LabelledContainerProofs` | a container whose labels are edited and mistyped | `LabelTargets` |
| `MCLabelledContainer` | a vocabulary of labels and some containers | `LabelledContainer` |

**Reconciler.**  `live` is what NPM holds, `docker` the state of each container,
`cache`, `failures` and `stoppedFor` are the worker's maps of these names, and
`run` holds the local variables of the run in progress: its phase, the snapshot
(`targets`, `prot`), the listing (`listed`), the keys still to do (`todo`), the
cache entries collected (`next`) and the orphans chosen (`victims`).  There is
one action per remote call and per branch of `reconcileKind`: `StartRun`
(snapshot), `ListKind`, `CreateHost`, `UpdateHost`, `StampStopped`,
`SetEnabled`, `DeleteOrphan`, and one for each way to leave a key alone
(`SkipNotOurs`, `WaitOutGrace`, `SkipConflict`, `CannotResolve`, `Defer`,
`SkipIncomplete`, `KeepHost`).  `FinishKind` replaces the cache of a
collection and `Decide` chooses the orphans and asks the guard.  Between any two
of these the environment may move: containers start, stop, vanish; people create,
edit, move and disown hosts in the UI; a call is rejected, or done with its answer
lost; SIGTERM, a crash, a restart; time.  Settings are one opaque configuration,
and what the server makes of it is a function (`Stored`), so that a server that
normalises its input is covered.

**Debouncer, Listener, WorkerLoop, Pipeline.**  A channel is the number of things
in it: nobody looks into a batch except to log it.  Each `select` is a
disjunction of the cases that are ready, so every order Go may choose is covered.
Time is counted in ticks, and the clock does not tick while the listener or the
debouncer has something to do; a run of the worker may take any time.  In
`WorkerLoop` a run is two steps (it takes its snapshot, it finishes or fails),
because the run itself is `Reconciler`; Docker and the certificate list are
numbered by versions, and `done` and `hosts` are the versions NPM was last
brought in line with.  `Pipeline` identifies the listener's output channel with
the debouncer's input and the debouncer's output with the worker's input, and
adds the shared context, the containers and SIGTERM.

**Notifier** is the abstract specification of the pipeline: a flag that is raised
when a change is reported and lowered only by looking at Docker.  `Pipeline`
implements it, where the flag is "an event or a batch is anywhere on its way, or a
run is about to start".

**ApiClient.**  `session` is the client's token (with its remaining time) and cookie,
`dialect` what it believes of the server, `cooldown` the time until it may probe again,
and `call[c]` the local state of `Client.do` for a caller: the operation, which request
of it is under way (`stage`), and where that request is (`phase`: ensure a session, wait
for the login mutex, log in, ready, sent, answered).  A rejected write is followed by a
probe, `Recheck` by version, list, health and schema, as in the code.  The server can be
upgraded and can drop its sessions between any two of these; a fault loses a request or its
answer, and net/http sends again what it may (`Idempotent`).  The number of callers is a
parameter; the program has one.  The proofs hold for any, but for the one that says so.

**Certificates, Payloads, HostSync.**  `Certificates` and `Payloads` are pure: a target and
a certificate become a resource, the resource a body for a dialect, a stored host is decoded
and compared.  All four kinds of host are one record.  Of the settings that are
treated alike one stands for its group: `http2` and `trust` for the switches later
releases retire, `http3` for those only NPMplus has, `reqOff` for those that mean nothing
without another, `frame` for the texts NPMplus fills in.  `HostSync` puts them into a
world: the server with its release, certificates, access lists and clock; the process with
the lists it has read and its cache; a run in two steps, loading and applying; upgrades with
their migrations, certificates that come, expire and go, lists that disappear, and people who
copy, rename and regroup hosts or spoil the marker line.  What the server stores of a body
(`Store`, `Migrate`) is external: it is taken from what `src/` expects of it, its
comments and the test server.  Marker lines are a set of records or broken: the code trusts a line
only as a whole.

**Labels.**  A label name is a sequence of tokens, so the splitting into kind, index,
location and field is that of the code; '.', '_' and '-' within a field are one.  A value
stands for the texts its reader tells apart, with "?" for one nothing accepts.
`LabelFields` is the table of fields with aliases, inverse spellings and defaults, one field for
each way of reading.  `LabelledContainer` keeps two sets of labels: `labels`, which
Docker reports, and `meant`, which differs by the slips made, so that properties can say
what a slip may cost.  Two details of the source show up as choices: `lookupEnable`
ranges over a Go map, so which of two contradicting spellings of `enable` counts is not
determined (`Managed` is a set), and a restarting container counts as running without having
an address.  `Reconcile` is what a run makes of the hosts of this container: those of its
targets stay or are created, the others go unless it is protected, and with
`NPM_ON_STOP=delete` a stopped container has no targets past its grace (`applyStopPolicy`; how
long it has been stopped is a choice).  A slip makes a value one that its reader refuses (`HasFormat`); a text has no such
values, and neither has the path of a location that may be a named one (`AnyPath`).

Each definition marked `(slip: ...)` is a plausible mistake next to the definition
it would replace; the runs detect each of them.

## 3. Runs

| Run | World | Shows |
|---|---|---|
| `core` | a recreated service whose configuration NPM normalises, an unreadable container, two container changes, an edit in the UI between any two calls | stopped hosts keep their content, the grace period holds, protected hosts survive; the inductive invariant |
| `failures` | three collections, one missing, a recreated service, a configuration NPM never accepts, a failing call, a shutdown, a crash | the type invariant with the bounds of the backoff, the cache is true; acceptable definitions are served, leftovers go (liveness) |
| `owners` | leftovers in two collections, or hosts of every kind of owner; `NPM_ON_STOP=delete`; a list that may be empty | the guard judges the whole run, nobody else's host is touched |
| `dry_run` | everything pending, `DRY_RUN=true` | nothing is written |
| `debouncer` | six events, `Interval` 3, `MaxWait` 7 | bursts are cut in time and for a reason |
| `stream` | three outages of both kinds, delays up to 4, grace 5 | a lost stream is reported, return to a working daemon (liveness) |
| `pipeline` | two changes, an outage, a failing call, SIGTERM at any point | no event lost, the flag is implemented, the flush sees everything |
| `delivery` | a change, a certificate, a failing call, SIGTERM | NPM ends up in line with Docker and certificates, everything ends (liveness) |
| `client` | two releases with an upgrade between them, a schema that may not be read; pinned or detected; a revoked session, a fault, requests that take longer than the refresh window | sessions, no repeated create, every call returns, in the end writes are accepted (liveness) |
| `hosts` | eight targets of all kinds, four releases, five certificates that fit better, worse or not at all, an access list; any three upgrades, edits, restarts, expiries, failures | writes are accepted and settle; owner, certificate and access list stay, and the group unless a run overrules it; certificates arrive (liveness) |
| `labels` | five containers over a vocabulary of labels in all spellings, several settings, `NPM_ON_STOP=delete` among them; two edits or slips, stops, restarts, network changes | a slip is reported, costs no host and no other definition; stopped is not broken |
| `kind_typo` | as `labels`, with a mistyped kind | violated, see section 5 |

**Bounds.**  `MaxDocker`, `MaxUI`, `MaxFaults`, `MaxCrashes`, `MaxEvents`,
`MaxOutages`, `MaxCerts`, `MaxUpgrades`, `MaxRevokes`, `MaxEdits` and (in `HostSync`)
`MaxEvents` say how often the environment moves; the program's own
steps are not bounded.  One or two moves are enough because the interesting cases
are single interferences with a run (a stale listing, a lost answer, a signal
between two calls) or pairs (stopped and recreated; a failure and the retry that
follows).  Capacities of one make channels fill up with two events.  Delays and
graces are longer than one tick where a boundary matters.  Three events in
`HostSync` reach write, upgrade, edit, write; two in `LabelledContainer` a slip and a mending,
or two slips in one definition.  Tokens of three ticks with a refresh window of one have every
case of being valid, about to expire and expired, and requests of up to two ticks may outlast
the window.  The two releases of `client` are an upstream one and the newest, which differ in all a
probe can find; that the schema cannot be read is a fault there.  For the properties of section 4
the bounds do not matter.

**Deadlock** is not checked in the runs of the event pipeline: after SIGTERM
everything ends, which is what `ShutsDown` asks for.  Nor in
`hosts`, where what may happen to the server is used up in the end.  In the other runs
it is.

**Fairness.**  Of the program: its goroutines run (`WF` of their steps), its
tickers tick, time passes.  `select` chooses at random among the ready cases, so a
case that is ready again and again is taken some time: strong fairness for the
resync and for the end of the context.  Of the environment only that the container
runtime restarts a killed process.  In `ApiClient` a
call goes on, because every request has a timeout (`NPM_TIMEOUT`, 30 seconds if not set; with 0
the code has none, and `EveryCallReturns` is about a finite one) which is shorter than a token
lives; the worker's resync rechecks the version and
tries again what it could not write, whatever else the client does (strong fairness).
In `HostSync` runs keep coming, complete, and see readable lists again and again.
Nothing else is asked of Docker, of NPM or of people; liveness properties say what
holds once they have calmed down.

## 4. Proofs

`tlapm` checks all of this for any number of containers, hosts, domains, events and
any value of the options.

**Worker** (`ReconcilerProofs`): the type invariant, and that the worker acts only on
its own (`OwnWrites`), deletes only orphans (`OrphansOnly`) and spares the hosts of
unreadable containers (`ProtectedSafe`).  None of these can be seen from the current
state: a deletion is decided from a listing and a snapshot that are old by then.
The inductive invariant `RunIsConsistent` says what is still true of them: ids are
bounded by the last one assigned (so a new host is never mistaken for a listed one),
the keys left to do are wanted ones, a pending toggle belongs to a host of ours, the
chosen victims are orphans by the listing, and the snapshot describes every container
that has not changed since.

On top of it (`ReconcilerRunProofs`) stand four further invariants, of which TLC has seen the
runs `core` and `failures` hold every part.
`RunIsFaithful` says what an interrupted run may rely on: ids name one
resource, the listing is in the order it was read, the targets are those of containers that
have not changed, and a pending toggle was decided from what is still there.  With it a host of
a stopped container keeps its content (`StoppedHostsAreKept`) and is not written within its
grace (`GraceIsKept`).  `GuardIsRemembered` carries the decision of the guard through the
deletions that follow it, any of which may fail or lose its answer: one of the resources counted
is not among the victims and still there (`GuardHolds`).  `CacheIsReplaced` says that, unless
somebody else writes, an entry is true except for the keys this run has already
turned to, whose entries are about to be replaced by true ones; the cache is replaced at the end
of a collection, so at no single step is it visibly right (`CacheIsTrue`).  `DryRunIsDry` needs no
invariant but that of the toggles: every call that writes has its own check.  That a pending
toggle was decided for the key in hand, past its grace, is also why a host goes off only for a
container whose state or labels ask for it (`DisablingIsEarned`).  `BackoffIsSingle` (a key is in
backoff once, and what is being toggled is not waiting) gives `BackoffIsKept`.  These use
`SeedsAssumption`: the resources NPM starts with have ids of their own.

**Debouncer** (`DebouncerProofs`): bursts end in time and for a reason.  The
strengthening says why the timer has the value it has: it ends with the silence or
with the deadline.

**Listener** (`ListenerProofs`): delays within their limits and reset by a stream that
worked, health as the subscription is, a lost stream reported unless connections are
refused.  The invariant ties the health to the phase and the ages to each other.

**Pipeline** (`PipelineProofs`): `NoEventIsLost`, `ShutdownsSeeEverything`, and
`PipelineIsANotifier`: the initial states and every step of the three goroutines map
to the flag's.  The invariants of listener and debouncer are used as proved in their
own modules, by instantiating these; what is added is that the last run is only for
a shutdown, and that what has been reported is no newer than the present.  The flag of
`Notifier` itself is proved to forget nothing (`ReportsAreFollowedUp`, of the instance that
`Pipeline` implements).

**API client** (`ApiClientProofs`): `CreatesHappenOnce` and `TokensOutliveRequests`, for any
number of callers, upgrades, revocations and faults.  The first rests on: once the server has
carried out a create, its request has been answered and is not at a point from which it is sent
again.  The second says that a token does not expire under a request that is no older than the refresh
window.  It rests on: a call that is ready to send holds a token with more than the window left,
although other calls may drop or renew the session meanwhile, and a request under way uses up
its token and its age tick by tick.  Nothing is assumed of the timeout of a request, since
`NPM_TIMEOUT` has no upper limit: past the window a token may expire, which costs a 401, one
login and one retry.  `RefusedForAReason` is about one caller (`OneCaller`): a call that
ends refused had logged in to a session the server has revoked since, or its request was older
than the window.  The invariant
says what a login is good for: as long as the server has not dropped it, the last login of
the call is what it is about to send and what it has sent.  With two callers it is false, and TLC finds
the run (`concurrent`).
`TypesHold` is the exact `TypeOK`, for any number of callers again.  Of a call it needs when it may
log in once more (`Tries`: a request that has to log in after a 401 has not done so before), and
what a broken connection costs (`Acts`: the server carries a request out once for each fault
spent, and once more after the last); of the mutex that it is held by who logs in (`MInv`); and of
the dialect that an answer about version or schema names a release (`Says`).  It rests on
`ClientAssumption`, which gives the constants their types, the free mutex a name of its own,
and says that a new token lives longer than the refresh window (`Window < Lifetime`; NPM's live
a day, the window is five minutes).

**Hosts** (`HostSyncProofs`), for any targets, any certificates and any history of upgrades, edits,
restarts and lists that cannot be read:

* `CopiesStayForeign`.  The invariant says that no stored host, the labelled one included, has a
  marker that names the key of a copy, because a copy is made from any of them.
* `NamedListsProtect`.  The argument follows the ids from the lookup through `BuildResource`,
  `Conform`, `AdoptServerState` and `Payload` to what is stored; it needs that `parseAccessList`
  gives a host with names no "public" type.
* `OwnershipStays`.  The property must survive a change of dialect, a migration
  and a run that began before either, so the invariant has three parts: the client's view is that
  of some release (`ViewIsReal`); a key has one host, and where there are columns the meta
  objects are empty (`HostsAreApart`); and what was written where a marker has a place carries it
  alone, as the meta object would not survive the next upgrade (`WrittenIsMarked`).
* `GroupStays`, with the same invariant: what `Desired` adopts of the listed host
  (`DesiredGroup`) and what the server stores of it (`WrittenGroup`) keep a group the run does
  not overrule, in the meta object or in the column, and a migration moves it from one to the
  other.  `Overrules` names the three ways a run may replace a group: its labels set one; it has
  listed the host in another group; or it has not listed this group and sends the meta object,
  which is stored as a whole.  In the last two a pick made between the listing and the write is
  lost (`lost_pick`).
* `NothingIsRefused`.  No invariant, but every property of every body of every release:
  with the dialect that a probe of this release finds, with or without a schema, the body is one the
  release takes (`BodyIsTaken`), and so is the spelling of a redirect's scheme (`SchemeIsTaken`).
* `NoShuffling` and `CertificatesAreKept`.  That `best` picks anything at all needs a first element of every
  finite set of candidates (`FirstExists`, which takes the place of an induction), and that the
  order of candidates is total.  That a certificate the process has read is not taken
  away needs what its list has to do with the server's: each entry is of a list the server had, of
  which certificates may have been deleted and none renamed or renumbered (`ListsAgree`).

* `WritesSettle`.  One setting at a time is followed from the label through `BuildResource`,
  `Conform`, `AdoptServerState`, `Payload`, `Store` and `Decode`, and again through what the
  next run builds (`SettingsReturn`).  The certificate needs that a choice, made again with the
  chosen one in place, stays (`ChoiceStays`), and that one just issued is the one chosen next
  (`IssuedIsChosen`).  Two invariants carry it over the life of the server: a stored host has
  nothing its release would neither take nor clear (`HostsAreLean`; a leftover switch would
  differ for ever), and while nothing has changed since a write, the one host of the key leaves
  nothing to write, with the certificates the process has and with those it would read now
  (`Settled`).  The theorem is about labels that upstream NPM can show again (`NothingDrifts`):
  without it the property is false, and `drift` and `drift_stream` are the two cases it
  names.  The targets of `hosts` satisfy it.

* `TypesHold`.  The exact `TypeOK`: a key has at most one host and a loaded list at most one of
  them (`KInv`), and no stored host has a word in place of a certificate id, since what is
  written is a choice, which is an id (`DesiredCert`), or the answer to an order.

They use `TargetsAssumption` (the labels are those of one host of a kind; a stream has no
domains, any other host has some), `SettingsAssumption` (a host has the settings of its kind,
as the parser leaves them: two types of access list, no "custom" one without a list, no
negative id) and `CertsAssumption` (ids count from 1, the empty name is none).

**Labels** (`LabelledContainerProofs`), for any vocabulary of names, any labels, settings, ports
and networks, and any order of edits, slips, repairs and changes of the container:

* `StoppedIsIdleAlways`.  No invariant: the field sets depend on the labels alone, and where a
  builder gives up on a stopped container it gives up on the running one (`StoppedTarget`).  The
  certificate of the target, which is checked last, is the same as well (`SameHost`).
* `SlipsAreReported`.  The inductive invariant `LInv` says that no two labels are meant to set
  the same (`Unrivalled`) and that a label that is not what was meant shows it (`SlipsShow`): it
  has a value that means nothing, or its name is one that means nothing, or it is gone and such a
  name is there.  A scan reports the names and the switches.  Of the values the lemmas
  `BlurredProxy`, `BlurredRedirect`, `BlurredStream`, `BlurredDead` and `BlurredTarget` show,
  field by field, that a builder that accepts the definition read none of them:
  what it makes is an error, which is reported, or what was meant.
* `OthersStay`.  What one definition is built from - its labels, whether strict labels skip it,
  whether an index switch is off - is untouched by a value in another; for the switches this
  needs `Unrivalled`, since of two for an index the last that can be read counts.
* `ProtectionHolds`.  A run that deletes a host of a managed container found no error and skipped
  nothing.  Then the container is managed as it is meant to be (`ManagedStays`), every definition
  that is meant is built (`WantedIsBuilt`), and under the name it is meant to have
  (`IdentityAgrees`), so the host stays.  The theorem has a hypothesis, `IdentityIsLabelled`: no
  default of the environment names a host.  With `NPM_PROXY_DOMAINS` set, a mistyped field name
  `domains` leaves a definition that is built with the default's domain and a warning, and the
  host it was meant for is deleted.  The settings of `labels` satisfy it.  What a container is
  meant to have is what it asks for when it runs, and with `NPM_ON_STOP=delete` nothing once it
  has stopped.
* `SpellingDoesNotMatterAlways`.  A label written in another of its spellings is carried by the
  same definition into the same slot and is read alike, so every definition has the field set
  it had (`Respelt` and the lemmas about it), and builder, index switches and strictness see no
  difference.
* `RunningIsCompleteAlways`.  No invariant: of every target follows from the builder that made it
  that a running container's address and port were resolved (`RunningResolves`, `ProxyForwards`,
  `StreamForwards`); where one is missing the builder gives up.
* `DefaultBreaksNoStreamAlways`.  A stream that is built without the default certificate is built
  with it: what it cannot use is dropped, and no label of a stream reaches a TLS switch that
  would need one (`StreamsAskForNoTLS`).  The hypothesis `CertificateCanBeRead` is what the code
  does not ensure: the process starts with any text as the default certificate, and one that is
  neither an id, a name, a domain nor a mode makes every stream without one of its own an error.
* `LabelTypes`, the type invariant: every host is named by a domain or a port that was read.

They rest on `VocabularyAssumption`: the label sets a container starts with write no field twice,
synonyms set the same and read a value alike, and the names slips lead to mean nothing; if only the field is mistyped,
the label still belongs to its definition.  TLC checks it of the vocabulary of `labels`.

Assumptions are those of the modules (`ASSUME`): they give the constants their types
and state what `config.go` and the constants of the code ensure, or what an entry above names as
asked of the server (`BackoffMin <= BackoffMax`, `MaxWait` 0 or at
least `Interval`, positive capacities).

**Only model-checked**: liveness, `EveryCallReturns`, `EventuallyAccepted` and the like (it rests on
fairness and `ENABLED`, which the prover does not do).  Induction over data and recursive operators
are out of the prover's reach as well; the modules use neither.

## 5. Findings

Checked by a regular run that ends in a counterexample:

* `kind_typo`: a mistyped kind (`npm.strem.port`) is taken for an unknown field of the first
  proxy host, which is only a warning; the container is not protected and the stream is
  deleted.  The README promises protection for a typo.

Configurations of the same kind beside the regular runs; each ends in a counterexample to the
property it names:

| Configuration | Module | What the counterexample shows |
|---|---|---|
| `manual_edit` | `MCReconciler` | an edit made in the UI is not repaired by the resync while the process lives; the cache of what was last written decides |
| `empty_list` | `MCReconciler` | an empty container list deletes up to two hosts; the guard's minimum is looked at first |
| `swapped` | `MCReconciler` | two services that swapped domains during downtime block each other |
| `key_change` | `MCReconciler` | a new first domain lets the host under the old one be deleted |
| `hand_made` | `MCReconciler` | an adopted host is deleted like any other |
| `readiness` | `Listener` | a refused event stream never fails the readiness probe; every attempt counts as connected and restarts the age of the outage |
| `missed_event`, `cert_poll` | `Pipeline` | with `RESYNC_INTERVAL=0` a change in a gap of the stream, or a certificate whose run failed, is never applied |
| `backs_up` | `Pipeline` | while a run is slow, the listener stops reading the stream |
| `missed_upgrade` | `ApiClient` | `Recheck` remembers the new version before it probes; a probe that fails or is throttled is not repeated, until a write is rejected |
| `drift` | `MCHostSync` | the `enabled` flag of a location is compared although upstream NPM does not keep it: every new process writes the host again (within a process the cache hides it) |
| `drift_stream` | `MCHostSync` | the certificate of a stream on NPM 2.11, in the same way |
| `cold_start` | `MCHostSync` | if the first certificate list of a process cannot be read there is no previous one, and hosts that choose for themselves lose their certificate |
| `auto_create` | `MCHostSync` | with `NPM_CERTIFICATE_AUTO_CREATE` no certificate is requested for a host that has an expired or deleted one |
| `lost_pick` | `MCHostSync` | `docs/LABELS.md:185` says that without a group in the labels the current one is kept, "including one picked in the UI": where it is in the meta object, a run that listed the host before the pick writes the old group back (`worker.go:653` adopts from the listing, `marker.go:255` sends the whole object) |
| `enable_typo` | `MCLabelledContainer` | a value of `npm.enable` that is no boolean counts as opted out, and the hosts are deleted |

Others pass, and check what the regular runs leave out: `two_faults` is `failures` with
two failing calls, for the backoff (`BackoffHonoured`), orphans and toggles
(`OnlyStoppedHostsAreDisabled`); `labels_more` is the type invariant of the labels, with `RunningIsComplete`,
`DefaultBreaksNoStream` and `SpellingDoesNotMatter`; all of these are proved as well.  The type invariants of debouncer,
listener, pipeline, client and hosts, and the listener's `HealthIsCurrent` and `WorkingStreamsReturnSoon`, are
proved.

One more ends in a counterexample:
`concurrent` shows that with two goroutines using one client a call may give up on a session
another call has renewed meanwhile - which is why it matters that only the worker's goroutine
does.

Seen while reading, without a run: "404" is a kind and an index at once; an unreadable
`<index>.enable` or `disable_*` is an error but its definition is built all the same; a
default certificate of the environment is not validated when the defaults are loaded; with
`NPM_PROXY_DOMAINS` set, a container whose field name `domains` is mistyped gets the default's
host in place of its own (section 4, `ProtectionHolds`); `NPM_TIMEOUT` may be longer than the
refresh window, or none at all.

## 6. Simplifications

* A failing endpoint always breaks an open subscription; outages of the event stream
  and failures of snapshots are independent.
* The two tickers of the worker have no period: they may tick at any time.
* The worker's branch for a closed batch channel is left out: nobody closes it.
* What NPM does with a request is a choice of: done, rejected, or done with the answer
  lost.  Which requests it must reject (a domain in use) is modelled.
* In `Reconciler` a run's lookups of certificates and access lists are one call that
  may fail, and the settings of a host one opaque configuration; `HostSync` opens both up for
  one host.
* `HostSync` has one labelled host, and people leave its settings other than owner and group
  alone; `Reconciler` has the others.
* In `HostSync` a run reads its three lists at once; the server may change between that and
  the write.  A dialect is read at once too; `ApiClient` has the chain of requests.
* A certificate's names are canonical, and expiry is a clock of two values.
* The daemon id, the own container's id and its networks are taken as known.

## 7. Not modelled, and the plan

Not modelled for good: configuration (read once at the start; the limits it enforces are
assumptions here), the documentation generator, the suggestions for mistyped fields, metrics,
the log, the HTTP endpoints, the `validate` command and the JSON text of requests, schema and
marker (static data, wording and pure I/O).

Two hazards have no property: two spellings of `npm.enable` with different values, where the order
of a Go map decides, and the order of the guard's three checks, since which answer is wanted is not
documented (`empty_list` shows what the present order does).
