---------------------------- MODULE Reconciler ----------------------------
(***************************************************************************)
(* The reconcile worker (internal/syncer/worker.go, resolve.go, cache.go): *)
(* one goroutine that compares what the labels of the Docker containers    *)
(* ask for with what nginx-proxy-manager (NPM) holds and applies the       *)
(* difference.  A run is not atomic: it takes one snapshot of Docker, one  *)
(* listing of each collection, and then one API call after the other, and  *)
(* containers, people in the NPM UI, failing calls and restarts of the     *)
(* process may come between any two of them.                               *)
(*                                                                         *)
(* Domains are numbered in their sort order (a stream's port stands for    *)
(* its only domain), collections in the order npm.Kinds lists them,        *)
(* container names in their sort order.  A configuration is an opaque      *)
(* value; what the server makes of it is the function Stored.              *)
(***************************************************************************)
EXTENDS Integers, FiniteSets, FiniteSetsExt

CONSTANTS
  LastKind,       \* collections are 1..LastKind
  HostKinds,      \* the collections that serve domains (all but streams)
  MissingKinds,   \* collections this NPM does not expose (404)
  MarkerKinds,    \* collections whose advanced config can carry the marker
  Domains,        \* domain names, numbered
  Configs,        \* configurations labels or people ask for
  Incomplete,     \* what is built from a stopped container's lost ports
  Stored,         \* the configuration the server keeps when sent another
  BadConfigs,     \* configurations the server always rejects
  Containers,     \* container ids; an id is never used twice
  NameOf,         \* the name of each container, numbered
  LabelsOf,       \* [defs, bad]: what its labels define, unreadable or not
  StartStates,    \* container states the process may find at start
  Seeds,          \* sets of resources NPM may hold at start
  LastSeed,       \* no resource of a seed has a higher id
  OutsideKinds, OutsideDomains  \* what people create in the UI

CONSTANTS         \* Options of the worker
  DeleteOrphans, AdoptExisting, MigrateFromRedth, DryRun, HasInstance,
  LabelPrefix, OnStop,
  StopGrace,      \* in ticks of the model's clock
  BackoffMin, BackoffMax,
  DeleteGuardMin, \* deletions a run needs before the share is looked at
  GuardNum, GuardDen, \* DELETE_GUARD as a fraction; GuardNum = 0 is off
  MayListNone     \* a socket proxy may answer with an empty list

CONSTANTS         \* Bounds of the model
  MaxDocker, MaxUI, MaxFaults, MaxCrashes

VARIABLES
  docker,     \* [Containers -> ContainerStates]
  live,       \* the resources NPM holds
  lastId,     \* the last id NPM has assigned
  proc,       \* "up", "stopping" (SIGTERM received) or "down"
  run,        \* the reconcile run in progress
  cache,      \* Worker.cache: what was last written
  failures,   \* Worker.failures: rejected resources in backoff
  stoppedFor, \* Worker.stoppedSince, as an age in ticks
  status,     \* what Worker.Status reports
  changed,    \* history: containers that changed since the last snapshot
  budget      \* what the environment may still do

outside == <<docker, proc, changed>>
server == <<live, lastId>>
memory == <<cache, failures, stoppedFor>>
worker == <<run, memory, status>>
vars == <<outside, server, worker, budget>>

Kinds == 1..LastKind
ContainerStates == {"new", "running", "stopped", "gone"}
Present == {c \in Containers : docker[c] \in {"running", "stopped"}}
Owners == {"self", "unstamped", "peer", "redth", "other", "hand"}
NotSeen == -1
Nobody == 0

ASSUME KindsAssumption ==
  /\ LastKind \in Nat \ {0}
  /\ HostKinds \subseteq Kinds /\ MissingKinds \subseteq Kinds
  /\ MarkerKinds \subseteq Kinds /\ OutsideKinds \subseteq Kinds
ASSUME DataAssumption ==
  /\ Domains \subseteq Nat /\ OutsideDomains \subseteq Domains
  /\ Incomplete \notin Configs
  /\ Stored \in [Configs \cup {Incomplete} -> Configs \cup {Incomplete}]
  /\ BadConfigs \subseteq Configs \cup {Incomplete}
  /\ StartStates \subseteq ContainerStates
DomainSets == {D \in SUBSET Domains : D # {}}
Definitions == [kind: Kinds, doms: DomainSets, cfg: Configs,
                enabled: BOOLEAN, complete: BOOLEAN, index: Nat]
ASSUME LabelsAssumption ==
  /\ Containers \subseteq Nat \ {Nobody}
  /\ NameOf \in [Containers -> Nat \ {Nobody}]
  /\ LabelsOf \in [Containers -> [defs: SUBSET Definitions, bad: BOOLEAN]]
ASSUME OptionsAssumption ==
  /\ {DeleteOrphans, AdoptExisting, MigrateFromRedth, DryRun, HasInstance,
      MayListNone} \subseteq BOOLEAN
  /\ OnStop \in {"disable", "keep", "delete"}
  /\ StopGrace \in Nat /\ BackoffMin \in Nat \ {0} /\ BackoffMax \in Nat
  /\ BackoffMin <= BackoffMax
  /\ DeleteGuardMin \in Nat \ {0} /\ GuardNum \in Nat /\ GuardDen \in Nat \ {0}
  /\ LabelPrefix \in Nat
ASSUME BoundsAssumption ==
  {MaxDocker, MaxUI, MaxFaults, MaxCrashes, LastSeed} \subseteq Nat

---------------------------------------------------------------------------
(* Resources.                                                              *)

\* "by" is history: who created the resource, this worker or the owner it had
\* then.  The rest is what NPM stores.
Sendable == Configs \cup {Incomplete}
Resources ==
  [id: Nat, kind: Kinds, doms: DomainSets, cfg: Sendable, enabled: BOOLEAN,
   owner: Owners, marked: BOOLEAN, prefix: Nat, name: Nat,
   cid: Containers \cup {Nobody}, index: Nat, by: Owners \cup {"us"}]
ASSUME SeedsAssumption ==
  \A S \in Seeds :
    /\ S \subseteq Resources /\ \A r \in S : r.id <= LastSeed
    /\ \A q, r \in S : q.id = r.id => q = r

Key(x) == Min(x.doms)
IdsOf(S) == {r.id : r \in S}

\* Everything the in-sync check compares; not the enabled flag, the label
\* prefix or the container id.
Fingerprint(r) == [doms |-> r.doms, cfg |-> r.cfg, owner |-> r.owner,
                   marked |-> r.marked, name |-> r.name, index |-> r.index]

IsManaged(r) == r.owner \in {"self", "unstamped", "peer"}

\* (slip: any instance's resources are ours)
OwnsAllManaged(r) == IsManaged(r)

Owns(r) ==
  \/ r.owner \in {"self", "unstamped"}
  \/ r.owner = "peer" /\ ~HasInstance
  \/ r.owner = "redth" /\ MigrateFromRedth

\* (slip: other instances are forgotten)
SkipsNoPeer(r) ==
  \/ r.owner = "redth" /\ ~MigrateFromRedth
  \/ r.owner = "other"
  \/ r.owner = "hand" /\ ~AdoptExisting

\* The worker's answer for a resource a label claims: leave it alone?
Skips(r) ==
  \/ r.owner = "peer" /\ HasInstance
  \/ r.owner = "redth" /\ ~MigrateFromRedth
  \/ r.owner = "other"
  \/ r.owner = "hand" /\ ~AdoptExisting

\* Of several resources with one identity: the first managed one, else the
\* last one listed (listed in the order of their ids).
Pick(S) ==
  LET managed == {r \in S : IsManaged(r)}
  IN  IF managed # {}
      THEN CHOOSE r \in managed : \A q \in managed : r.id <= q.id
      ELSE CHOOSE r \in S : \A q \in S : q.id <= r.id

---------------------------------------------------------------------------
(* The external server.                                                    *)

Clashes(kind, doms, id) ==
  \E r \in live : /\ r.id # id
                  /\ r.doms \cap doms # {}
                  /\ r.kind = kind \/ {r.kind, kind} \subseteq HostKinds

CutOff == proc = "stopping" /\ ~run.final

\* What a call may come back with: "lost" was applied, but the caller sees
\* an error.  Anything but the regular answer spends one fault.
Regular(valid) == IF valid /\ ~CutOff THEN "ok" ELSE "rejected"
Answers(valid) ==
  {Regular(valid)}
    \cup (IF budget.faults = 0 THEN {}
          ELSE {"rejected"} \cup (IF valid THEN {"lost"} ELSE {}))
Charge(answer, valid) ==
  budget' = IF answer = Regular(valid) THEN budget
            ELSE [budget EXCEPT !.faults = @ - 1]

---------------------------------------------------------------------------
(* What one run knows.                                                     *)

Fingerprints == [doms: DomainSets, cfg: Sendable, owner: Owners,
                 marked: BOOLEAN, name: Nat, index: Nat]
Entries == [kind: Kinds, key: Domains, id: Nat, fp: Fingerprints]
Targets == [def: Definitions, cid: Containers, running: BOOLEAN]

NoToggle == [id |-> Nobody, want |-> TRUE, made |-> FALSE, entry |-> {}]
IdleRun == [phase |-> "idle", kind |-> 1, deletes |-> FALSE, final |-> FALSE,
            targets |-> {}, prot |-> {}, none |-> FALSE, listed |-> {},
            todo |-> {}, next |-> {}, toggle |-> NoToggle, victims |-> {},
            failed |-> FALSE, fatal |-> FALSE]

\* (slip: the grace period ends one tick early)
InGraceTooShort(t) == ~t.running /\ stoppedFor[t.cid] + 1 < StopGrace

\* A stopped container still within NPM_STOP_GRACE.  The clock does not move
\* during a run, so the age at its start is the age throughout.
InGrace(t) == ~t.running /\ StopGrace > 0 /\ stoppedFor[t.cid] < StopGrace

\* NPM_ON_STOP=delete drops the targets of stopped containers.
ActiveTargets(kind) ==
  {t \in run.targets : /\ t.def.kind = kind
                       /\ OnStop = "delete" => t.running \/ InGrace(t)}

Before(t, u) == \/ NameOf[t.cid] < NameOf[u.cid]
                \/ NameOf[t.cid] = NameOf[u.cid] /\ t.def.index <= u.def.index
Claims(kind, k) == {t \in ActiveTargets(kind) : Key(t.def) = k}
Wanted(kind) == {Key(t.def) : t \in ActiveTargets(kind)}
\* Definitions fighting over one key: the first one wins.
Target(k) == CHOOSE t \in Claims(run.kind, k) :
               \A u \in Claims(run.kind, k) : Before(t, u)

Listed(kind) == {r \in run.listed : r.kind = kind}
Found(k) == {r \in Listed(run.kind) : Key(r) = k}
Current(k) == Pick(Found(k))
\* (slip: stopped containers are built from what Docker still reports)
NeverFrozen(k) == FALSE
Frozen(k) == ~Target(k).running

\* BuildResource, marked the way Conform leaves it.
Build(t) ==
  [doms |-> t.def.doms, enabled |-> t.def.enabled,
   cfg |-> IF t.running \/ t.def.complete THEN t.def.cfg ELSE Incomplete,
   owner |-> IF HasInstance THEN "self" ELSE "unstamped",
   marked |-> t.def.kind \in MarkerKinds, prefix |-> LabelPrefix,
   name |-> NameOf[t.cid], cid |-> t.cid, index |-> t.def.index]
Hash(k) == Fingerprint(Build(Target(k)))

\* One of the target's domains is served by a host that is not ours.
ForeignDomain(k) ==
  /\ run.kind \in HostKinds
  /\ \E d \in Target(k).def.doms :
       LET serving == {r \in Listed(run.kind) : d \in r.doms}
       IN  /\ serving # {}
           /\ ~Owns(Pick(serving))
           /\ Found(k) # {} => Pick(serving).id # Current(k).id

InSync(k) ==
  LET current == Current(k)
  IN  \/ Fingerprint(current) = Hash(k)
      \/ \E e \in cache : /\ e.kind = run.kind /\ e.key = k
                          /\ e.id = current.id /\ e.fp = Hash(k)

Entry(k, id, fp) == {[kind |-> run.kind, key |-> k, id |-> id, fp |-> fp]}

---------------------------------------------------------------------------
(* Backoff.                                                                *)

FailuresOf(k) == {f \in failures : f.kind = run.kind /\ f.key = k}
\* (slips: the delay is not waited for; it never ends)
IgnoresBackoff(k) == FALSE
BackoffForGood(k) == \E f \in FailuresOf(k) : f.fp = Hash(k)
InBackoff(k) == \E f \in FailuresOf(k) : f.fp = Hash(k) /\ f.wait > 0
\* A changed configuration clears the backoff, success does too.
Forgiven(k) == failures \ {f \in FailuresOf(k) : f.fp # Hash(k)}
Cleared(k) == failures \ FailuresOf(k)
\* (slip: the delay doubles without a limit)
DelayUnlimited(k) ==
  LET same == {f \in FailuresOf(k) : f.fp = Hash(k)}
  IN  IF same = {} THEN BackoffMin ELSE 2 * (CHOOSE f \in same : TRUE).delay
Delay(k) ==
  LET same == {f \in FailuresOf(k) : f.fp = Hash(k)}
  IN  IF same = {} THEN BackoffMin
      ELSE LET f == CHOOSE f \in same : TRUE
           IN  IF 2 * f.delay > BackoffMax THEN BackoffMax ELSE 2 * f.delay
BackedOff(k) ==
  Cleared(k) \cup {[kind |-> run.kind, key |-> k, fp |-> Hash(k),
                    delay |-> Delay(k), wait |-> Delay(k)]}

---------------------------------------------------------------------------
(* A run: snapshot, then one collection after the other.                   *)

Idle == proc # "down" /\ run.phase = "idle"

\* trackStopped: the age of a container first seen stopped starts at 0, one
\* that runs or has no target is forgotten.
TrackStopped(targets) ==
  stoppedFor' = [c \in Containers |->
    IF \E t \in targets : t.cid = c /\ ~t.running
    THEN IF stoppedFor[c] = NotSeen THEN 0 ELSE stoppedFor[c]
    ELSE NotSeen]

\* (slip: the list call leaves stopped containers out)
TargetsOfRunning(seen) ==
  UNION {[def : LabelsOf[c].defs, cid : {c}, running : {TRUE}]
           : c \in {c \in seen : docker[c] = "running"}}
TargetsOf(seen) ==
  UNION {[def : LabelsOf[c].defs, cid : {c}, running : {docker[c] = "running"}]
           : c \in seen}

\* The flush at shutdown never deletes.  (slip: it does)
MayDeleteAlways(final) == DeleteOrphans
MayDelete(final) == DeleteOrphans /\ ~final

\* The snapshot: every container, stopped ones included, of one list call.  An
\* empty list that hides containers spends one fault.
StartRun(final) ==
  /\ Idle
  /\ final => proc = "stopping"
  /\ ~final => proc = "up"
  /\ \E seen \in {Present} \cup (IF MayListNone THEN {{}} ELSE {}) :
       /\ IF seen = Present THEN UNCHANGED budget
          ELSE /\ budget.faults > 0
               /\ budget' = [budget EXCEPT !.faults = @ - 1]
       /\ TrackStopped(TargetsOf(seen))
       /\ run' = [IdleRun EXCEPT
            !.phase = "list", !.final = final, !.deletes = MayDelete(final),
            !.targets = TargetsOf(seen),
            !.prot = {c \in seen : LabelsOf[c].bad}, !.none = (seen = {})]
  /\ changed' = {}
  /\ UNCHANGED <<docker, server, proc, cache, failures, status>>

\* The flush tries once; in any other run a failed snapshot is only reported.
SnapshotFails(final) ==
  /\ Idle
  /\ final => proc = "stopping"
  /\ (proc = "stopping" /\ ~final) \/ budget.faults > 0
  /\ budget' = IF proc = "stopping" /\ ~final THEN budget
               ELSE [budget EXCEPT !.faults = @ - 1]
  /\ status' = [ran |-> TRUE, err |-> TRUE, failed |-> FALSE, blocked |-> FALSE]
  /\ proc' = IF final THEN "down" ELSE proc
  /\ UNCHANGED <<docker, server, run, memory, changed>>

AfterKind(r) ==
  IF r.kind = LastKind THEN [r EXCEPT !.phase = "decide"]
  ELSE [r EXCEPT !.phase = "list", !.kind = @ + 1]

ListKind ==
  /\ proc # "down" /\ run.phase = "list"
  /\ run.kind \notin MissingKinds /\ ~CutOff
  /\ run' = [run EXCEPT !.phase = "key", !.todo = Wanted(run.kind), !.next = {},
                        !.listed = @ \cup {r \in live : r.kind = run.kind}]
  /\ UNCHANGED <<outside, server, memory, status, budget>>

\* 404: this NPM does not expose the collection.
SkipKind ==
  /\ proc # "down" /\ run.phase = "list"
  /\ run.kind \in MissingKinds /\ ~CutOff
  /\ run' = AfterKind(run)
  /\ UNCHANGED <<outside, server, memory, status, budget>>

\* The collection cannot be listed: its cached state is kept.
ListFails ==
  /\ proc # "down" /\ run.phase = "list"
  /\ CutOff \/ budget.faults > 0
  /\ budget' = IF CutOff THEN budget ELSE [budget EXCEPT !.faults = @ - 1]
  /\ run' = AfterKind([run EXCEPT !.fatal = TRUE])
  /\ UNCHANGED <<outside, server, memory, status>>

---------------------------------------------------------------------------
(* One key of a collection, in sort order.                                 *)

At(k) == /\ proc # "down" /\ run.phase = "key"
         /\ run.todo # {} /\ k = Min(run.todo)

Decided(k, entries, failed) ==
  run' = [run EXCEPT !.phase = "key", !.todo = @ \ {k}, !.toggle = NoToggle,
                     !.next = @ \cup entries, !.failed = @ \/ failed]

Ours(k) == Found(k) # {} => ~Skips(Current(k))
Settled(k) == Ours(k) /\ ~(Frozen(k) /\ InGrace(Target(k)))
\* Past every check that skips the key before the server is asked.
Proceeds(k) == Settled(k) /\ ~ForeignDomain(k) /\ ~InBackoff(k)

SkipNotOurs(k) ==
  /\ At(k) /\ ~Ours(k)
  /\ Decided(k, {}, FALSE)
  /\ UNCHANGED <<outside, server, memory, status, budget>>

WaitOutGrace(k) ==
  /\ At(k) /\ Ours(k) /\ ~Settled(k)
  /\ Decided(k, IF Found(k) = {} THEN {}
                ELSE Entry(k, Current(k).id, Fingerprint(Current(k))), FALSE)
  /\ UNCHANGED <<outside, server, memory, status, budget>>

SkipConflict(k) ==
  /\ At(k) /\ Settled(k) /\ ForeignDomain(k)
  /\ Decided(k, {}, FALSE)
  /\ UNCHANGED <<outside, server, memory, status, budget>>

\* An access list or certificate the labels name does not exist right now.
CannotResolve(k) ==
  /\ At(k) /\ Settled(k) /\ ~ForeignDomain(k)
  /\ budget.faults > 0
  /\ budget' = [budget EXCEPT !.faults = @ - 1]
  /\ Decided(k, {}, TRUE)
  /\ UNCHANGED <<outside, server, memory, status>>

Defer(k) ==
  /\ At(k) /\ Settled(k) /\ ~ForeignDomain(k) /\ InBackoff(k)
  /\ Decided(k, {}, FALSE)
  /\ UNCHANGED <<outside, server, memory, status, budget>>

\* A stopped container that never had a host has no address to create one.
SkipIncomplete(k) ==
  /\ At(k) /\ Proceeds(k) /\ Found(k) = {}
  /\ Frozen(k) /\ ~Target(k).def.complete
  /\ failures' = Forgiven(k)
  /\ Decided(k, {}, FALSE)
  /\ UNCHANGED <<outside, server, cache, stoppedFor, status, budget>>

\* (slip: a dry run toggles)
ToggleForReal(k, id, fp, was, want, made) ==
  IF was = want
  THEN Decided(k, Entry(k, id, fp), FALSE) /\ failures' = Cleared(k)
  ELSE /\ run' = [run EXCEPT !.phase = "toggle",
                    !.toggle = [id |-> id, want |-> want, made |-> made,
                                entry |-> Entry(k, id, fp)]]
       /\ failures' = Forgiven(k)

\* Bring the enabled flag in line, if it has to, in a call of its own.
Toggle(k, id, fp, was, want, made) ==
  IF was = want \/ DryRun
  THEN /\ Decided(k, Entry(k, id, fp), FALSE)
       /\ failures' = Cleared(k)
  ELSE /\ run' = [run EXCEPT !.phase = "toggle",
                    !.toggle = [id |-> id, want |-> want, made |-> made,
                                entry |-> Entry(k, id, fp)]]
       /\ failures' = Forgiven(k)

Rejected(k) == Decided(k, {}, TRUE) /\ failures' = BackedOff(k)

CreateHost(k) ==
  LET new == Build(Target(k))
      valid == ~Clashes(run.kind, new.doms, Nobody) /\ new.cfg \notin BadConfigs
  IN
  /\ At(k) /\ Proceeds(k) /\ Found(k) = {}
  /\ Frozen(k) => Target(k).def.complete
  /\ ~DryRun
  /\ \E answer \in Answers(valid) :
       /\ Charge(answer, valid)
       /\ IF answer = "rejected" THEN UNCHANGED <<live, lastId>>
          ELSE /\ lastId' = lastId + 1
               /\ live' = live \cup {
                    [id |-> lastId + 1, kind |-> run.kind, doms |-> new.doms,
                     cfg |-> Stored[new.cfg], enabled |-> TRUE,
                     owner |-> new.owner, marked |-> new.marked,
                     prefix |-> new.prefix, name |-> new.name,
                     cid |-> new.cid, index |-> new.index, by |-> "us"]}
       /\ IF answer = "ok"
          THEN Toggle(k, lastId + 1, Fingerprint(new), TRUE, new.enabled, TRUE)
          ELSE Rejected(k)
  /\ UNCHANGED <<outside, cache, stoppedFor, status>>

PretendCreate(k) ==
  /\ At(k) /\ Proceeds(k) /\ Found(k) = {}
  /\ Frozen(k) => Target(k).def.complete
  /\ DryRun
  /\ failures' = Cleared(k)
  /\ Decided(k, {}, FALSE)
  /\ UNCHANGED <<outside, server, cache, stoppedFor, status, budget>>

\* The enabled state to reach: a stopped container's host follows NPM_ON_STOP.
WantEnabled(k) ==
  IF ~Frozen(k) THEN Target(k).def.enabled
  ELSE IF OnStop = "disable" THEN FALSE ELSE Current(k).enabled

NeedsMarker(k) == /\ Frozen(k) /\ IsManaged(Current(k))
                  /\ ~Current(k).marked /\ run.kind \in MarkerKinds

\* In sync, or frozen: nothing but the enabled flag may change.
KeepHost(k) ==
  LET current == Current(k) IN
  /\ At(k) /\ Proceeds(k) /\ Found(k) # {}
  /\ Frozen(k) \/ InSync(k)
  /\ ~NeedsMarker(k) \/ DryRun
  /\ Toggle(k, current.id,
            IF Frozen(k) THEN Fingerprint(current) ELSE Hash(k),
            current.enabled, WantEnabled(k), FALSE)
  /\ UNCHANGED <<outside, server, cache, stoppedFor, status, budget>>

Overwrite(id, r) == {q \in live : q.id # id} \cup {r}

\* PUT replaces everything but the id, the enabled flag and the origin.
UpdateHost(k) ==
  LET current == Current(k)
      new == Build(Target(k))
      stored == {r \in live : r.id = current.id}
      valid == /\ stored # {} /\ new.cfg \notin BadConfigs
               /\ ~Clashes(run.kind, new.doms, current.id)
  IN
  /\ At(k) /\ Proceeds(k) /\ Found(k) # {}
  /\ ~Frozen(k) /\ ~InSync(k) /\ ~DryRun
  /\ \E answer \in Answers(valid) :
       /\ Charge(answer, valid)
       /\ IF answer = "rejected" THEN UNCHANGED live
          ELSE \E old \in stored :
                 live' = Overwrite(old.id,
                   [old EXCEPT !.doms = new.doms, !.cfg = Stored[new.cfg],
                      !.owner = new.owner, !.marked = new.marked,
                      !.prefix = new.prefix, !.name = new.name,
                      !.cid = new.cid, !.index = new.index])
       /\ IF answer = "ok"
          THEN Toggle(k, current.id, Fingerprint(new), current.enabled,
                      WantEnabled(k), FALSE)
          ELSE Rejected(k)
  /\ UNCHANGED <<outside, lastId, cache, stoppedFor, status>>

PretendUpdate(k) ==
  /\ At(k) /\ Proceeds(k) /\ Found(k) # {}
  /\ ~Frozen(k) /\ ~InSync(k) /\ DryRun
  /\ failures' = Forgiven(k)
  /\ Decided(k, {}, FALSE)
  /\ UNCHANGED <<outside, server, cache, stoppedFor, status, budget>>

\* stampMarker: the resource of a stopped container is written back as it was
\* listed, plus the marker.  A failure here starts no backoff.
StampStopped(k) ==
  LET current == Current(k)
      marked == [current EXCEPT !.marked = TRUE]
      stored == {r \in live : r.id = current.id}
      valid == /\ stored # {} /\ current.cfg \notin BadConfigs
               /\ ~Clashes(run.kind, current.doms, current.id)
  IN
  /\ At(k) /\ Proceeds(k) /\ Found(k) # {}
  /\ Frozen(k) /\ NeedsMarker(k) /\ ~DryRun
  /\ \E answer \in Answers(valid) :
       /\ Charge(answer, valid)
       /\ IF answer = "rejected" THEN UNCHANGED live
          ELSE \E old \in stored :
                 live' = Overwrite(old.id, [marked EXCEPT !.enabled = old.enabled])
       /\ IF answer = "ok"
          THEN Toggle(k, current.id, Fingerprint(marked), current.enabled,
                      WantEnabled(k), FALSE)
          ELSE Decided(k, {}, TRUE) /\ failures' = Forgiven(k)
  /\ UNCHANGED <<outside, lastId, cache, stoppedFor, status>>

\* The separate enable/disable call.  Only a create that cannot finish this
\* way goes into backoff.
SetEnabled(k) ==
  LET t == run.toggle
      valid == t.id \in IdsOf(live)
  IN
  /\ proc # "down" /\ run.phase = "toggle" /\ k = Min(run.todo)
  /\ \E answer \in Answers(valid) :
       /\ Charge(answer, valid)
       /\ live' = IF answer = "rejected" THEN live
                  ELSE {IF r.id = t.id THEN [r EXCEPT !.enabled = t.want] ELSE r
                          : r \in live}
       /\ IF answer = "ok" THEN Decided(k, t.entry, FALSE) /\ failures' = Cleared(k)
          ELSE /\ Decided(k, {}, TRUE)
               /\ failures' = IF t.made THEN BackedOff(k) ELSE failures
  /\ UNCHANGED <<outside, lastId, cache, stoppedFor, status>>

ReconcileKey(k) ==
  \/ SkipNotOurs(k) \/ WaitOutGrace(k) \/ SkipConflict(k) \/ CannotResolve(k)
  \/ Defer(k) \/ SkipIncomplete(k) \/ CreateHost(k) \/ PretendCreate(k)
  \/ KeepHost(k) \/ UpdateHost(k) \/ PretendUpdate(k) \/ StampStopped(k)
  \/ SetEnabled(k)

\* (slip: the old entries of the collection stay)
FinishKindMerging ==
  /\ proc # "down" /\ run.phase = "key" /\ run.todo = {}
  /\ cache' = cache \cup run.next
  /\ run' = AfterKind([run EXCEPT !.next = {}])
  /\ UNCHANGED <<outside, server, failures, stoppedFor, status, budget>>

\* Cache.ReplaceKind: keys that failed or were skipped drop out.
FinishKind ==
  /\ proc # "down" /\ run.phase = "key" /\ run.todo = {}
  /\ cache' = {e \in cache : e.kind # run.kind} \cup run.next
  /\ run' = AfterKind([run EXCEPT !.next = {}])
  /\ UNCHANGED <<outside, server, failures, stoppedFor, status, budget>>

---------------------------------------------------------------------------
(* Deletions, decided for the whole run.                                   *)

\* (slip: a recreated container is not recognised)
ProtectedById(r) == \E c \in run.prot : r.cid = c
\* Protected by the name or by the id its marker records.
Protected(r) == \E c \in run.prot : r.name = NameOf[c] \/ r.cid = c

\* (slip: only what this process wrote itself)
OrphansInCache ==
  {r \in run.listed : Key(r) \notin Wanted(r.kind) /\ r.id \in {e.id : e \in cache}}
Orphans ==
  IF DryRun THEN {}
  ELSE {r \in run.listed :
          /\ r = Pick({q \in Listed(r.kind) : Key(q) = Key(r)})
          /\ Key(r) \notin Wanted(r.kind)
          /\ Owns(r) /\ ~Protected(r)}

\* A prefix that is not known, of the resource or of this process, says nothing.
ForeignPrefix(r) == {r.prefix, LabelPrefix} \cap {Nobody} = {} /\ r.prefix # LabelPrefix

\* (slip: the last collection is judged alone)
GuardedByKind ==
  LET owned == {r \in Listed(run.kind) : Owns(r)}
      deletions == Cardinality(Orphans \cap owned)
  IN  \/ \E r \in owned : ForeignPrefix(r)
      \/ /\ GuardNum > 0 /\ deletions >= DeleteGuardMin
         /\ run.none \/ deletions * GuardDen > Cardinality(owned) * GuardNum

\* guardDeletions: is the run stopped from deleting?
Guarded ==
  LET owned == {r \in run.listed : Owns(r)}
      deletions == Cardinality(Orphans)
  IN  \/ \E r \in owned : ForeignPrefix(r)
      \/ /\ GuardNum > 0
         /\ deletions >= DeleteGuardMin
         /\ \/ run.none
            \/ deletions >= Cardinality(owned)
            \/ deletions * GuardDen > Cardinality(owned) * GuardNum

Finish(blocked) ==
  /\ status' = [ran |-> TRUE, err |-> run.fatal, failed |-> run.failed,
                blocked |-> blocked]
  /\ run' = IdleRun
  /\ proc' = IF run.final THEN "down" ELSE proc

Decide ==
  /\ proc # "down" /\ run.phase = "decide"
  /\ IF Orphans # {} /\ run.deletes /\ ~Guarded
     THEN /\ run' = [run EXCEPT !.phase = "delete", !.victims = Orphans]
          /\ UNCHANGED <<status, proc>>
     ELSE Finish(Orphans # {} /\ run.deletes)
  /\ UNCHANGED <<docker, server, memory, changed, budget>>

\* In the order they were collected.  A resource that is already gone (404)
\* counts as deleted.
DeleteOrphan ==
  /\ proc # "down" /\ run.phase = "delete" /\ run.victims # {}
  /\ LET o == CHOOSE o \in run.victims : \A v \in run.victims :
                o.kind < v.kind \/ (o.kind = v.kind /\ Key(o) <= Key(v))
         valid == TRUE
     IN  \E answer \in Answers(valid) :
           /\ Charge(answer, valid)
           /\ live' = IF answer = "rejected" THEN live
                      ELSE {r \in live : r.id # o.id}
           /\ run' = [run EXCEPT !.victims = @ \ {o},
                                 !.failed = @ \/ answer # "ok"]
  /\ UNCHANGED <<outside, lastId, memory, status>>

FinishRun ==
  /\ proc # "down" /\ run.phase = "delete" /\ run.victims = {}
  /\ Finish(FALSE)
  /\ UNCHANGED <<docker, server, memory, changed, budget>>

Reconcile ==
  \/ StartRun(FALSE) \/ StartRun(TRUE) \/ SnapshotFails(FALSE) \/ SnapshotFails(TRUE)
  \/ ListKind \/ SkipKind \/ ListFails
  \/ \E k \in Domains : ReconcileKey(k)
  \/ FinishKind \/ Decide \/ DeleteOrphan \/ FinishRun

---------------------------------------------------------------------------
(* The process: SIGTERM, crash, restart, and the clock.                    *)

Forget ==
  /\ run' = IdleRun /\ cache' = {} /\ failures' = {}
  /\ stoppedFor' = [c \in Containers |-> NotSeen]
  /\ status' = [ran |-> FALSE, err |-> FALSE, failed |-> FALSE, blocked |-> FALSE]

Shutdown ==
  /\ proc = "up" /\ budget.crashes > 0
  /\ budget' = [budget EXCEPT !.crashes = @ - 1]
  /\ proc' = "stopping"
  /\ UNCHANGED <<docker, server, worker, changed>>

Crash ==
  /\ proc # "down" /\ budget.crashes > 0
  /\ budget' = [budget EXCEPT !.crashes = @ - 1]
  /\ proc' = "down"
  /\ Forget
  /\ UNCHANGED <<docker, server, changed>>

Restart ==
  /\ proc = "down"
  /\ proc' = "up"
  /\ Forget
  /\ UNCHANGED <<docker, server, changed, budget>>

\* The clock moves between runs: a run reads it once per collection, and a
\* tick stands for half a minute.
Tick ==
  /\ Idle
  /\ stoppedFor' = [c \in Containers |->
       IF stoppedFor[c] \in 0..(StopGrace - 1) THEN stoppedFor[c] + 1
       ELSE stoppedFor[c]]
  /\ failures' = {IF f.wait > 0 THEN [f EXCEPT !.wait = @ - 1] ELSE f : f \in failures}
  /\ <<stoppedFor, failures>>' # <<stoppedFor, failures>>
  /\ UNCHANGED <<outside, server, run, cache, status, budget>>

---------------------------------------------------------------------------
(* Docker, and everybody else who writes to NPM.                           *)

\* An id goes from new to gone; a recreated container is a new id under the
\* old name.
ContainerMoves(c, to) ==
  /\ budget.docker > 0
  /\ budget' = [budget EXCEPT !.docker = @ - 1]
  /\ \/ docker[c] = "new" /\ to \in {"running", "stopped"}
        /\ \A d \in Present : NameOf[d] # NameOf[c]
     \/ docker[c] = "stopped" /\ to \in {"running", "gone"}
     \/ docker[c] = "running" /\ to \in {"stopped", "gone"}
  /\ docker' = [docker EXCEPT ![c] = to]
  /\ changed' = changed \cup {c}
  /\ UNCHANGED <<live, lastId, proc, worker>>

SpendUI ==
  /\ budget.ui > 0
  /\ budget' = [budget EXCEPT !.ui = @ - 1]
  /\ UNCHANGED <<outside, worker>>

\* A host made by hand, or by the sync instance of another Docker host.
UICreate(kind, d, owner) ==
  /\ SpendUI
  /\ ~Clashes(kind, {d}, Nobody)
  /\ lastId' = lastId + 1
  /\ \E c \in Configs :
       live' = live \cup {
         [id |-> lastId + 1, kind |-> kind, doms |-> {d}, cfg |-> c,
          enabled |-> TRUE, owner |-> owner, marked |-> FALSE,
          prefix |-> Nobody, name |-> Nobody, cid |-> Nobody, index |-> 0,
          by |-> owner]}

UIEdit(r) ==
  /\ SpendUI
  /\ \/ \E c \in Configs \ {r.cfg} : live' = Overwrite(r.id, [r EXCEPT !.cfg = c])
     \/ live' = Overwrite(r.id, [r EXCEPT !.enabled = ~r.enabled])
     \/ live' = live \ {r}
  /\ UNCHANGED lastId

\* The ownership a resource loses: without it, it counts as made by hand.
Disowned(r) == [r EXCEPT !.owner = "hand", !.marked = FALSE, !.prefix = Nobody,
                         !.name = Nobody, !.cid = Nobody, !.index = 0]

\* Another domain given by hand: a marker written for the old key is not
\* trusted any more, the meta object of an unmarked resource is.
UIMove(r, d) ==
  /\ SpendUI
  /\ ~Clashes(r.kind, {d}, r.id)
  /\ live' = Overwrite(r.id, [(IF r.marked /\ d # Key(r) THEN Disowned(r) ELSE r)
                                EXCEPT !.doms = {d}])
  /\ UNCHANGED lastId

\* The NPMplus migration that empties the meta object of every host.
MetaEmptied ==
  /\ SpendUI
  /\ live' = {IF r.marked THEN r ELSE Disowned(r) : r \in live}
  /\ UNCHANGED lastId

Environment ==
  \/ \E c \in Containers, to \in ContainerStates : ContainerMoves(c, to)
  \/ \E k \in OutsideKinds, d \in OutsideDomains, o \in {"hand", "peer"} :
       UICreate(k, d, o)
  \/ \E r \in live : UIEdit(r) \/ \E d \in OutsideDomains : UIMove(r, d)
  \/ MetaEmptied

Init ==
  /\ docker \in [Containers -> StartStates]
  /\ \A c, d \in Present : NameOf[c] = NameOf[d] => c = d
  /\ live \in Seeds
  /\ lastId = LastSeed
  /\ proc = "up"
  /\ run = IdleRun /\ cache = {} /\ failures = {}
  /\ stoppedFor = [c \in Containers |-> NotSeen]
  /\ status = [ran |-> FALSE, err |-> FALSE, failed |-> FALSE, blocked |-> FALSE]
  /\ changed = {}
  /\ budget = [docker |-> MaxDocker, ui |-> MaxUI, faults |-> MaxFaults,
               crashes |-> MaxCrashes]

Next == Reconcile \/ Shutdown \/ Crash \/ Restart \/ Tick \/ Environment

\* The goroutine runs, the resync ticker keeps triggering it, time passes and
\* the container runtime restarts the process.  Nothing is asked of Docker, of
\* people or of the network.
Fairness ==
  /\ WF_vars(Reconcile) /\ WF_vars(StartRun(TRUE))
  /\ SF_vars(Tick) /\ WF_vars(Restart)

Spec == Init /\ [][Next]_vars
FairSpec == Spec /\ Fairness

---------------------------------------------------------------------------

Runs ==
  [phase: {"idle", "list", "key", "toggle", "decide", "delete"}, kind: Kinds,
   deletes: BOOLEAN, final: BOOLEAN, targets: SUBSET Targets,
   prot: SUBSET Containers, none: BOOLEAN, listed: SUBSET Resources,
   todo: SUBSET Domains, next: SUBSET Entries,
   toggle: [id: Nat, want: BOOLEAN, made: BOOLEAN, entry: SUBSET Entries],
   victims: SUBSET Resources, failed: BOOLEAN, fatal: BOOLEAN]
Failures == [kind: Kinds, key: Domains, fp: Fingerprints,
             delay: BackoffMin..BackoffMax, wait: 0..BackoffMax]
Statuses == [ran: BOOLEAN, err: BOOLEAN, failed: BOOLEAN, blocked: BOOLEAN]
Budgets == [docker: Nat, ui: Nat, faults: Nat, crashes: Nat]

\* The type invariant.  Beyond plain types: delays stay within the backoff
\* limits, ages within the grace period, and a key exists whenever the worker
\* is about to toggle the host of one.
TypeOK ==
  /\ docker \in [Containers -> ContainerStates]
  /\ live \subseteq Resources /\ lastId \in Nat
  /\ proc \in {"up", "stopping", "down"}
  /\ run \in Runs /\ (run.phase = "toggle" => run.todo # {})
  /\ cache \subseteq Entries /\ failures \subseteq Failures
  /\ stoppedFor \in [Containers -> {NotSeen} \cup 0..StopGrace]
  /\ status \in Statuses
  /\ changed \subseteq Containers
  /\ budget \in Budgets

=============================================================================
