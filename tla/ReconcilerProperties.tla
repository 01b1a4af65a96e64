----------------------- MODULE ReconcilerProperties -----------------------
(***************************************************************************)
(* What the reconcile worker promises, stated over the containers and the  *)
(* resources themselves and not over the worker's own decisions.           *)
(***************************************************************************)
EXTENDS Reconciler

\* A step that is not a write of somebody else: the UI pays for each of its own.
ByWorker == budget'.ui = budget.ui
Removed == {r \in live : r.id \notin {q.id : q \in live'}}

\* Whom a listed resource belongs to, in the words of docs/DELETION.md.
OfThisInstance(l) ==
  \/ l.owner \in {"self", "unstamped"}
  \/ l.owner = "peer" /\ ~HasInstance
  \/ l.owner = "redth" /\ MigrateFromRedth
MayTouch(l) == OfThisInstance(l) \/ (l.owner = "hand" /\ AdoptExisting)

Defines(c, kind, k) ==
  \E d \in LabelsOf[c].defs : d.kind = kind /\ Key(d) = k

\* Containers of which the run in progress has an up-to-date picture.
Known == IF run.none THEN {} ELSE Present \ changed
MayLoseHosts(c) == /\ OnStop = "delete" /\ docker[c] = "stopped"
                   /\ stoppedFor[c] >= StopGrace

\* All that is left of the containers that define this key is stopped.
OnlyStopped(kind, k) ==
  LET claimants == {c \in Containers : Defines(c, kind, k)} IN
  /\ claimants \cap changed = {} /\ claimants \cap Known # {}
  /\ \A c \in claimants \cap Known : docker[c] = "stopped"

---------------------------------------------------------------------------
(* Safety, as action properties.                                           *)

\* Whatever the worker changes or removes was, when it was listed, a resource
\* of this instance or one it may adopt - or the worker made it in this very
\* run.  (ownership, owns: worker.go)
TouchesItsOwn ==
  \A r \in live \ live' :
    \/ \E l \in run.listed : l.id = r.id /\ MayTouch(l)
    \/ r.by = "us" /\ r.id \notin IdsOf(run.listed)
ActsOnlyOnItsOwn == [][ByWorker => TouchesItsOwn]_vars

\* A resource is removed only if it was listed as this instance's, deletion is
\* on, this is not the flush at shutdown, and no container the run saw, whose
\* state has not changed since, still claims its key.  (reconcile, deleteOrphans)
RemovesOrphans ==
  \A r \in Removed :
    /\ DeleteOrphans /\ ~run.final
    /\ \E l \in run.listed :
         /\ l.id = r.id /\ OfThisInstance(l)
         /\ \A c \in Known : Defines(c, l.kind, Key(l)) => MayLoseHosts(c)
DeletesOnlyOrphans == [][ByWorker => RemovesOrphans]_vars

\* No resource goes that its marker assigns, by name or by id, to a container
\* whose labels cannot be read.  (Snapshot.IsProtected)
RemovesUnprotected ==
  \A r \in Removed : \E l \in run.listed :
    /\ l.id = r.id
    /\ \A c \in Known : LabelsOf[c].bad => l.name # NameOf[c] /\ l.cid # c
ProtectedHostsSurvive == [][ByWorker => RemovesUnprotected]_vars

\* While every container that defines a key is stopped, the resource keeps what
\* it had, at most as it was listed: only its enabled flag and marker change.
\* ("A stopped container keeps its resource exactly as it is": reconcileKind)
Content(r) == <<r.kind, r.doms, r.cfg, r.owner, r.prefix, r.name, r.cid, r.index>>
StoppedHostsKeepTheirContent ==
  [][ByWorker => \A l \in run.listed : OnlyStopped(l.kind, Key(l)) =>
       \A r \in live, q \in live' : {r.id, q.id} = {l.id} =>
         Content(q) \in {Content(r), Content(l)}]_vars

\* Within the grace period not even that: the resource is not written at all.
\* (inGrace, trackStopped)
GraceHolds ==
  [][ByWorker => \A l \in run.listed :
       /\ OnlyStopped(l.kind, Key(l))
       /\ \A c \in Known : Defines(c, l.kind, Key(l)) => stoppedFor[c] < StopGrace
       => \A r \in live : r.id = l.id => r \in live']_vars

\* A resource is switched off only for a container that was stopped longer than
\* the grace period, or that asks for it itself.  (applyEnabled, NPM_ON_STOP)
OnlyStoppedHostsAreDisabled ==
  [][ByWorker => \A r \in live, q \in live' :
       r.id = q.id /\ r.enabled /\ ~q.enabled =>
         \E c \in Containers, d \in UNION {LabelsOf[x].defs : x \in Containers} :
           /\ d \in LabelsOf[c].defs /\ d.kind = r.kind
           /\ Key(d) = Min(run.todo)
           /\ \/ c \in changed \/ ~d.enabled
              \/ /\ OnStop = "disable" /\ docker[c] = "stopped"
                 /\ stoppedFor[c] >= StopGrace]_vars

\* A run that knows enough resources of its own never removes them all, in
\* however many collections they are, and none at all when the label prefix was
\* changed.  (guardDeletions)
Owned == {l \in run.listed : OfThisInstance(l)}
NeverWipes ==
  [][ByWorker /\ Removed # {} =>
       /\ LabelPrefix # Nobody => \A l \in Owned : l.prefix \in {Nobody, LabelPrefix}
       /\ GuardNum > 0 /\ Cardinality(Owned) >= DeleteGuardMin /\ budget.ui = MaxUI =>
            \E l \in Owned : l.id \in IdsOf(live') \ IdsOf(run'.victims)]_vars

\* A configuration NPM rejected is not refused a second time before the delay
\* of the first refusal is over.  (deferred, noteFailure)
BackoffHonoured ==
  [][\A f \in failures, g \in failures' :
       <<f.kind, f.key, f.fp>> = <<g.kind, g.key, g.fp>> /\ g.wait > f.wait =>
         f.wait = 0 /\ (g.delay = BackoffMax \/ g.delay >= 2 * f.delay)]_vars

\* DRY_RUN: no write of any kind.
DryRunWritesNothing == [][ByWorker => UNCHANGED live]_vars

---------------------------------------------------------------------------
(* What the documentation says and the code does not keep.                 *)

\* docs/DELETION.md, The rule: a host is deleted only when "no container claims
\* its domain (or port) any more".
ClaimedDomainsAreKept ==
  [][ByWorker => \A r \in Removed : \A c \in Known : \A d \in LabelsOf[c].defs :
       docker[c] = "running" /\ d.kind = r.kind => d.doms \cap r.doms = {}]_vars

\* README.md, Is it safe: with no containers reported at all, nothing is deleted.
EmptyListDeletesNothing == [][ByWorker /\ Removed # {} => ~run.none]_vars

\* README.md, Is it safe: a host made by hand is never deleted, "only hosts the
\* tool created itself are ever removed".
HandMadeHostsSurvive == [][ByWorker => \A r \in Removed : r.by # "hand"]_vars

---------------------------------------------------------------------------
(* Safety, as an invariant.                                                *)

\* As long as nobody else writes to NPM, every cache entry between two runs
\* names a resource that is there and holds what was sent, or what the server
\* made of it.  The in-sync check relies on it.  (Cache.ReplaceKind)
Truthful(e) ==
  \E r \in live :
    /\ r.id = e.id /\ r.kind = e.kind /\ Key(r) = e.key
    /\ Fingerprint(r) \in {e.fp, [e.fp EXCEPT !.cfg = Stored[@]]}
CacheTellsTheTruth ==
  run.phase = "idle" /\ budget.ui = MaxUI => \A e \in cache : Truthful(e)

---------------------------------------------------------------------------
(* What holds between any two steps of a run, and the proofs rest on.      *)

\* Ids are handed out in order.
IdsBounded == \A r \in live \cup run.listed : r.id <= lastId

\* The keys still to do are keys some target claims, in and out of grace alike.
TodoIsWanted == run.phase \in {"key", "toggle"} => run.todo \subseteq Wanted(run.kind)

\* The resource about to be enabled or disabled was listed as one the worker
\* may touch, or is the one it has just made.
ToggleIsOurs ==
  run.phase = "toggle" =>
    \/ \E l \in run.listed : l.id = run.toggle.id /\ MayTouch(l)
    \/ /\ run.toggle.id <= lastId /\ run.toggle.id \notin IdsOf(run.listed)
       /\ \A r \in live : r.id = run.toggle.id => r.by = "us"

\* What waits to be deleted was listed as ours and as nobody's definition.
VictimsAreOrphans ==
  /\ run.deletes => DeleteOrphans /\ ~run.final
  /\ run.victims # {} => run.deletes /\ run.phase = "delete"
  /\ \A v \in run.victims : /\ v \in run.listed /\ OfThisInstance(v)
                            /\ Key(v) \notin Wanted(v.kind) /\ ~Protected(v)

\* What the run knows of a container is still true unless it changed since, and
\* the age of every stopped target is known.
SnapshotIsCurrent ==
  run.phase # "idle" =>
    /\ \A c \in Known :
         /\ \A d \in LabelsOf[c].defs :
              [def |-> d, cid |-> c, running |-> docker[c] = "running"] \in run.targets
         /\ LabelsOf[c].bad => c \in run.prot
    /\ \A t \in run.targets : t.running \/ stoppedFor[t.cid] # NotSeen

\* The inductive invariant: of a run that is interrupted anywhere, what it
\* listed, what it still has to do and what it may delete fit together.
RunIsConsistent ==
  /\ IdsBounded /\ TodoIsWanted /\ ToggleIsOurs
  /\ VictimsAreOrphans /\ SnapshotIsCurrent

\* An id stands for one resource, and a resource stays in its collection.
IdsAreUnique ==
  /\ \A q, r \in live : q.id = r.id => q = r
  /\ \A l, m \in run.listed : l.id = m.id => l = m
  /\ \A l \in run.listed, r \in live : l.id = r.id => l.kind = r.kind

\* The collections listed so far are those before the one in hand, and it.
ListedInOrder ==
  \A l \in run.listed :
    IF run.phase = "list" THEN l.kind < run.kind ELSE l.kind <= run.kind

\* A target is a definition of a container that is as it was, unless that
\* changed since.
TargetsAreCurrent ==
  /\ run.none => run.targets = {}
  /\ \A t \in run.targets :
       /\ t.def \in LabelsOf[t.cid].defs
       /\ \/ t.cid \in changed
          \/ t.cid \in Present /\ (t.running <=> docker[t.cid] = "running")

\* What is toggled is the host of the key in hand, past every check, to the
\* state the policy asks for; or it is the one just made for that key.
ToggleIsDecided ==
  run.phase = "toggle" =>
    LET k == Min(run.todo)
        t == run.toggle
    IN  /\ IF t.made
           THEN /\ Found(k) = {} /\ t.id \notin IdsOf(run.listed)
                /\ t.want = FALSE /\ Target(k).def.enabled = FALSE
           ELSE /\ Found(k) # {} /\ Settled(k) /\ t.id = Current(k).id
                /\ t.want = WantEnabled(k) /\ t.want # Current(k).enabled
        /\ \A r \in live : r.id = t.id => r.kind = run.kind
        /\ ~DryRun

\* Identities, snapshot and toggle, of a run that is interrupted anywhere.
RunIsFaithful ==
  IdsAreUnique /\ ListedInOrder /\ TargetsAreCurrent /\ ToggleIsDecided

\* While nobody else writes, what was listed stays until it is deleted; and once
\* the guard has let deletions through, one resource of ours is left to stay.
GuardIsRemembered ==
  /\ budget.ui <= MaxUI
  /\ run.victims # {} => ~DryRun
  /\ budget.ui = MaxUI /\ run.phase # "delete" => IdsOf(run.listed) \subseteq IdsOf(live)
  /\ run.phase = "delete" =>
       /\ \A l \in Owned : ~ForeignPrefix(l)
       /\ GuardNum > 0 /\ Cardinality(Owned) >= DeleteGuardMin /\ budget.ui = MaxUI =>
            \E l \in Owned : l.id \in IdsOf(live) \ IdsOf(run.victims)

\* The keys of the collection in hand whose hosts are as they were listed.
Pending == CASE run.phase = "key"    -> run.todo
             [] run.phase = "toggle" -> run.todo \ {Min(run.todo)}
             [] OTHER                -> {}

\* While nobody else writes: a resource keeps the key it was listed under; a
\* cache entry is true unless its key is one this run has already turned to; and
\* so are the entries that are to replace it.  An orphan has none.
CacheIsReplaced ==
  /\ run.next # {} => run.phase \in {"key", "toggle"}
  /\ run.phase = "idle" => run.listed = {}
  /\ budget.ui = MaxUI =>
       /\ \A l \in run.listed, r \in live : l.id = r.id => Key(l) = Key(r)
       /\ \A l \in run.listed : l.kind = run.kind /\ Key(l) \in Pending => l \in live
       /\ \A e \in cache :
            \/ Truthful(e)
            \/ /\ run.phase \in {"key", "toggle"} /\ e.kind = run.kind
               /\ e.key \notin Pending
       /\ \A e \in run.next :
            /\ Truthful(e) /\ e.kind = run.kind
            /\ e.key \in Wanted(run.kind) \ run.todo
       /\ run.phase = "toggle" => \A e \in run.toggle.entry :
            Truthful(e) /\ e.kind = run.kind /\ e.key = Min(run.todo)
       /\ \A l \in run.listed, e \in cache : e.kind = l.kind =>
            \/ e.key \in Wanted(l.kind)
            \/ run.phase \in {"key", "toggle"} /\ l.kind = run.kind

\* A resource is in backoff once, and none that is being toggled waits.
BackoffIsSingle ==
  /\ \A f, g \in failures : <<f.kind, f.key>> = <<g.kind, g.key>> => f = g
  /\ run.phase = "toggle" => ~InBackoff(Min(run.todo))

---------------------------------------------------------------------------
(* Liveness.                                                               *)

\* The definition that gets a key: of running and stopped containers alike the
\* first by container name and index.
Winner(c, d) ==
  \A b \in Present : \A e \in LabelsOf[b].defs :
    e.kind = d.kind /\ Key(e) = Key(d) =>
      \/ NameOf[c] < NameOf[b]
      \/ c = b /\ d.index <= e.index
\* Nobody else's resource stands in the way, and NPM accepts the configuration.
Possible(d) ==
  /\ d.cfg \notin BadConfigs
  /\ \A r \in live : r.kind \in HostKinds /\ r.doms \cap d.doms # {} => OfThisInstance(r)
Served(d) ==
  \E r \in live :
    /\ OfThisInstance(r) /\ r.kind = d.kind /\ r.doms = d.doms
    /\ r.cfg \in {d.cfg, Stored[d.cfg]} /\ r.enabled = d.enabled

\* When everything else has calmed down, what the labels of the running
\* containers ask for is what NPM serves, however many calls failed before,
\* and whatever NPM keeps rejecting elsewhere.
EventuallyServed ==
  <>[](\A c \in Present : \A d \in LabelsOf[c].defs :
         docker[c] = "running" /\ Winner(c, d) /\ Possible(d) => Served(d))

\* A resource of this instance whose key nobody defines does not stay.
Kept(r) == \E c \in Present :
  \/ Defines(c, r.kind, Key(r))
  \/ LabelsOf[c].bad /\ (r.name = NameOf[c] \/ r.cid = c)
EventuallyCleanedUp ==
  <>[](\A r \in live : OfThisInstance(r) => Kept(r))

=============================================================================
