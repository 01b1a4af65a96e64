------------------------ MODULE ReconcilerRunProofs ------------------------
(***************************************************************************)
(* More about the reconcile worker, for all values of the constants: what  *)
(* the hosts of stopped containers keep, that the guard leaves something,  *)
(* that the cache is true between two runs, and that a dry run is one.     *)
(* The invariant of ReconcilerProofs is used throughout.                   *)
(***************************************************************************)
EXTENDS ReconcilerProofs

---------------------------------------------------------------------------
(* What the steps that write do, without the answers of the server.        *)

New(k) ==
  LET new == Build(Target(k)) IN
  [id |-> lastId + 1, kind |-> run.kind, doms |-> new.doms,
   cfg |-> Stored[new.cfg], enabled |-> TRUE, owner |-> new.owner,
   marked |-> new.marked, prefix |-> new.prefix, name |-> new.name,
   cid |-> new.cid, index |-> new.index, by |-> "us"]
Updated(k, old) ==
  LET new == Build(Target(k)) IN
  [old EXCEPT !.doms = new.doms, !.cfg = Stored[new.cfg], !.owner = new.owner,
     !.marked = new.marked, !.prefix = new.prefix, !.name = new.name,
     !.cid = new.cid, !.index = new.index]
Marked(k) == [Current(k) EXCEPT !.marked = TRUE]
Stamped(k, old) == [Marked(k) EXCEPT !.enabled = old.enabled]
Flipped(r) ==
  IF r.id = run.toggle.id THEN [r EXCEPT !.enabled = run.toggle.want] ELSE r

CreateEffect(k) ==
  /\ Found(k) = {}
  /\ \/ UNCHANGED server /\ Rejected(k)
     \/ /\ lastId' = lastId + 1 /\ live' = live \cup {New(k)}
        /\ \/ Rejected(k)
           \/ Toggle(k, lastId + 1, Fingerprint(Build(Target(k))), TRUE,
                     Target(k).def.enabled, TRUE)
LEMMA CreateHas ==
  ASSUME NEW k, CreateHost(k)
  PROVE  At(k) /\ Proceeds(k) /\ CreateEffect(k)
<1> DEFINE valid == /\ ~Clashes(run.kind, Build(Target(k)).doms, Nobody)
                    /\ Build(Target(k)).cfg \notin BadConfigs
<1>1. PICK answer \in Answers(valid) :
        /\ \/ answer = "rejected" /\ UNCHANGED <<live, lastId>>
           \/ /\ answer # "rejected" /\ lastId' = lastId + 1
              /\ live' = live \cup {New(k)}
        /\ \/ /\ answer = "ok"
              /\ Toggle(k, lastId + 1, Fingerprint(Build(Target(k))), TRUE,
                        Build(Target(k)).enabled, TRUE)
           \/ answer # "ok" /\ Rejected(k)
  <2> HIDE DEF valid
  <2> QED  BY DEF CreateHost, New, valid
<1>2. Build(Target(k)).enabled = Target(k).def.enabled  BY DEF Build
<1>3. At(k) /\ Proceeds(k) /\ Found(k) = {}  BY DEF CreateHost
<1> QED  BY <1>1, <1>2, <1>3 DEF CreateEffect, server

UpdateEffect(k) ==
  /\ Found(k) # {} /\ ~Frozen(k) /\ UNCHANGED lastId
  /\ \/ UNCHANGED live /\ Rejected(k)
     \/ \E old \in live :
          /\ old.id = Current(k).id /\ live' = Overwrite(old.id, Updated(k, old))
          /\ \/ Rejected(k)
             \/ Toggle(k, Current(k).id, Fingerprint(Build(Target(k))),
                       Current(k).enabled, WantEnabled(k), FALSE)
LEMMA UpdateHas ==
  ASSUME NEW k, UpdateHost(k)
  PROVE  At(k) /\ Proceeds(k) /\ UpdateEffect(k)
<1> DEFINE stored == {r \in live : r.id = Current(k).id}
           valid == /\ stored # {} /\ Build(Target(k)).cfg \notin BadConfigs
                    /\ ~Clashes(run.kind, Build(Target(k)).doms, Current(k).id)
<1>1. PICK answer \in Answers(valid) :
        /\ \/ answer = "rejected" /\ UNCHANGED live
           \/ \E old \in stored : live' = Overwrite(old.id, Updated(k, old))
        /\ \/ /\ answer = "ok"
              /\ Toggle(k, Current(k).id, Fingerprint(Build(Target(k))),
                        Current(k).enabled, WantEnabled(k), FALSE)
           \/ answer # "ok" /\ Rejected(k)
  <2> HIDE DEF valid
  <2> QED  BY DEF UpdateHost, Updated, valid
<1>2. At(k) /\ Proceeds(k) /\ Found(k) # {} /\ ~Frozen(k) /\ UNCHANGED lastId
  BY DEF UpdateHost
<1> QED  BY <1>1, <1>2 DEF UpdateEffect

StampEffect(k) ==
  /\ Found(k) # {} /\ Frozen(k) /\ UNCHANGED lastId
  /\ \/ UNCHANGED live /\ Decided(k, {}, TRUE) /\ failures' = Forgiven(k)
     \/ \E old \in live :
          /\ old.id = Current(k).id /\ live' = Overwrite(old.id, Stamped(k, old))
          /\ \/ Decided(k, {}, TRUE) /\ failures' = Forgiven(k)
             \/ Toggle(k, Current(k).id, Fingerprint(Marked(k)),
                       Current(k).enabled, WantEnabled(k), FALSE)
LEMMA StampHas ==
  ASSUME NEW k, StampStopped(k)
  PROVE  At(k) /\ Proceeds(k) /\ StampEffect(k)
<1> DEFINE stored == {r \in live : r.id = Current(k).id}
           valid == /\ stored # {} /\ Current(k).cfg \notin BadConfigs
                    /\ ~Clashes(run.kind, Current(k).doms, Current(k).id)
<1>1. PICK answer \in Answers(valid) :
        /\ \/ answer = "rejected" /\ UNCHANGED live
           \/ \E old \in stored : live' = Overwrite(old.id, Stamped(k, old))
        /\ \/ /\ answer = "ok"
              /\ Toggle(k, Current(k).id, Fingerprint(Marked(k)),
                        Current(k).enabled, WantEnabled(k), FALSE)
           \/ answer # "ok" /\ Decided(k, {}, TRUE) /\ failures' = Forgiven(k)
  <2> HIDE DEF valid
  <2> QED  BY DEF StampStopped, Stamped, Marked, valid
<1>2. At(k) /\ Proceeds(k) /\ Found(k) # {} /\ Frozen(k) /\ UNCHANGED lastId
  BY DEF StampStopped
<1> QED  BY <1>1, <1>2 DEF StampEffect

KeepEffect(k) ==
  /\ Found(k) # {} /\ UNCHANGED server
  /\ \/ /\ Frozen(k)
        /\ Toggle(k, Current(k).id, Fingerprint(Current(k)), Current(k).enabled,
                  WantEnabled(k), FALSE)
     \/ /\ ~Frozen(k) /\ InSync(k)
        /\ Toggle(k, Current(k).id, Hash(k), Current(k).enabled,
                  WantEnabled(k), FALSE)
LEMMA KeepHas ==
  ASSUME NEW k, KeepHost(k)
  PROVE  At(k) /\ Proceeds(k) /\ KeepEffect(k)
BY DEF KeepHost, KeepEffect

EnableEffect(k) ==
  /\ run.phase = "toggle" /\ k = Min(run.todo) /\ UNCHANGED lastId
  /\ live' = live \/ live' = {Flipped(r) : r \in live}
  /\ \/ Decided(k, run.toggle.entry, FALSE) /\ failures' = Cleared(k)
     \/ Decided(k, {}, TRUE) /\ failures' \in {failures, BackedOff(k)}
LEMMA EnableHas ==
  ASSUME NEW k, SetEnabled(k)
  PROVE  EnableEffect(k)
BY DEF SetEnabled, EnableEffect, Flipped

Quiet(k) == \/ SkipNotOurs(k) \/ WaitOutGrace(k) \/ SkipConflict(k)
            \/ CannotResolve(k) \/ Defer(k) \/ SkipIncomplete(k)
            \/ PretendCreate(k) \/ PretendUpdate(k)
QuietEffect(k) ==
  /\ UNCHANGED server
  /\ failures' \in {failures, Forgiven(k), Cleared(k)}
  /\ \/ \E f \in BOOLEAN : Decided(k, {}, f)
     \/ /\ Found(k) # {}
        /\ Decided(k, Entry(k, Current(k).id, Fingerprint(Current(k))), FALSE)
LEMMA QuietHas ==
  ASSUME NEW k, Quiet(k)
  PROVE  At(k) /\ QuietEffect(k)
<1>1. CASE WaitOutGrace(k)
  BY <1>1 DEF WaitOutGrace, QuietEffect, memory
<1>2. CASE ~WaitOutGrace(k)
  BY <1>2 DEF Quiet, SkipNotOurs, SkipConflict, CannotResolve, Defer,
     SkipIncomplete, PretendCreate, PretendUpdate, QuietEffect, memory
<1> QED  BY <1>1, <1>2

\* Deciding about a key takes it off the list and adds what is known of it.
LEMMA DecidedRun ==
  ASSUME TypeOK, NEW k, NEW E, NEW f, Decided(k, E, f)
  PROVE  /\ run'.phase = "key" /\ run'.todo = run.todo \ {k}
         /\ run'.next = run.next \cup E /\ SameRun
<1>1. run \in Runs  BY DEF TypeOK
<1> QED  BY <1>1 DEF Decided, Runs, SameRun

\* A toggle is skipped, or it is the next step.
LEMMA ToggledRun ==
  ASSUME TypeOK, NEW k, NEW id, NEW fp, NEW was, NEW want, NEW made,
         Toggle(k, id, fp, was, want, made)
  PROVE  \/ Decided(k, Entry(k, id, fp), FALSE) /\ failures' = Cleared(k)
         \/ /\ was # want /\ ~DryRun
            /\ run'.phase = "toggle" /\ run'.todo = run.todo
            /\ run'.next = run.next /\ SameRun /\ failures' = Forgiven(k)
            /\ run'.toggle.id = id /\ run'.toggle.want = want
            /\ run'.toggle.made = made /\ run'.toggle.entry = Entry(k, id, fp)
<1>1. run \in Runs  BY DEF TypeOK
<1>2. CASE was = want \/ DryRun  BY <1>2 DEF Toggle
<1>3. CASE ~(was = want \/ DryRun)
  <2> DEFINE tg == [id |-> id, want |-> want, made |-> made,
                    entry |-> Entry(k, id, fp)]
  <2>1. /\ run' = [run EXCEPT !.phase = "toggle", !.toggle = tg]
        /\ failures' = Forgiven(k)
    BY <1>3 DEF Toggle
  <2>2. /\ tg.id = id /\ tg.want = want /\ tg.made = made
        /\ tg.entry = Entry(k, id, fp)
    OBVIOUS
  <2> HIDE DEF tg
  <2>3. run'.toggle = tg  BY <1>1, <2>1 DEF Runs
  <2> QED  BY <1>1, <1>3, <2>1, <2>2, <2>3 DEF Runs, SameRun
<1> QED  BY <1>2, <1>3

\* What the worker sees of a key does not change while it works on a collection.
SameView(k) ==
  /\ Found(k)' = Found(k) /\ Current(k)' = Current(k)
  /\ Wanted(run.kind)' = Wanted(run.kind) /\ Target(k)' = Target(k)
  /\ Frozen(k)' = Frozen(k) /\ Settled(k)' = Settled(k)
  /\ WantEnabled(k)' = WantEnabled(k) /\ Hash(k)' = Hash(k)
LEMMA ViewIsKept ==
  ASSUME NEW k, SameRun, UNCHANGED stoppedFor
  PROVE  SameView(k)
<1>1. /\ run'.kind = run.kind /\ run'.targets = run.targets
      /\ run'.listed = run.listed
  BY DEF SameRun
<1>2. Found(k)' = Found(k)  BY <1>1 DEF Found, Listed
<1>3. Current(k)' = Current(k)  BY <1>2 DEF Current
<1>4. \A t : InGrace(t)' = InGrace(t)  BY DEF InGrace
<1>5. \A kind : ActiveTargets(kind)' = ActiveTargets(kind)
  BY <1>1, <1>4 DEF ActiveTargets
<1>6. Wanted(run.kind)' = Wanted(run.kind)  BY <1>1, <1>5 DEF Wanted
<1>7. Claims(run.kind, k)' = Claims(run.kind, k)  BY <1>1, <1>5 DEF Claims
<1>8. Target(k)' = Target(k)  BY <1>7 DEF Target
<1>9. Frozen(k)' = Frozen(k)  BY <1>8 DEF Frozen
<1>10. Hash(k)' = Hash(k)  BY <1>8 DEF Hash
<1>11. Settled(k)' = Settled(k)
  BY <1>2, <1>3, <1>4, <1>8, <1>9 DEF Settled, Ours
<1>12. WantEnabled(k)' = WantEnabled(k)
  BY <1>3, <1>8, <1>9 DEF WantEnabled
<1> QED
  BY <1>2, <1>3, <1>6, <1>8, <1>9, <1>10, <1>11, <1>12 DEF SameView

---------------------------------------------------------------------------
(* Identities.                                                             *)

\* What every write leaves true of ids and collections.
IdsKept ==
  /\ \A q, r \in live' : q.id = r.id => q = r
  /\ \A q \in live' : \/ q.id = lastId + 1 /\ lastId' = lastId + 1
                      \/ \E r \in live : r.id = q.id /\ r.kind = q.kind

LEMMA AddKeepsIds ==
  ASSUME IInv, IdsAreUnique, NEW r, r.id = lastId + 1, lastId' = lastId + 1,
         live' = live \cup {r}
  PROVE  IdsKept
<1>1. \A q \in live : q.id \in Nat /\ q.id <= lastId /\ lastId \in Nat
  BY DEF IInv, TypeOK, Resources, RunIsConsistent, IdsBounded
<1> QED  BY <1>1 DEF IdsAreUnique, IdsKept

LEMMA OverwriteKeepsIds ==
  ASSUME IdsAreUnique, NEW old \in live, NEW r, r.id = old.id, r.kind = old.kind,
         live' = Overwrite(old.id, r)
  PROVE  IdsKept
BY DEF IdsAreUnique, IdsKept, Overwrite

LEMMA RemovalKeepsIds ==
  ASSUME IdsAreUnique, live' \subseteq live
  PROVE  IdsKept
BY DEF IdsAreUnique, IdsKept

\* The resource that is overwritten keeps its id and its collection.
LEMMA WritesInPlace ==
  ASSUME IInv, IdsAreUnique, NEW k \in Domains, At(k), NEW old \in live,
         Found(k) # {}, old.id = Current(k).id
  PROVE  /\ Updated(k, old).id = old.id /\ Updated(k, old).kind = old.kind
         /\ Stamped(k, old).id = old.id /\ Stamped(k, old).kind = old.kind
         /\ old.kind = run.kind /\ Current(k) \in run.listed
<1>1. /\ Current(k) \in run.listed /\ Current(k).kind = run.kind
      /\ Current(k) \in Resources
  BY CurrentInHand DEF IInv, RunIsConsistent
<1>2. old \in Resources /\ old.kind = Current(k).kind
  BY <1>1 DEF IInv, TypeOK, IdsAreUnique
<1>3. Updated(k, old).id = old.id /\ Updated(k, old).kind = old.kind
  BY <1>2 DEF Updated, Resources
<1>4. Marked(k).id = old.id /\ Marked(k).kind = old.kind
  BY <1>1, <1>2 DEF Marked, Resources
<1>5. Stamped(k, old).id = old.id /\ Stamped(k, old).kind = old.kind
  BY <1>1, <1>2, <1>4 DEF Stamped, Marked, Resources
<1> QED  BY <1>1, <1>2, <1>3, <1>5

LEMMA FlipKeepsIds ==
  ASSUME IInv, IdsAreUnique, live' = {Flipped(r) : r \in live}
  PROVE  IdsKept
<1>1. \A r \in live : Flipped(r).id = r.id /\ Flipped(r).kind = r.kind
  BY DEF Flipped, IInv, TypeOK, Resources
<1> QED  BY <1>1 DEF IdsAreUnique, IdsKept

\* A step on a key: what it does to the server.
LEMMA KeyKeepsIds ==
  ASSUME IInv, IdsAreUnique, NEW k \in Domains, ReconcileKey(k)
  PROVE  IdsKept
<1>1. CASE UNCHANGED live  BY <1>1, RemovalKeepsIds
<1>2. CASE CreateHost(k) /\ ~UNCHANGED live
  <2>1. lastId' = lastId + 1 /\ live' = live \cup {New(k)}
    BY <1>2, CreateHas DEF CreateEffect, server
  <2> QED  BY <2>1, AddKeepsIds DEF New
<1>3. CASE UpdateHost(k) /\ ~UNCHANGED live
  <2>1. At(k) /\ UpdateEffect(k)  BY <1>3, UpdateHas
  <2>2. PICK old \in live :
          old.id = Current(k).id /\ live' = Overwrite(old.id, Updated(k, old))
    BY <1>3, <2>1 DEF UpdateEffect
  <2> QED
    BY <2>1, <2>2, WritesInPlace, OverwriteKeepsIds DEF UpdateEffect
<1>4. CASE StampStopped(k) /\ ~UNCHANGED live
  <2>1. At(k) /\ StampEffect(k)  BY <1>4, StampHas
  <2>2. PICK old \in live :
          old.id = Current(k).id /\ live' = Overwrite(old.id, Stamped(k, old))
    BY <1>4, <2>1 DEF StampEffect
  <2> QED
    BY <2>1, <2>2, WritesInPlace, OverwriteKeepsIds DEF StampEffect
<1>5. CASE SetEnabled(k) /\ ~UNCHANGED live
  BY <1>5, EnableHas, FlipKeepsIds DEF EnableEffect
<1>6. CASE KeepHost(k) \/ Quiet(k)
  BY <1>6, <1>1, KeepHas, QuietHas DEF KeepEffect, QuietEffect, server
<1> QED  BY <1>1, <1>2, <1>3, <1>4, <1>5, <1>6 DEF ReconcileKey, Quiet

\* What others write.
ByOthers ==
  \/ \E k \in OutsideKinds, d \in OutsideDomains, o \in {"hand", "peer"} :
       UICreate(k, d, o)
  \/ \E r \in live : UIEdit(r) \/ \E d \in OutsideDomains : UIMove(r, d)
  \/ MetaEmptied
LEMMA OthersKeepIds ==
  ASSUME IInv, IdsAreUnique, ByOthers
  PROVE  IdsKept /\ budget'.ui < budget.ui /\ UNCHANGED <<outside, worker>>
<1>1. SpendUI  BY DEF ByOthers, UICreate, UIEdit, UIMove, MetaEmptied
<1>2. budget'.ui < budget.ui /\ UNCHANGED <<outside, worker>>
  BY <1>1 DEF SpendUI, IInv, TypeOK, Budgets
<1>3. live \subseteq Resources  BY DEF IInv, TypeOK
<1>4. ASSUME NEW k \in OutsideKinds, NEW d \in OutsideDomains,
             NEW o \in {"hand", "peer"}, UICreate(k, d, o)
      PROVE  IdsKept
  <2>1. PICK c \in Configs : live' = live \cup {
         [id |-> lastId + 1, kind |-> k, doms |-> {d}, cfg |-> c,
          enabled |-> TRUE, owner |-> o, marked |-> FALSE,
          prefix |-> Nobody, name |-> Nobody, cid |-> Nobody, index |-> 0,
          by |-> o]}
    BY <1>4 DEF UICreate
  <2>2. lastId' = lastId + 1  BY <1>4 DEF UICreate
  <2> QED  BY <2>1, <2>2, AddKeepsIds
<1>5. ASSUME NEW r \in live, UIEdit(r) PROVE IdsKept
  <2>1. CASE \E c \in Configs : live' = Overwrite(r.id, [r EXCEPT !.cfg = c])
    <3>1. PICK c \in Configs : live' = Overwrite(r.id, [r EXCEPT !.cfg = c])
      BY <2>1
    <3>2. [r EXCEPT !.cfg = c].id = r.id /\ [r EXCEPT !.cfg = c].kind = r.kind
      BY <1>3 DEF Resources
    <3> QED  BY <3>1, <3>2, OverwriteKeepsIds
  <2>2. CASE live' = Overwrite(r.id, [r EXCEPT !.enabled = ~r.enabled])
    <3>1. /\ [r EXCEPT !.enabled = ~r.enabled].id = r.id
          /\ [r EXCEPT !.enabled = ~r.enabled].kind = r.kind
      BY <1>3 DEF Resources
    <3> QED  BY <2>2, <3>1, OverwriteKeepsIds
  <2>3. CASE live' = live \ {r}  BY <2>3, RemovalKeepsIds
  <2> QED  BY <1>5, <2>1, <2>2, <2>3 DEF UIEdit
<1>6. ASSUME NEW r \in live
      PROVE  /\ Disowned(r).id = r.id /\ Disowned(r).kind = r.kind
             /\ Disowned(r) \in Resources
  BY <1>3 DEF Disowned, Resources, Owners, Nobody
<1>7. ASSUME NEW r \in live, NEW d \in OutsideDomains, UIMove(r, d) PROVE IdsKept
  <2> DEFINE base == IF r.marked /\ d # Key(r) THEN Disowned(r) ELSE r
             moved == [base EXCEPT !.doms = {d}]
  <2>1. base.id = r.id /\ base.kind = r.kind /\ base \in Resources  BY <1>3, <1>6
  <2>2. live' = Overwrite(r.id, moved)  BY <1>7 DEF UIMove
  <2> HIDE DEF base
  <2>3. moved.id = r.id /\ moved.kind = r.kind  BY <2>1 DEF Resources
  <2> HIDE DEF moved
  <2> QED  BY <2>2, <2>3, OverwriteKeepsIds
<1>8. ASSUME MetaEmptied PROVE IdsKept
  <2>1. live' = {IF r.marked THEN r ELSE Disowned(r) : r \in live}
    BY <1>8 DEF MetaEmptied
  <2> QED  BY <1>6, <2>1 DEF IdsAreUnique, IdsKept
<1> QED  BY <1>2, <1>4, <1>5, <1>7, <1>8 DEF ByOthers

---------------------------------------------------------------------------
(* The steps of a run, by what they do to it.                              *)

SameSnapshot == /\ run'.targets = run.targets /\ run'.none = run.none
                /\ UNCHANGED <<docker, changed, stoppedFor>>

\* Not a step of the run: time between runs, other actors, a signal.
Apart ==
  /\ UNCHANGED <<run, cache>>
  /\ run.phase = "idle" \/ UNCHANGED <<stoppedFor, failures>>
  /\ \A c \in Containers : c \in changed' \/ (c \notin changed /\ docker'[c] = docker[c])
  /\ \/ UNCHANGED <<live, lastId>> /\ budget'.ui = budget.ui
     \/ IdsKept /\ budget'.ui < budget.ui
\* The end of a run, of whatever kind.
Ends == /\ run' = IdleRun /\ UNCHANGED <<docker, changed, live, lastId>>
        /\ \/ cache' = {} /\ failures' = {}
           \/ UNCHANGED <<cache, failures>> /\ run.phase \in {"decide", "delete"}
        /\ budget'.ui = budget.ui
Starts ==
  /\ run.phase = "idle" /\ UNCHANGED <<docker, live, lastId, cache, failures>>
  /\ changed' = {} /\ budget'.ui = budget.ui
  /\ \E seen \in {Present, {}} :
       run'.targets = TargetsOf(seen) /\ run'.none = (seen = {})
  /\ run'.phase = "list" /\ run'.listed = {} /\ run'.next = {} /\ run'.victims = {}
Lists ==
  /\ run.phase = "list" /\ SameSnapshot /\ UNCHANGED <<live, lastId, cache, failures>>
  /\ run'.phase = "key" /\ run'.kind = run.kind /\ run'.todo = Wanted(run.kind)
  /\ run'.next = {} /\ run'.listed = run.listed \cup {r \in live : r.kind = run.kind}
  /\ run'.victims = {} /\ budget'.ui = budget.ui
\* To the next collection, or to the decision about deletions.
Advances ==
  /\ SameSnapshot /\ UNCHANGED <<live, lastId, failures>>
  /\ \/ run.phase = "list" /\ UNCHANGED cache
     \/ /\ run.phase = "key" /\ run.todo = {}
        /\ cache' = {e \in cache : e.kind # run.kind} \cup run.next
  /\ \/ run'.phase = "decide" /\ run'.kind = run.kind
     \/ run'.phase = "list" /\ run'.kind = run.kind + 1
  /\ run'.listed = run.listed /\ run'.victims = {}
  /\ run'.next \in {{}, run.next} /\ (run.phase = "key" => run'.next = {})
  /\ budget'.ui = budget.ui
Decides ==
  /\ run.phase = "decide" /\ SameSnapshot
  /\ UNCHANGED <<live, lastId, cache, failures>>
  /\ Orphans # {} /\ ~Guarded /\ run'.victims = Orphans
  /\ run'.phase = "delete" /\ run'.kind = run.kind /\ run'.listed = run.listed
  /\ run'.next = run.next /\ budget'.ui = budget.ui
Deletes ==
  /\ run.phase = "delete" /\ SameSnapshot /\ UNCHANGED <<lastId, cache, failures>>
  /\ \E o \in run.victims :
       /\ live' = live \/ live' = {r \in live : r.id # o.id}
       /\ run'.victims = run.victims \ {o}
  /\ run'.phase = "delete" /\ run'.kind = run.kind /\ run'.listed = run.listed
  /\ run'.next = run.next /\ budget'.ui = budget.ui
\* A step on a key.
Works(k) ==
  /\ ReconcileKey(k) /\ SameRun /\ UNCHANGED <<docker, changed, stoppedFor, cache>>
  /\ run.phase \in {"key", "toggle"} /\ k \in run.todo /\ k = Min(run.todo)
  /\ run'.phase \in {"key", "toggle"} /\ budget'.ui = budget.ui

LEMMA ApartSteps ==
  ASSUME IInv, IdsAreUnique,
         \/ Shutdown \/ Tick \/ UNCHANGED vars
         \/ \E final \in BOOLEAN : SnapshotFails(final)
         \/ \E c \in Containers, to \in ContainerStates : ContainerMoves(c, to)
         \/ ByOthers
  PROVE  Apart
<1>1. budget \in Budgets  BY DEF IInv, TypeOK
<1>2. CASE Shutdown
  <2>1. budget'.ui = budget.ui  BY <1>1, <1>2 DEF Shutdown, Budgets
  <2> QED  BY <1>2, <2>1 DEF Shutdown, Apart, server, worker, memory
<1>3. CASE Tick
  BY <1>3 DEF Tick, Idle, Apart, outside, server
<1>4. CASE UNCHANGED vars
  BY <1>4 DEF vars, outside, server, worker, memory, Apart
<1>5. ASSUME NEW final \in BOOLEAN, SnapshotFails(final) PROVE Apart
  <2>1. budget'.ui = budget.ui  BY <1>1, <1>5 DEF SnapshotFails, Budgets
  <2> QED  BY <1>5, <2>1 DEF SnapshotFails, Apart, server, memory, Idle
<1>6. ASSUME NEW c \in Containers, NEW to \in ContainerStates, ContainerMoves(c, to)
      PROVE  Apart
  <2>1. budget'.ui = budget.ui  BY <1>1, <1>6 DEF ContainerMoves, Budgets
  <2>2. docker \in [Containers -> ContainerStates]  BY DEF IInv, TypeOK
  <2>3. /\ docker' = [docker EXCEPT ![c] = to] /\ changed' = changed \cup {c}
        /\ UNCHANGED <<live, lastId, run, cache, failures, stoppedFor>>
    BY <1>6 DEF ContainerMoves, worker, memory
  <2> QED  BY <2>1, <2>2, <2>3 DEF Apart
<1>7. CASE ByOthers
  <2>1. IdsKept /\ budget'.ui < budget.ui /\ UNCHANGED <<outside, worker>>
    BY <1>7, OthersKeepIds
  <2> QED  BY <2>1 DEF Apart, outside, worker, memory
<1> QED  BY <1>2, <1>3, <1>4, <1>5, <1>6, <1>7

LEMMA EndSteps ==
  ASSUME IInv, Crash \/ Restart \/ FinishRun
               \/ (Decide /\ ~(Orphans # {} /\ run.deletes /\ ~Guarded))
  PROVE  Ends
<1>1. budget \in Budgets  BY DEF IInv, TypeOK
<1>2. CASE Crash
  <2>1. budget'.ui = budget.ui  BY <1>1, <1>2 DEF Crash, Budgets
  <2> QED  BY <1>2, <2>1 DEF Crash, Forget, Ends, server
<1>3. CASE Restart  BY <1>3 DEF Restart, Forget, Ends, server
<1>4. CASE FinishRun  BY <1>4 DEF FinishRun, Finish, Ends, server, memory
<1>5. CASE Decide /\ ~(Orphans # {} /\ run.deletes /\ ~Guarded)
  BY <1>5 DEF Decide, Finish, Ends, server, memory
<1> QED  BY <1>2, <1>3, <1>4, <1>5

LEMMA StartSteps ==
  ASSUME IInv, NEW final \in BOOLEAN, StartRun(final)
  PROVE  Starts
<1>1. PICK seen \in {Present, {}} :
        /\ budget' = budget \/ (budget.faults > 0 /\
                                budget' = [budget EXCEPT !.faults = @ - 1])
        /\ run' = [IdleRun EXCEPT
             !.phase = "list", !.final = final, !.deletes = MayDelete(final),
             !.targets = TargetsOf(seen),
             !.prot = {c \in seen : LabelsOf[c].bad}, !.none = (seen = {})]
  BY DEF StartRun
<1>2. budget'.ui = budget.ui  BY <1>1 DEF IInv, TypeOK, Budgets
<1>3. /\ UNCHANGED <<docker, live, lastId, cache, failures>> /\ changed' = {}
      /\ run.phase = "idle"
  BY DEF StartRun, Idle, server
<1> DEFINE T == TargetsOf(seen)
           P == {c \in seen : LabelsOf[c].bad}
           D == MayDelete(final)
<1>4. run' = [IdleRun EXCEPT !.phase = "list", !.final = final, !.deletes = D,
               !.targets = T, !.prot = P, !.none = (seen = {})]
  BY <1>1
<1> HIDE DEF T, P, D
<1>5. /\ run'.targets = T /\ run'.none = (seen = {})
      /\ run'.phase = "list" /\ run'.listed = {} /\ run'.next = {}
      /\ run'.victims = {}
  BY <1>4 DEF IdleRun
<1> QED  BY <1>2, <1>3, <1>5 DEF Starts, T

LEMMA CollectionShapes ==
  ASSUME IInv
  PROVE  /\ ListKind => Lists
         /\ SkipKind \/ ListFails \/ FinishKind => Advances
<1>1. /\ run \in Runs /\ budget \in Budgets /\ cache \subseteq Entries
      /\ run.phase # "delete" => run.victims = {}
  BY DEF IInv, TypeOK, RunIsConsistent, VictimsAreOrphans
<1>2. ASSUME ListKind PROVE Lists
  <2> DEFINE W == Wanted(run.kind)
             L == run.listed \cup {r \in live : r.kind = run.kind}
  <2>1. run' = [run EXCEPT !.phase = "key", !.todo = W, !.next = {}, !.listed = L]
    BY <1>2 DEF ListKind
  <2> HIDE DEF W, L
  <2>2. /\ run'.phase = "key" /\ run'.todo = W /\ run'.next = {} /\ run'.listed = L
        /\ run'.kind = run.kind /\ run'.victims = run.victims
        /\ run'.targets = run.targets /\ run'.none = run.none
    BY <1>1, <2>1 DEF Runs
  <2>3. /\ UNCHANGED <<outside, server, memory, status, budget>>
        /\ run.phase = "list"
    BY <1>2 DEF ListKind
  <2> QED  BY <1>1, <2>2, <2>3 DEF Lists, SameSnapshot, outside, server, memory, W, L
<1>3. ASSUME NEW r \in Runs
      PROVE  /\ AfterKind(r).listed = r.listed /\ AfterKind(r).victims = r.victims
             /\ AfterKind(r).targets = r.targets /\ AfterKind(r).none = r.none
             /\ AfterKind(r).next = r.next
             /\ \/ AfterKind(r).phase = "decide" /\ AfterKind(r).kind = r.kind
                \/ AfterKind(r).phase = "list" /\ AfterKind(r).kind = r.kind + 1
  BY DEF AfterKind, Runs
<1>4. ASSUME SkipKind \/ ListFails PROVE Advances
  <2> DEFINE r == [run EXCEPT !.fatal = TRUE]
  <2>1. /\ run' = AfterKind(run) \/ run' = AfterKind(r)
        /\ run.phase = "list" /\ UNCHANGED <<outside, server, memory, status>>
        /\ \/ budget' = budget
           \/ budget.faults > 0 /\ budget' = [budget EXCEPT !.faults = @ - 1]
    BY <1>4 DEF SkipKind, ListFails
  <2>2. budget'.ui = budget.ui  BY <1>1, <2>1 DEF Budgets
  <2>3. /\ r \in Runs /\ r.victims = run.victims /\ r.listed = run.listed
        /\ r.targets = run.targets /\ r.none = run.none
        /\ r.next = run.next /\ r.kind = run.kind
    BY <1>1 DEF Runs
  <2> HIDE DEF r
  <2>4. /\ run'.listed = run.listed /\ run'.victims = run.victims
        /\ run'.targets = run.targets /\ run'.none = run.none
        /\ run'.next = run.next
        /\ \/ run'.phase = "decide" /\ run'.kind = run.kind
           \/ run'.phase = "list" /\ run'.kind = run.kind + 1
    BY <1>1, <1>3, <2>1, <2>3
  <2> QED
    BY <1>1, <2>1, <2>2, <2>4 DEF Advances, SameSnapshot, outside, server, memory
<1>5. ASSUME FinishKind PROVE Advances
  <2> DEFINE r == [run EXCEPT !.next = {}]
  <2>1. /\ run' = AfterKind(r) /\ run.phase = "key" /\ run.todo = {}
        /\ UNCHANGED <<outside, server, failures, stoppedFor, status, budget>>
        /\ cache' = {e \in cache : e.kind # run.kind} \cup run.next
    BY <1>5 DEF FinishKind
  <2>2. /\ r \in Runs /\ r.victims = run.victims /\ r.listed = run.listed
        /\ r.targets = run.targets /\ r.none = run.none
        /\ r.next = {} /\ r.kind = run.kind
    BY <1>1 DEF Runs
  <2> HIDE DEF r
  <2>3. /\ run'.listed = run.listed /\ run'.victims = run.victims
        /\ run'.targets = run.targets /\ run'.none = run.none
        /\ run'.next = {}
        /\ \/ run'.phase = "decide" /\ run'.kind = run.kind
           \/ run'.phase = "list" /\ run'.kind = run.kind + 1
    BY <1>3, <2>1, <2>2
  <2> QED  BY <1>1, <2>1, <2>3 DEF Advances, SameSnapshot, outside, server
<1> QED  BY <1>2, <1>4, <1>5

LEMMA DeletionShapes ==
  ASSUME IInv
  PROVE  /\ Decide /\ Orphans # {} /\ run.deletes /\ ~Guarded => Decides
         /\ DeleteOrphan => Deletes
<1>1. TypeOK /\ run \in Runs  BY DEF IInv, TypeOK
<1>2. ASSUME Decide, Orphans # {} /\ run.deletes /\ ~Guarded PROVE Decides
  <2> DEFINE O == Orphans
  <2>1. /\ run' = [run EXCEPT !.phase = "delete", !.victims = O]
        /\ run.phase = "decide"
        /\ UNCHANGED <<docker, server, memory, changed, budget>>
    BY <1>2 DEF Decide
  <2> HIDE DEF O
  <2>2. /\ run'.phase = "delete" /\ run'.victims = O /\ run'.kind = run.kind
        /\ run'.targets = run.targets /\ run'.none = run.none
        /\ run'.listed = run.listed /\ run'.next = run.next
    BY <1>1, <2>1 DEF Runs
  <2> QED  BY <1>2, <2>1, <2>2 DEF Decides, SameSnapshot, server, memory, O
<1>3. ASSUME DeleteOrphan PROVE Deletes
  <2> DEFINE o == CHOOSE o \in run.victims : \A v \in run.victims :
                    o.kind < v.kind \/ (o.kind = v.kind /\ Key(o) <= Key(v))
  <2>1. run.victims # {} /\ run.phase = "delete"  BY <1>3 DEF DeleteOrphan
  <2>2. o \in run.victims  BY <1>1, <2>1, VictimChosen
  <2>3. PICK answer \in Answers(TRUE) :
          /\ Charge(answer, TRUE)
          /\ live' = live \/ live' = {r \in live : r.id # o.id}
          /\ run' = [run EXCEPT !.victims = @ \ {o}, !.failed = @ \/ answer # "ok"]
    BY <1>3 DEF DeleteOrphan
  <2> HIDE DEF o
  <2>4. budget'.ui = budget.ui  BY <1>1, <2>3, ChargeType
  <2>5. /\ run'.phase = "delete" /\ run'.victims = run.victims \ {o}
        /\ run'.kind = run.kind /\ run'.targets = run.targets
        /\ run'.none = run.none /\ run'.listed = run.listed
        /\ run'.next = run.next
    BY <1>1, <2>1, <2>3 DEF Runs
  <2>6. UNCHANGED <<outside, lastId, memory, status>>  BY <1>3 DEF DeleteOrphan
  <2> QED
    BY <2>1, <2>2, <2>3, <2>4, <2>5, <2>6 DEF Deletes, SameSnapshot, outside, memory
<1> QED  BY <1>2, <1>3

\* A key in hand is one still to do, and a step on it keeps the frame of the run.
LEMMA WorkShape ==
  ASSUME IInv, NEW k \in Domains, ReconcileKey(k)
  PROVE  Works(k)
<1>1. TypeOK /\ budget \in Budgets /\ proc \in {"up", "stopping", "down"}
  BY DEF IInv, TypeOK
<1>2. /\ run.phase \in {"key", "toggle"} /\ run.todo # {} /\ k = Min(run.todo)
  BY DEF ReconcileKey, SkipNotOurs, WaitOutGrace, SkipConflict, CannotResolve,
     Defer, SkipIncomplete, CreateHost, PretendCreate, KeepHost, UpdateHost,
     PretendUpdate, StampStopped, SetEnabled, At, TypeOK, IInv
<1>3. k \in run.todo  BY <1>2, KeyAtHand DEF AtHand
<1>4. UNCHANGED <<docker, changed, stoppedFor, cache>>
  BY DEF ReconcileKey, SkipNotOurs, WaitOutGrace, SkipConflict, CannotResolve,
     Defer, SkipIncomplete, CreateHost, PretendCreate, KeepHost, UpdateHost,
     PretendUpdate, StampStopped, SetEnabled, outside, memory
<1>5. \A E, f : Decided(k, E, f) => SameRun /\ run'.phase \in {"key", "toggle"}
  BY <1>1, DecidedRun
<1>6. \A id, fp, was, want, made :
        Toggle(k, id, fp, was, want, made) =>
          SameRun /\ run'.phase \in {"key", "toggle"}
  BY <1>1, <1>5, ToggledRun
<1>7. SameRun /\ run'.phase \in {"key", "toggle"}
  <2>1. CASE CreateHost(k)  BY <2>1, <1>5, <1>6, CreateHas DEF CreateEffect, Rejected
  <2>2. CASE UpdateHost(k)  BY <2>2, <1>5, <1>6, UpdateHas DEF UpdateEffect, Rejected
  <2>3. CASE StampStopped(k)  BY <2>3, <1>5, <1>6, StampHas DEF StampEffect
  <2>4. CASE KeepHost(k)  BY <2>4, <1>6, KeepHas DEF KeepEffect
  <2>5. CASE SetEnabled(k)  BY <2>5, <1>5, EnableHas DEF EnableEffect
  <2>6. CASE Quiet(k)  BY <2>6, <1>5, QuietHas DEF QuietEffect
  <2> QED  BY <2>1, <2>2, <2>3, <2>4, <2>5, <2>6 DEF ReconcileKey, Quiet
<1>8. budget'.ui = budget.ui
  <2>1. \A valid \in BOOLEAN : \A answer \in Answers(valid) :
          Charge(answer, valid) => budget'.ui = budget.ui
    BY <1>1, ChargeType
  <2>2. CASE CreateHost(k)
    <3> DEFINE valid == ~Clashes(run.kind, Build(Target(k)).doms, Nobody)
                        /\ Build(Target(k)).cfg \notin BadConfigs
    <3>1. valid \in BOOLEAN  OBVIOUS
    <3>2. \E answer \in Answers(valid) : Charge(answer, valid)
      BY <2>2 DEF CreateHost
    <3> QED  BY <2>1, <3>1, <3>2
  <2>3. CASE UpdateHost(k)
    <3> DEFINE valid == /\ {r \in live : r.id = Current(k).id} # {}
                        /\ Build(Target(k)).cfg \notin BadConfigs
                        /\ ~Clashes(run.kind, Build(Target(k)).doms, Current(k).id)
    <3>1. valid \in BOOLEAN  OBVIOUS
    <3>2. \E answer \in Answers(valid) : Charge(answer, valid)
      BY <2>3 DEF UpdateHost
    <3> QED  BY <2>1, <3>1, <3>2
  <2>4. CASE StampStopped(k)
    <3> DEFINE valid == /\ {r \in live : r.id = Current(k).id} # {}
                        /\ Current(k).cfg \notin BadConfigs
                        /\ ~Clashes(run.kind, Current(k).doms, Current(k).id)
    <3>1. valid \in BOOLEAN  OBVIOUS
    <3>2. \E answer \in Answers(valid) : Charge(answer, valid)
      BY <2>4 DEF StampStopped
    <3> QED  BY <2>1, <3>1, <3>2
  <2>5. CASE SetEnabled(k)
    <3> DEFINE valid == run.toggle.id \in IdsOf(live)
    <3>1. valid \in BOOLEAN  OBVIOUS
    <3>2. \E answer \in Answers(valid) : Charge(answer, valid)
      BY <2>5 DEF SetEnabled
    <3> QED  BY <2>1, <3>1, <3>2
  <2>6. CASE CannotResolve(k)  BY <1>1, <2>6 DEF CannotResolve, Budgets
  <2>7. CASE KeepHost(k) \/ (Quiet(k) /\ ~CannotResolve(k))
    BY <2>7 DEF Quiet, SkipNotOurs, WaitOutGrace, SkipConflict,
       Defer, SkipIncomplete, PretendCreate, KeepHost, PretendUpdate
  <2> QED  BY <2>2, <2>3, <2>4, <2>5, <2>6, <2>7 DEF ReconcileKey, Quiet
<1> QED  BY <1>2, <1>3, <1>4, <1>7, <1>8 DEF Works

\* Every step has one of these shapes.
LEMMA Shapes ==
  ASSUME IInv, IdsAreUnique, [Next]_vars
  PROVE  \/ Apart \/ Ends \/ Starts \/ Lists \/ Advances \/ Decides \/ Deletes
         \/ \E k \in Domains : Works(k)
<1>1. CASE \/ Shutdown \/ Tick \/ UNCHANGED vars \/ Environment
           \/ SnapshotFails(FALSE) \/ SnapshotFails(TRUE)
  BY <1>1, ApartSteps DEF Environment, ByOthers
<1>2. CASE StartRun(FALSE) \/ StartRun(TRUE)  BY <1>2, StartSteps
<1>3. CASE ListKind \/ SkipKind \/ ListFails \/ FinishKind
  BY <1>3, CollectionShapes
<1>4. CASE \E k \in Domains : ReconcileKey(k)  BY <1>4, WorkShape
<1>5. CASE Decide \/ DeleteOrphan  BY <1>5, DeletionShapes, EndSteps
<1>6. CASE FinishRun \/ Crash \/ Restart  BY <1>6, EndSteps
<1> QED  BY <1>1, <1>2, <1>3, <1>4, <1>5, <1>6 DEF Next, Reconcile

---------------------------------------------------------------------------
(* Identities, snapshot and toggle, step by step.                          *)

LEMMA StepKeepsIds ==
  ASSUME IInv, IdsAreUnique, [Next]_vars
  PROVE  IdsKept
<1>1. CASE UNCHANGED live \/ Deletes
  BY <1>1, RemovalKeepsIds DEF Deletes
<1>2. CASE \E k \in Domains : Works(k)  BY <1>2, KeyKeepsIds DEF Works
<1>3. CASE Apart  BY <1>1, <1>3 DEF Apart
<1>4. CASE Ends \/ Starts \/ Lists \/ Advances \/ Decides
  BY <1>1, <1>4 DEF Ends, Starts, Lists, Advances, Decides
<1> QED  BY <1>1, <1>2, <1>3, <1>4, Shapes

\* The collections of a run are listed in their order, each one once.
LEMMA OrderStep ==
  ASSUME IInv, IdsAreUnique, ListedInOrder, [Next]_vars
  PROVE  ListedInOrder' /\ IdsAreUnique'
<1>1. /\ IdsKept /\ lastId \in Nat
      /\ \A r \in run.listed \cup live : r.id \in Nat /\ r.id <= lastId
      /\ run.kind \in Nat /\ \A l \in run.listed : l.kind \in Nat
  <2>1. run.listed \subseteq Resources /\ run.kind \in Kinds
    BY DEF IInv, TypeOK, Runs
  <2> QED
    BY <2>1, StepKeepsIds DEF IInv, TypeOK, Resources, RunIsConsistent, IdsBounded, Kinds
<1>2. ASSUME run'.listed \subseteq run.listed PROVE IdsAreUnique'
  BY <1>1, <1>2 DEF IdsAreUnique, IdsKept
<1>3. CASE Apart
  BY <1>2, <1>3 DEF Apart, ListedInOrder
<1>4. CASE Ends
  BY <1>2, <1>4, IdleRunType DEF Ends, ListedInOrder
<1>5. CASE Starts  BY <1>2, <1>5 DEF Starts, ListedInOrder
<1>6. CASE Lists
  <2>1. /\ \A l \in run.listed : l.kind < run.kind
        /\ run'.listed = run.listed \cup {r \in live : r.kind = run.kind}
        /\ run'.phase = "key" /\ run'.kind = run.kind /\ live' = live
    BY <1>6 DEF Lists, ListedInOrder
  <2>2. ListedInOrder'  BY <1>1, <2>1 DEF ListedInOrder
  <2>3. \A l, m \in run'.listed : l.id = m.id => l = m
    BY <1>1, <2>1 DEF IdsAreUnique
  <2>4. \A l \in run'.listed, r \in live' : l.id = r.id => l.kind = r.kind
    BY <1>1, <2>1 DEF IdsAreUnique
  <2>5. \A q, r \in live' : q.id = r.id => q = r  BY <1>1 DEF IdsKept
  <2> QED  BY <2>2, <2>3, <2>4, <2>5 DEF IdsAreUnique
<1>7. CASE Advances
  BY <1>1, <1>2, <1>7 DEF Advances, ListedInOrder
<1>8. CASE Decides \/ Deletes
  BY <1>2, <1>8 DEF Decides, Deletes, ListedInOrder
<1>9. CASE \E k \in Domains : Works(k)
  BY <1>2, <1>9 DEF Works, SameRun, ListedInOrder
<1> QED  BY <1>3, <1>4, <1>5, <1>6, <1>7, <1>8, <1>9, Shapes

\* A snapshot grows old only by containers that change.
LEMMA SnapshotStep ==
  ASSUME IInv, IdsAreUnique, TargetsAreCurrent, [Next]_vars
  PROVE  TargetsAreCurrent'
<1>1. \A t \in run.targets : t.cid \in Containers
  BY DEF IInv, TypeOK, Runs, Targets
<1>2. CASE Apart
  <2>1. ASSUME NEW t \in run.targets
        PROVE  \/ t.cid \in changed'
               \/ t.cid \in Present' /\ (t.running <=> docker'[t.cid] = "running")
    BY <1>1, <1>2 DEF Apart, TargetsAreCurrent, Present
  <2> QED  BY <1>2, <2>1 DEF Apart, TargetsAreCurrent
<1>3. CASE Ends  BY <1>3 DEF Ends, IdleRun, TargetsAreCurrent
<1>4. CASE Starts
  <2>1. PICK seen \in {Present, {}} :
          run'.targets = TargetsOf(seen) /\ run'.none = (seen = {})
    BY <1>4 DEF Starts
  <2>2. seen = {} => run'.targets = {}  BY <2>1 DEF TargetsOf
  <2>3. ASSUME NEW t \in run'.targets
        PROVE  /\ t.def \in LabelsOf[t.cid].defs /\ t.cid \in Present
               /\ (t.running <=> docker[t.cid] = "running")
    <3>1. PICK c \in seen : t \in [def : LabelsOf[c].defs, cid : {c},
                                  running : {docker[c] = "running"}]
      BY <2>1 DEF TargetsOf
    <3>2. seen = Present  BY <3>1
    <3> QED  BY <3>1, <3>2
  <2>4. Present' = Present /\ docker' = docker  BY <1>4 DEF Starts, Present
  <2> QED  BY <2>1, <2>2, <2>3, <2>4 DEF TargetsAreCurrent
<1>5. CASE Lists \/ Advances \/ Decides \/ Deletes \/ \E k \in Domains : Works(k)
  <2>1. /\ run'.targets = run.targets /\ run'.none = run.none
        /\ UNCHANGED <<docker, changed>>
    BY <1>5 DEF Lists, Advances, Decides, Deletes, Works, SameSnapshot, SameRun
  <2> QED  BY <2>1 DEF TargetsAreCurrent, Present
<1> QED  BY <1>2, <1>3, <1>4, <1>5, Shapes

\* What is toggled was decided by the checks of the step before; other actors
\* change neither the listing nor the snapshot it was decided from.
LEMMA ToggleStep ==
  ASSUME IInv, IdsAreUnique, ToggleIsDecided, [Next]_vars
  PROVE  ToggleIsDecided'
<1>1. /\ TypeOK /\ IdsKept /\ lastId \in Nat
      /\ \A r \in run.listed \cup live : r.id \in Nat /\ r.id <= lastId
  BY StepKeepsIds DEF IInv, TypeOK, Runs, Resources, RunIsConsistent, IdsBounded
<1>2. CASE run'.phase # "toggle"  BY <1>2 DEF ToggleIsDecided
<1>3. CASE Apart /\ run'.phase = "toggle"
  <2> DEFINE k == Min(run.todo)
  <2>1. run' = run /\ run.phase = "toggle" /\ UNCHANGED stoppedFor  BY <1>3 DEF Apart
  <2>2. SameView(k)  BY <2>1, ViewIsKept DEF SameRun
  <2>3. run.toggle.id \in Nat /\ run.toggle.id <= lastId
    BY <1>1, <2>1 DEF TypeOK, Runs, IInv, RunIsConsistent, ToggleIsOurs
  <2>4. \A r \in live' : r.id = run.toggle.id => r.kind = run.kind
    BY <1>1, <2>1, <2>3 DEF IdsKept, ToggleIsDecided
  <2> HIDE DEF k
  <2>5. /\ IF run.toggle.made
           THEN /\ Found(k) = {} /\ run.toggle.id \notin IdsOf(run.listed)
                /\ run.toggle.want = FALSE /\ Target(k).def.enabled = FALSE
           ELSE /\ Found(k) # {} /\ Settled(k) /\ run.toggle.id = Current(k).id
                /\ run.toggle.want = WantEnabled(k)
                /\ run.toggle.want # Current(k).enabled
        /\ ~DryRun
    BY <2>1 DEF ToggleIsDecided, k
  <2>6. /\ IF run.toggle.made
           THEN /\ Found(k)' = {} /\ run.toggle.id \notin IdsOf(run.listed)
                /\ run.toggle.want = FALSE /\ Target(k)'.def.enabled = FALSE
           ELSE /\ Found(k)' # {} /\ Settled(k)' /\ run.toggle.id = Current(k)'.id
                /\ run.toggle.want = WantEnabled(k)'
                /\ run.toggle.want # Current(k)'.enabled
        /\ ~DryRun
    BY <2>2, <2>5 DEF SameView
  <2> QED  BY <2>1, <2>4, <2>6 DEF ToggleIsDecided, k
<1>4. ASSUME NEW k \in Domains, Works(k), run'.phase = "toggle" PROVE ToggleIsDecided'
  <2>1. SameView(k) /\ SameRun  BY <1>4, ViewIsKept DEF Works
  <2>2. ASSUME NEW id, NEW fp, NEW was, NEW want, NEW made,
               Toggle(k, id, fp, was, want, made), At(k),
               \A r \in live' : r.id = id => r.kind = run.kind,
               IF made
               THEN /\ Found(k) = {} /\ id \notin IdsOf(run.listed)
                    /\ was = TRUE /\ want = Target(k).def.enabled
                    /\ want \in BOOLEAN
               ELSE /\ Found(k) # {} /\ Settled(k) /\ id = Current(k).id
                    /\ was = Current(k).enabled /\ want = WantEnabled(k)
        PROVE  ToggleIsDecided'
    <3>1. /\ was # want /\ ~DryRun
          /\ run'.todo = run.todo
          /\ run'.toggle.id = id /\ run'.toggle.want = want
          /\ run'.toggle.made = made
      BY <1>1, <1>4, <2>2, DecidedRun, ToggledRun
    <3>2. k = Min(run'.todo)  BY <2>2, <3>1 DEF At
    <3>3. /\ run'.kind = run.kind /\ run'.listed = run.listed  BY <2>1 DEF SameRun
    <3>4. IF made
          THEN /\ Found(k)' = {} /\ id \notin IdsOf(run'.listed)
               /\ want = FALSE /\ Target(k)'.def.enabled = FALSE
          ELSE /\ Found(k)' # {} /\ Settled(k)' /\ id = Current(k)'.id
               /\ want = WantEnabled(k)' /\ want # Current(k)'.enabled
      <4>1. /\ Found(k)' = Found(k) /\ Current(k)' = Current(k)
            /\ Target(k)' = Target(k) /\ Settled(k)' = Settled(k)
            /\ WantEnabled(k)' = WantEnabled(k)
        BY <2>1 DEF SameView
      <4>2. CASE made  BY <2>2, <3>1, <3>3, <4>1, <4>2
      <4>3. CASE ~made  BY <2>2, <3>1, <3>3, <4>1, <4>3
      <4> QED  BY <4>2, <4>3
    <3> QED  BY <2>2, <3>1, <3>2, <3>3, <3>4 DEF ToggleIsDecided
  <2>3. CASE CreateHost(k)
    <3>1. At(k) /\ Proceeds(k) /\ CreateEffect(k)  BY <2>3, CreateHas
    <3>2. ~Rejected(k)  BY <1>1, <1>4, DecidedRun DEF Rejected
    <3>3. /\ Found(k) = {} /\ lastId' = lastId + 1 /\ live' = live \cup {New(k)}
          /\ Toggle(k, lastId + 1, Fingerprint(Build(Target(k))), TRUE,
                    Target(k).def.enabled, TRUE)
      BY <3>1, <3>2 DEF CreateEffect
    <3>4. lastId + 1 \notin IdsOf(run.listed)  BY <1>1 DEF IdsOf
    <3>5. \A r \in live' : r.id = lastId + 1 => r.kind = run.kind
      BY <1>1, <3>3 DEF New
    <3>6. Target(k).def.enabled \in BOOLEAN
      BY <1>4, KeyAtHand DEF Works, AtHand, Targets, Definitions
    <3> QED  BY <2>2, <3>1, <3>3, <3>4, <3>5, <3>6
  <2>4. ASSUME Found(k) # {}, At(k), Proceeds(k), NEW fp,
               Toggle(k, Current(k).id, fp, Current(k).enabled, WantEnabled(k), FALSE)
        PROVE  ToggleIsDecided'
    <3>1. Current(k) \in run.listed /\ Current(k).kind = run.kind
      BY <2>4, CurrentInHand DEF IInv, RunIsConsistent
    <3>2. \A r \in live' : r.id = Current(k).id => r.kind = run.kind
      BY <1>1, <3>1 DEF IdsKept, IdsAreUnique
    <3> QED  BY <2>2, <2>4, <3>2 DEF Proceeds
  <2>5. CASE UpdateHost(k)
    <3>1. ~Rejected(k)  BY <1>1, <1>4, DecidedRun DEF Rejected
    <3> QED  BY <2>4, <2>5, <3>1, UpdateHas DEF UpdateEffect
  <2>6. CASE StampStopped(k)
    <3>1. ~Decided(k, {}, TRUE)  BY <1>1, <1>4, DecidedRun
    <3> QED  BY <2>4, <2>6, <3>1, StampHas DEF StampEffect
  <2>7. CASE KeepHost(k)  BY <2>4, <2>7, KeepHas DEF KeepEffect
  <2>8. CASE SetEnabled(k)  BY <1>1, <1>4, <2>8, EnableHas, DecidedRun DEF EnableEffect
  <2>9. CASE Quiet(k)  BY <1>1, <1>4, <2>9, QuietHas, DecidedRun DEF QuietEffect
  <2> QED  BY <1>4, <2>3, <2>5, <2>6, <2>7, <2>8, <2>9 DEF Works, ReconcileKey, Quiet
<1>5. CASE Ends \/ Starts \/ Lists \/ Advances \/ Decides \/ Deletes
  BY <1>2, <1>5, IdleRunType DEF Ends, Starts, Lists, Advances, Decides, Deletes
<1> QED  BY <1>2, <1>3, <1>4, <1>5, Shapes

\* The process starts with an empty run, and NPM with resources of its own ids.
LEMMA FaithfulInit == Init => RunIsFaithful
<1> SUFFICES ASSUME Init PROVE RunIsFaithful  OBVIOUS
<1>1. /\ run.listed = {} /\ run.targets = {} /\ run.phase = "idle"
      /\ \A q, r \in live : q.id = r.id => q = r
  BY SeedsAssumption DEF Init, IdleRun
<1> QED  BY <1>1 DEF RunIsFaithful, IdsAreUnique, ListedInOrder, TargetsAreCurrent,
                     ToggleIsDecided

LEMMA FaithfulStep ==
  ASSUME IInv, RunIsFaithful, [Next]_vars
  PROVE  RunIsFaithful'
BY OrderStep, SnapshotStep, ToggleStep DEF RunIsFaithful

---------------------------------------------------------------------------
(* Stopped containers.                                                     *)

\* When all that is left of a key's containers is stopped, so is its target.
LEMMA StoppedIsFrozen ==
  ASSUME IInv, RunIsFaithful, NEW k \in Domains, k \in Wanted(run.kind),
         OnlyStopped(run.kind, k)
  PROVE  /\ Frozen(k) /\ Target(k).cid \in Known
         /\ Defines(Target(k).cid, run.kind, k) /\ Target(k) \in run.targets
<1> DEFINE t == Target(k)
           claimants == {c \in Containers : Defines(c, run.kind, k)}
<1>1. /\ t \in run.targets /\ t \in Targets /\ t.def.kind = run.kind
      /\ Key(t.def) = k
  BY TargetInHand DEF IInv
<1>2. /\ t.def \in LabelsOf[t.cid].defs /\ ~run.none /\ t.cid \in Containers
      /\ t.running \in BOOLEAN
      /\ \/ t.cid \in changed
         \/ t.cid \in Present /\ (t.running <=> docker[t.cid] = "running")
  BY <1>1 DEF RunIsFaithful, TargetsAreCurrent, Targets
<1>3. t.cid \in claimants  BY <1>1, <1>2 DEF Defines
<1>4. t.cid \notin changed  BY <1>3 DEF OnlyStopped
<1>5. t.cid \in Known  BY <1>2, <1>4 DEF Known
<1>6. docker[t.cid] = "stopped"  BY <1>3, <1>5 DEF OnlyStopped
<1>7. ~t.running  BY <1>2, <1>4, <1>6
<1> QED  BY <1>1, <1>3, <1>5, <1>7 DEF Frozen

\* A key in hand of which a resource was listed is the resource's own key.
LEMMA CurrentIsListed ==
  ASSUME IInv, RunIsFaithful, NEW k \in Domains, k \in run.todo,
         run.phase \in {"key", "toggle"}, Found(k) # {},
         NEW l \in run.listed, l.id = Current(k).id
  PROVE  /\ l = Current(k) /\ l.kind = run.kind /\ Key(l) = k
         /\ k \in Wanted(run.kind)
<1>1. /\ Current(k) \in run.listed /\ Current(k).kind = run.kind
      /\ Key(Current(k)) = k
  BY CurrentInHand DEF IInv, RunIsConsistent
<1>2. l = Current(k)  BY <1>1 DEF RunIsFaithful, IdsAreUnique
<1> QED  BY <1>1, <1>2 DEF IInv, RunIsConsistent, TodoIsWanted

\* Of the worker's steps, those on a key and deletions write.
LEMMA WhoWrites ==
  ASSUME IInv, RunIsFaithful, [Next]_vars, ByWorker
  PROVE  UNCHANGED live \/ Deletes \/ \E k \in Domains : Works(k)
<1>1. budget.ui \in Nat /\ budget'.ui = budget.ui
  BY DEF IInv, TypeOK, Budgets, ByWorker
<1> QED
  BY <1>1, Shapes DEF RunIsFaithful, Apart, Ends, Starts, Lists, Advances, Decides

LEMMA ContentStep ==
  ASSUME IInv, RunIsFaithful, [Next]_vars, ByWorker,
         NEW l \in run.listed, OnlyStopped(l.kind, Key(l)),
         NEW r \in live, NEW q \in live', r.id = l.id, q.id = l.id
  PROVE  Content(q) \in {Content(r), Content(l)}
<1>1. /\ IdsAreUnique /\ lastId \in Nat /\ l.id \in Nat /\ l.id <= lastId
      /\ live \subseteq Resources
  BY DEF RunIsFaithful, IInv, TypeOK, Runs, Resources, RunIsConsistent, IdsBounded
<1>2. CASE q \in live  BY <1>1, <1>2 DEF IdsAreUnique
<1>3. ASSUME NEW k \in Domains, Works(k), q \notin live
      PROVE  Content(q) \in {Content(r), Content(l)}
  <2>1. k \in run.todo /\ run.phase \in {"key", "toggle"}  BY <1>3 DEF Works
  <2>2. CASE CreateHost(k)
    <3>1. \/ live' = live
          \/ live' = live \cup {New(k)} /\ New(k).id = lastId + 1
      BY <2>2, CreateHas DEF CreateEffect, New, server
    <3> QED  BY <1>1, <1>3, <3>1
  <2>3. CASE UpdateHost(k)
    <3>1. At(k) /\ UpdateEffect(k)  BY <2>3, UpdateHas
    <3>2. PICK old \in live : /\ old.id = Current(k).id
                              /\ live' = Overwrite(old.id, Updated(k, old))
      BY <1>3, <3>1 DEF UpdateEffect
    <3>3. Updated(k, old).id = old.id
      BY <1>1, <3>1, <3>2, WritesInPlace DEF UpdateEffect
    <3>4. old.id # l.id
      BY <2>1, <3>1, <3>2, CurrentIsListed, StoppedIsFrozen DEF UpdateEffect
    <3> QED  BY <1>3, <3>2, <3>3, <3>4 DEF Overwrite
  <2>4. CASE StampStopped(k)
    <3>1. At(k) /\ StampEffect(k)  BY <2>4, StampHas
    <3>2. PICK old \in live : /\ old.id = Current(k).id
                              /\ live' = Overwrite(old.id, Stamped(k, old))
      BY <1>3, <3>1 DEF StampEffect
    <3>3. Stamped(k, old).id = old.id /\ Current(k) \in run.listed
      BY <1>1, <3>1, <3>2, WritesInPlace DEF StampEffect
    <3>4. q = Stamped(k, old)  BY <1>3, <3>2 DEF Overwrite
    <3>5. Current(k) = l
      BY <1>1, <3>2, <3>3, <3>4 DEF IdsAreUnique
    <3>6. Content(Stamped(k, old)) = Content(Current(k))
      <4>1. Current(k) \in Resources  BY <3>3 DEF IInv, TypeOK, Runs
      <4> QED  BY <4>1 DEF Content, Stamped, Marked, Resources
    <3> QED  BY <3>4, <3>5, <3>6
  <2>5. CASE SetEnabled(k)
    <3>1. live' = {Flipped(s) : s \in live}
      BY <1>3, <2>5, EnableHas DEF EnableEffect
    <3>2. PICK s \in live : q = Flipped(s)  BY <3>1
    <3>3. /\ s \in Resources /\ Flipped(s).id = s.id
          /\ Content(Flipped(s)) = Content(s)
      BY <1>1 DEF Flipped, Content, Resources
    <3>4. s = r  BY <1>1, <3>2, <3>3 DEF IdsAreUnique
    <3> QED  BY <3>2, <3>3, <3>4
  <2>6. CASE KeepHost(k) \/ Quiet(k)
    BY <1>3, <2>6, KeepHas, QuietHas DEF KeepEffect, QuietEffect, server
  <2> QED  BY <1>3, <2>2, <2>3, <2>4, <2>5, <2>6 DEF Works, ReconcileKey, Quiet
<1>4. CASE Deletes  BY <1>2, <1>4 DEF Deletes
<1> QED  BY <1>2, <1>3, <1>4, WhoWrites

\* Within its grace period, a key that was found is settled by waiting.
LEMMA GraceIsWaitedFor ==
  ASSUME IInv, RunIsFaithful, NEW k \in Domains, k \in Wanted(run.kind),
         run.phase # "idle", OnlyStopped(run.kind, k),
         \A c \in Known : Defines(c, run.kind, k) => stoppedFor[c] < StopGrace
  PROVE  ~Settled(k)
<1> DEFINE t == Target(k)
<1>1. /\ Frozen(k) /\ t.cid \in Known /\ Defines(t.cid, run.kind, k)
      /\ t \in run.targets
  BY StoppedIsFrozen
<1>2. ~t.running /\ t.cid \in Containers
  BY <1>1 DEF Frozen, Known, Present
<1>3. stoppedFor[t.cid] < StopGrace  BY <1>1
<1>4. stoppedFor[t.cid] # NotSeen
  BY <1>1, <1>2 DEF IInv, RunIsConsistent, SnapshotIsCurrent
<1>5. stoppedFor[t.cid] \in 0..StopGrace  BY <1>2, <1>4 DEF IInv, TypeOK
<1>6. StopGrace > 0  BY <1>3, <1>5, OptionsAssumption
<1> QED  BY <1>1, <1>2, <1>3, <1>6 DEF Settled, InGrace

LEMMA GraceStep ==
  ASSUME IInv, RunIsFaithful, [Next]_vars, ByWorker,
         NEW l \in run.listed, OnlyStopped(l.kind, Key(l)),
         \A c \in Known : Defines(c, l.kind, Key(l)) => stoppedFor[c] < StopGrace,
         NEW r \in live, r.id = l.id
  PROVE  r \in live'
<1>1. /\ IdsAreUnique /\ live \subseteq Resources  BY DEF RunIsFaithful, IInv, TypeOK
<1>2. ASSUME NEW k \in Domains, Works(k) PROVE r \in live'
  <2>1. k \in run.todo /\ k = Min(run.todo) /\ run.phase \in {"key", "toggle"}
    BY <1>2 DEF Works
  <2>2. Found(k) # {} /\ Settled(k) => Current(k).id # l.id
    BY <2>1, CurrentIsListed, GraceIsWaitedFor
  <2>3. CASE CreateHost(k)
    BY <2>3, CreateHas DEF CreateEffect, server
  <2>4. CASE UpdateHost(k)
    <3>1. Settled(k) /\ UpdateEffect(k)  BY <2>4, UpdateHas DEF Proceeds
    <3> QED  BY <2>2, <3>1 DEF UpdateEffect, Overwrite
  <2>5. CASE StampStopped(k)
    <3>1. Settled(k) /\ StampEffect(k)  BY <2>5, StampHas DEF Proceeds
    <3> QED  BY <2>2, <3>1 DEF StampEffect, Overwrite
  <2>6. CASE SetEnabled(k)
    <3>1. run.phase = "toggle" /\ EnableEffect(k)  BY <2>6, EnableHas DEF EnableEffect
    <3>2. run.toggle.id # l.id
      BY <2>1, <2>2, <3>1 DEF RunIsFaithful, ToggleIsDecided, IdsOf
    <3>3. Flipped(r) = r  BY <3>2 DEF Flipped
    <3> QED  BY <3>1, <3>3 DEF EnableEffect
  <2>7. CASE KeepHost(k) \/ Quiet(k)
    BY <2>7, KeepHas, QuietHas DEF KeepEffect, QuietEffect, server
  <2> QED  BY <1>2, <2>3, <2>4, <2>5, <2>6, <2>7 DEF Works, ReconcileKey, Quiet
<1>3. CASE Deletes
  <2>1. PICK o \in run.victims : live' = live \/ live' = {s \in live : s.id # o.id}
    BY <1>3 DEF Deletes
  <2>2. o.id # l.id
    <3> SUFFICES ASSUME o.id = l.id PROVE FALSE  OBVIOUS
    <3>1. o = l
      BY <1>1 DEF IInv, RunIsConsistent, VictimsAreOrphans, IdsAreUnique
    <3>2. PICK c \in Known : Defines(c, l.kind, Key(l))  BY DEF OnlyStopped
    <3>3. stoppedFor[c] >= StopGrace
      BY <1>3, <3>1, <3>2, OrphanIsUnclaimed DEF Deletes, MayLoseHosts
    <3>4. stoppedFor[c] \in Int /\ StopGrace \in Nat
      BY <3>2, OptionsAssumption DEF IInv, TypeOK, Known, Present, NotSeen
    <3> QED  BY <3>2, <3>3, <3>4
  <2> QED  BY <2>1, <2>2
<1> QED  BY <1>2, <1>3, WhoWrites

LEMMA Faithfulness == Spec => []RunIsFaithful
<1>1. IInv /\ RunIsFaithful /\ [Next]_vars => RunIsFaithful'  BY FaithfulStep
<1> QED  BY <1>1, FaithfulInit, Invariance, PTL DEF Spec

\* The host of a container that is stopped keeps its content, whatever other
\* containers, people and faults do in the middle of the run that saw it stopped
\* (Worker.reconcileKind, stampMarker).
THEOREM StoppedHostsAreKept == Spec => StoppedHostsKeepTheirContent
<1>1. IInv /\ RunIsFaithful /\ [Next]_vars =>
        [ByWorker => \A l \in run.listed : OnlyStopped(l.kind, Key(l)) =>
           \A r \in live, q \in live' : {r.id, q.id} = {l.id} =>
             Content(q) \in {Content(r), Content(l)}]_vars
  BY ContentStep
<1> QED
  BY <1>1, Invariance, Faithfulness, PTL DEF Spec, StoppedHostsKeepTheirContent

\* Within the grace period it is not written at all (Worker.inGrace).
THEOREM GraceIsKept == Spec => GraceHolds
<1>1. IInv /\ RunIsFaithful /\ [Next]_vars =>
        [ByWorker => \A l \in run.listed :
           /\ OnlyStopped(l.kind, Key(l))
           /\ \A c \in Known : Defines(c, l.kind, Key(l)) => stoppedFor[c] < StopGrace
           => \A r \in live : r.id = l.id => r \in live']_vars
  BY GraceStep
<1> QED  BY <1>1, Invariance, Faithfulness, PTL DEF Spec, GraceHolds

---------------------------------------------------------------------------
(* Deletions: the guard, and dry runs.                                     *)

\* NPM numbers what it holds, so a listing is finite.
LEMMA ListingIsFinite ==
  ASSUME IInv, IdsAreUnique, NEW S \in SUBSET run.listed
  PROVE  IsFiniteSet(S) /\ Cardinality(S) \in Nat
<1> DEFINE number == [l \in run.listed |-> l.id]
<1>1. /\ lastId \in Nat
      /\ \A l \in run.listed : l.id \in 0..lastId
  BY DEF IInv, TypeOK, Runs, Resources, RunIsConsistent, IdsBounded
<1>2. number \in Injection(run.listed, 0..lastId)
  BY <1>1 DEF IdsAreUnique, Injection, IsInjective
<1>3. IsFiniteSet(0..lastId)  BY <1>1, FS_Interval
<1>4. IsFiniteSet(run.listed)  BY <1>2, <1>3, FS_Injection
<1>5. IsFiniteSet(S)  BY <1>4, FS_Subset
<1> QED  BY <1>5, FS_CardinalityType

\* If the guard lets a run of enough resources delete, some are left over.
LEMMA GuardLeavesSome ==
  ASSUME IInv, IdsAreUnique, ~Guarded
  PROVE  /\ \A l \in Owned : ~ForeignPrefix(l)
         /\ GuardNum > 0 /\ Cardinality(Owned) >= DeleteGuardMin =>
              \E l \in Owned : l \notin Orphans
<1>1. {r \in run.listed : Owns(r)} = Owned  BY DEF Owns, Owned, OfThisInstance
<1>2. /\ Owned \in SUBSET run.listed /\ Orphans \in SUBSET run.listed
      /\ Orphans \subseteq Owned
  BY DEF Owned, Orphans, Owns, OfThisInstance
<1>3. Cardinality(Owned) \in Nat /\ Cardinality(Orphans) \in Nat
  BY <1>2, ListingIsFinite
<1>4. DeleteGuardMin \in Nat /\ GuardNum \in Nat  BY OptionsAssumption
<1>5. \A l \in Owned : ~ForeignPrefix(l)  BY <1>1 DEF Guarded
<1>6. ASSUME GuardNum > 0, Cardinality(Owned) >= DeleteGuardMin, Orphans = Owned
      PROVE  FALSE
  BY <1>1, <1>3, <1>4, <1>6 DEF Guarded
<1> QED  BY <1>2, <1>5, <1>6

\* No step on a key takes an id away.
LEMMA WorkRemovesNothing ==
  ASSUME IInv, NEW k \in Domains, ReconcileKey(k)
  PROVE  IdsOf(live) \subseteq IdsOf(live')
<1>1. Removed = {}
  <2>1. CASE UNCHANGED live  BY <2>1 DEF Removed
  <2>2. CASE CreateHost(k) \/ KeepHost(k) \/ UpdateHost(k) \/ StampStopped(k)
             \/ SetEnabled(k)
    BY <2>2, CreateStep, KeepStep, UpdateStep, StampStep, SetEnabledStep DEF GoodWrite
  <2>3. CASE Quiet(k)  BY <2>1, <2>3, QuietHas DEF QuietEffect, server
  <2> QED  BY <2>2, <2>3 DEF ReconcileKey, Quiet
<1> QED  BY <1>1 DEF Removed, IdsOf

LEMMA GuardInit == Init => GuardIsRemembered
<1> SUFFICES ASSUME Init PROVE GuardIsRemembered  OBVIOUS
<1>1. /\ run.listed = {} /\ run.victims = {} /\ run.phase = "idle"
      /\ budget.ui = MaxUI /\ MaxUI \in Nat
  BY BoundsAssumption DEF Init, IdleRun
<1> QED  BY <1>1 DEF GuardIsRemembered, IdsOf

\* As long as nobody else has written, nobody else writes in this step.
LEMMA StillAlone ==
  ASSUME IInv, GuardIsRemembered, IdsAreUnique, [Next]_vars
  PROVE  /\ budget'.ui <= MaxUI
         /\ budget'.ui = MaxUI => budget.ui = MaxUI
         /\ budget'.ui = MaxUI /\ Apart => UNCHANGED <<live, lastId>>
<1>1. budget.ui \in Nat /\ budget'.ui \in Nat /\ MaxUI \in Nat /\ budget.ui <= MaxUI
  <2>1. IInv'  BY NextStep
  <2> QED  BY <2>1, BoundsAssumption DEF IInv, TypeOK, Budgets, GuardIsRemembered
<1>2. budget'.ui <= budget.ui
  BY <1>1, Shapes DEF Apart, Ends, Starts, Lists, Advances, Decides, Deletes, Works
<1> QED  BY <1>1, <1>2 DEF Apart

LEMMA GuardStep ==
  ASSUME IInv, RunIsFaithful, GuardIsRemembered, [Next]_vars
  PROVE  GuardIsRemembered'
<1>1. /\ budget'.ui <= MaxUI /\ (budget'.ui = MaxUI => budget.ui = MaxUI)
      /\ budget'.ui = MaxUI /\ Apart => UNCHANGED live
      /\ IdsAreUnique
  BY StillAlone DEF RunIsFaithful
<1>2. CASE Ends \/ Starts
  <2>1. run'.listed = {} /\ run'.victims = {} /\ run'.phase # "delete"
    BY <1>2, IdleRunType DEF Ends, Starts
  <2> QED  BY <1>1, <2>1 DEF GuardIsRemembered, IdsOf
<1>3. CASE Apart
  <2>1. run' = run  BY <1>3 DEF Apart
  <2>2. Owned' = Owned  BY <2>1 DEF Owned, OfThisInstance
  <2> QED  BY <1>1, <1>3, <2>1, <2>2 DEF GuardIsRemembered
<1>4. CASE Lists
  <2>1. /\ run.phase = "list" /\ run'.phase = "key" /\ live' = live
        /\ run'.listed = run.listed \cup {r \in live : r.kind = run.kind}
        /\ run'.victims = {}
    BY <1>4 DEF Lists
  <2>2. budget'.ui = MaxUI => IdsOf(run'.listed) \subseteq IdsOf(live')
    BY <1>1, <2>1 DEF GuardIsRemembered, IdsOf
  <2> QED  BY <1>1, <2>1, <2>2 DEF GuardIsRemembered
<1>5. CASE Advances
  BY <1>1, <1>5 DEF Advances, GuardIsRemembered
<1>6. CASE \E k \in Domains : Works(k)
  <2>1. /\ run.phase # "delete" /\ run'.phase # "delete" /\ run'.listed = run.listed
        /\ run'.victims = run.victims
    BY <1>6 DEF Works, SameRun
  <2>2. IdsOf(live) \subseteq IdsOf(live')  BY <1>6, WorkRemovesNothing DEF Works
  <2> QED  BY <1>1, <2>1, <2>2 DEF GuardIsRemembered
<1>7. CASE Decides
  <2>1. /\ run.phase = "decide" /\ run'.phase = "delete" /\ run'.listed = run.listed
        /\ run'.victims = Orphans /\ ~Guarded /\ Orphans # {} /\ live' = live
    BY <1>7 DEF Decides
  <2>2. Owned' = Owned  BY <2>1 DEF Owned, OfThisInstance
  <2>3. ~DryRun  BY <2>1 DEF Orphans
  <2>4. \A l \in Owned : ~ForeignPrefix(l)  BY <1>1, <2>1, GuardLeavesSome
  <2>5. ASSUME GuardNum > 0, Cardinality(Owned) >= DeleteGuardMin, budget.ui = MaxUI
        PROVE  \E l \in Owned : l.id \in IdsOf(live) \ IdsOf(Orphans)
    <3>1. PICK l \in Owned : l \notin Orphans  BY <1>1, <2>1, <2>5, GuardLeavesSome
    <3>2. l \in run.listed /\ Orphans \subseteq run.listed  BY DEF Owned, Orphans
    <3>3. l.id \notin IdsOf(Orphans)  BY <1>1, <3>1, <3>2 DEF IdsAreUnique, IdsOf
    <3>4. l.id \in IdsOf(live)  BY <2>1, <2>5, <3>2 DEF GuardIsRemembered, IdsOf
    <3> QED  BY <3>3, <3>4
  <2> QED  BY <1>1, <2>1, <2>2, <2>3, <2>4, <2>5 DEF GuardIsRemembered
<1>8. CASE Deletes
  <2>1. PICK o \in run.victims :
          /\ live' = live \/ live' = {r \in live : r.id # o.id}
          /\ run'.victims = run.victims \ {o}
    BY <1>8 DEF Deletes
  <2>2. run.phase = "delete" /\ run'.phase = "delete" /\ run'.listed = run.listed
    BY <1>8 DEF Deletes
  <2>3. Owned' = Owned  BY <2>2 DEF Owned, OfThisInstance
  <2>4. ASSUME NEW l \in Owned, l.id \in IdsOf(live) \ IdsOf(run.victims)
        PROVE  l.id \in IdsOf(live') \ IdsOf(run'.victims)
    BY <2>1, <2>4 DEF IdsOf
  <2> QED  BY <1>1, <2>1, <2>2, <2>3, <2>4 DEF GuardIsRemembered
<1> QED
  BY <1>1, <1>2, <1>3, <1>4, <1>5, <1>6, <1>7, <1>8, Shapes

LEMMA Remembrance == Spec => []GuardIsRemembered
<1>1. IInv /\ RunIsFaithful /\ GuardIsRemembered /\ [Next]_vars => GuardIsRemembered'
  BY GuardStep
<1> QED  BY <1>1, GuardInit, Invariance, Faithfulness, PTL DEF Spec

\* Enough resources of ours never go all at once, whatever goes wrong in the
\* deletions, and none goes under another label prefix (Worker.guardDeletions).
THEOREM GuardHolds == Spec => NeverWipes
<1>1. ASSUME IInv, RunIsFaithful, GuardIsRemembered, [Next]_vars, ByWorker,
             Removed # {}
      PROVE  /\ LabelPrefix # Nobody =>
                  \A l \in Owned : l.prefix \in {Nobody, LabelPrefix}
             /\ GuardNum > 0 /\ Cardinality(Owned) >= DeleteGuardMin
                /\ budget.ui = MaxUI =>
                  \E l \in Owned : l.id \in IdsOf(live') \ IdsOf(run'.victims)
  <2>1. ~UNCHANGED live  BY <1>1 DEF Removed
  <2>2. Deletes
    <3>1. ASSUME NEW k \in Domains, Works(k) PROVE FALSE
      <4>1. IdsOf(live) \subseteq IdsOf(live')
        BY <1>1, <3>1, WorkRemovesNothing DEF Works
      <4> QED  BY <1>1, <4>1 DEF Removed, IdsOf
    <3> QED  BY <1>1, <2>1, <3>1, WhoWrites
  <2>3. /\ run.phase = "delete" /\ run'.phase = "delete"
        /\ run'.listed = run.listed /\ budget'.ui = budget.ui
    BY <2>2 DEF Deletes
  <2>4. \A l \in Owned : ~ForeignPrefix(l)  BY <1>1, <2>3 DEF GuardIsRemembered
  <2>5. Owned' = Owned  BY <2>3 DEF Owned, OfThisInstance
  <2>6. GuardIsRemembered'  BY <1>1, GuardStep
  <2>7. GuardNum > 0 /\ Cardinality(Owned) >= DeleteGuardMin /\ budget.ui = MaxUI =>
          \E l \in Owned : l.id \in IdsOf(live') \ IdsOf(run'.victims)
    BY <2>3, <2>5, <2>6 DEF GuardIsRemembered, IdsOf
  <2> QED  BY <2>4, <2>7 DEF ForeignPrefix
<1>2. IInv /\ RunIsFaithful /\ GuardIsRemembered /\ [Next]_vars =>
        [ByWorker /\ Removed # {} =>
           /\ LabelPrefix # Nobody =>
                \A l \in Owned : l.prefix \in {Nobody, LabelPrefix}
           /\ GuardNum > 0 /\ Cardinality(Owned) >= DeleteGuardMin
              /\ budget.ui = MaxUI =>
                \E l \in Owned : l.id \in IdsOf(live') \ IdsOf(run'.victims)]_vars
  BY <1>1
<1> QED
  BY <1>2, Invariance, Faithfulness, Remembrance, PTL DEF Spec, NeverWipes

\* A dry run writes nothing, on any path of any run: each call that writes has a
\* check of its own (Worker.reconcileKind, stampMarker, applyEnabled, create).
THEOREM DryRunIsDry == ASSUME DryRun PROVE Spec => DryRunWritesNothing
<1>1. ASSUME IInv, RunIsFaithful, GuardIsRemembered, [Next]_vars, ByWorker
      PROVE  UNCHANGED live
  <2>1. ASSUME NEW k \in Domains, Works(k) PROVE UNCHANGED live
    <3>1. ~CreateHost(k)  BY DEF CreateHost
    <3>2. ~UpdateHost(k)  BY DEF UpdateHost
    <3>3. ~StampStopped(k)  BY DEF StampStopped
    <3>4. ~SetEnabled(k)  BY <1>1 DEF SetEnabled, RunIsFaithful, ToggleIsDecided
    <3>5. KeepHost(k) \/ Quiet(k)
      BY <2>1, <3>1, <3>2, <3>3, <3>4 DEF Works, ReconcileKey, Quiet
    <3> QED  BY <3>5, KeepHas, QuietHas DEF KeepEffect, QuietEffect, server
  <2>2. ~Deletes  BY <1>1 DEF Deletes, GuardIsRemembered
  <2> QED  BY <1>1, <2>1, <2>2, WhoWrites
<1>2. IInv /\ RunIsFaithful /\ GuardIsRemembered /\ [Next]_vars =>
        [ByWorker => UNCHANGED live]_vars
  BY <1>1
<1> QED
  BY <1>2, Invariance, Faithfulness, Remembrance, PTL DEF Spec, DryRunWritesNothing

---------------------------------------------------------------------------
(* The cache.                                                              *)

Says(r, e) ==
  /\ r.id = e.id /\ r.kind = e.kind /\ Key(r) = e.key
  /\ Fingerprint(r) \in {e.fp, [e.fp EXCEPT !.cfg = Stored[@]]}
\* The same resource as far as the cache can tell.
Twin(q, r) == /\ q.id = r.id /\ q.kind = r.kind /\ Key(q) = Key(r)
              /\ Fingerprint(q) = Fingerprint(r)

LEMMA TwinsSayTheSame ==
  ASSUME NEW q \in live', NEW r, NEW e, Twin(q, r), Says(r, e)
  PROVE  Truthful(e)'
BY DEF Twin, Says, Truthful, Key, Fingerprint

\* The host of a key still pending is as it was listed.
LEMMA CurrentLives ==
  ASSUME IInv, CacheIsReplaced, budget.ui = MaxUI, NEW k \in Domains, At(k),
         Found(k) # {}
  PROVE  /\ Current(k) \in live /\ Current(k) \in run.listed
         /\ Current(k) \in Resources
         /\ Current(k).kind = run.kind /\ Key(Current(k)) = k
<1>1. /\ Current(k) \in run.listed /\ Current(k).kind = run.kind
      /\ Key(Current(k)) = k /\ Current(k) \in Resources
  BY CurrentInHand DEF IInv, RunIsConsistent
<1>2. k \in Pending
  <2>1. run.phase = "key" /\ k \in run.todo  BY KeyAtHand DEF At, AtHand
  <2> QED  BY <2>1 DEF Pending
<1> QED  BY <1>1, <1>2 DEF CacheIsReplaced

\* A flip of the enabled flag changes nothing the cache compares.
LEMMA FlippedIsTwin ==
  ASSUME IInv, NEW r \in live
  PROVE  Twin(Flipped(r), r)
<1>1. r \in Resources  BY DEF IInv, TypeOK
<1> DEFINE f == [r EXCEPT !.enabled = run.toggle.want]
<1>2. Twin(f, r)  BY <1>1 DEF Twin, Key, Fingerprint, Resources
<1>3. Twin(r, r)  BY DEF Twin
<1>4. Flipped(r) = r \/ Flipped(r) = f  BY DEF Flipped
<1> HIDE DEF f
<1> QED  BY <1>2, <1>3, <1>4

\* What a step on key k leaves of the other keys.
OthersUntouched(k) ==
  /\ \A q \in live' : \/ q.id = lastId + 1
                      \/ \E r \in live : r.id = q.id /\ Key(r) = Key(q)
  /\ \A r \in live : \/ r.kind = run.kind /\ Key(r) = k
                     \/ \E q \in live' : Twin(q, r)
  /\ \A l \in run.listed : l \in live /\ l.kind = run.kind /\ Key(l) # k => l \in live'

LEMMA OverwriteIsLocal ==
  ASSUME RunIsFaithful, NEW k, NEW old \in live, old \in run.listed,
         old.kind = run.kind, Key(old) = k,
         NEW new, new.id = old.id, new.kind = run.kind, Key(new) = k,
         live' = Overwrite(old.id, new)
  PROVE  OthersUntouched(k)
<1>1. \A r \in live : r = old \/ r \in live'
  BY DEF RunIsFaithful, IdsAreUnique, Overwrite
<1>2. \A r : Twin(r, r)  BY DEF Twin
<1>3. \A q \in live' : q = new \/ q \in live  BY DEF Overwrite
<1> QED  BY <1>1, <1>2, <1>3 DEF OthersUntouched

LEMMA WorkIsLocal ==
  ASSUME IInv, RunIsFaithful, CacheIsReplaced, budget.ui = MaxUI,
         NEW k \in Domains, Works(k)
  PROVE  OthersUntouched(k)
<1>1. IdsAreUnique /\ (\A r : Twin(r, r))  BY DEF RunIsFaithful, Twin
<1>2. CASE UNCHANGED live  BY <1>1, <1>2 DEF OthersUntouched
<1>3. CASE CreateHost(k) /\ ~UNCHANGED live
  <2>1. live' = live \cup {New(k)}
    BY <1>3, CreateHas DEF CreateEffect, server
  <2>2. New(k).id = lastId + 1  BY DEF New
  <2> QED  BY <1>1, <2>1, <2>2 DEF OthersUntouched
<1>4. CASE UpdateHost(k) /\ ~UNCHANGED live
  <2>1. At(k) /\ UpdateEffect(k)  BY <1>4, UpdateHas
  <2>2. PICK old \in live : /\ old.id = Current(k).id
                            /\ live' = Overwrite(old.id, Updated(k, old))
    BY <1>4, <2>1 DEF UpdateEffect
  <2>3. /\ Current(k) \in live /\ Current(k) \in run.listed
        /\ Current(k).kind = run.kind /\ Key(Current(k)) = k
    BY <2>1, CurrentLives DEF UpdateEffect
  <2>4. old = Current(k)  BY <1>1, <2>2, <2>3 DEF IdsAreUnique
  <2>5. Updated(k, old).id = old.id /\ Updated(k, old).kind = run.kind
    BY <1>1, <2>1, <2>2, WritesInPlace DEF UpdateEffect
  <2>6. Key(Updated(k, old)) = k
    <3>1. old \in Resources /\ Key(Target(k).def) = k
      <4>1. k \in Wanted(run.kind)
        BY DEF Works, IInv, RunIsConsistent, TodoIsWanted
      <4> QED  BY <4>1, TargetInHand DEF IInv, TypeOK
    <3>2. Updated(k, old).doms = Build(Target(k)).doms
      BY <3>1 DEF Updated, Resources
    <3> QED  BY <3>1, <3>2 DEF Key, Build
  <2> QED  BY <2>2, <2>3, <2>4, <2>5, <2>6, OverwriteIsLocal
<1>5. CASE StampStopped(k) /\ ~UNCHANGED live
  <2>1. At(k) /\ StampEffect(k)  BY <1>5, StampHas
  <2>2. PICK old \in live : /\ old.id = Current(k).id
                            /\ live' = Overwrite(old.id, Stamped(k, old))
    BY <1>5, <2>1 DEF StampEffect
  <2>3. /\ Current(k) \in live /\ Current(k) \in run.listed
        /\ Current(k) \in Resources
        /\ Current(k).kind = run.kind /\ Key(Current(k)) = k
    BY <2>1, CurrentLives DEF StampEffect
  <2>4. old = Current(k)  BY <1>1, <2>2, <2>3 DEF IdsAreUnique
  <2>5. Stamped(k, old).id = old.id /\ Stamped(k, old).kind = run.kind
    BY <1>1, <2>1, <2>2, <2>3, WritesInPlace DEF StampEffect
  <2>6. Stamped(k, old).doms = Current(k).doms
    BY <2>3 DEF Stamped, Marked, Resources
  <2>7. Key(Stamped(k, old)) = k  BY <2>3, <2>6 DEF Key
  <2> QED  BY <2>2, <2>3, <2>4, <2>5, <2>7, OverwriteIsLocal
<1>6. CASE SetEnabled(k) /\ ~UNCHANGED live
  <2>1. live' = {Flipped(r) : r \in live} /\ run.phase = "toggle" /\ k = Min(run.todo)
    BY <1>6, EnableHas DEF EnableEffect
  <2>2. \A r \in live : Twin(Flipped(r), r) /\ Flipped(r) \in live'
    BY <2>1, FlippedIsTwin
  <2>3. \A q \in live' : \E r \in live : r.id = q.id /\ Key(r) = Key(q)
    BY <2>1, <2>2 DEF Twin
  <2>4. ASSUME NEW l \in run.listed, l \in live, l.kind = run.kind, Key(l) # k
        PROVE  l \in live'
    <3>1. l.id # run.toggle.id
      <4> SUFFICES ASSUME l.id = run.toggle.id PROVE FALSE  OBVIOUS
      <4>1. Found(k) # {} /\ l.id = Current(k).id
        BY <2>1 DEF RunIsFaithful, ToggleIsDecided, IdsOf
      <4>2. k \in run.todo /\ run.phase \in {"key", "toggle"}
        BY DEF Works
      <4> QED  BY <2>4, <4>1, <4>2, CurrentIsListed
    <3>2. Flipped(l) = l  BY <3>1 DEF Flipped
    <3> QED  BY <2>1, <2>4, <3>2
  <2> QED  BY <2>2, <2>3, <2>4 DEF OthersUntouched
<1>7. CASE KeepHost(k) \/ Quiet(k)
  BY <1>2, <1>7, KeepHas, QuietHas DEF KeepEffect, QuietEffect, server
<1> QED
  BY <1>2, <1>3, <1>4, <1>5, <1>6, <1>7 DEF Works, ReconcileKey, Quiet

\* What a step on key k adds to what is known, it adds truthfully.
True(k, e) == Truthful(e)' /\ e.kind = run.kind /\ e.key = k
Recorded(k) ==
  /\ \A e \in run'.next : e \in run.next \/ True(k, e)
  /\ run'.phase = "toggle" => \A e \in run'.toggle.entry : True(k, e)

LEMMA EntryIsTrue ==
  ASSUME NEW k, NEW id, NEW fp, NEW q \in live', q.id = id, q.kind = run.kind,
         Key(q) = k, Fingerprint(q) \in {fp, [fp EXCEPT !.cfg = Stored[@]]},
         NEW e \in Entry(k, id, fp)
  PROVE  True(k, e)
<1>1. /\ e.kind = run.kind /\ e.key = k /\ e.id = id /\ e.fp = fp  BY DEF Entry
<1> QED  BY <1>1 DEF True, Truthful, Key, Fingerprint

LEMMA NothingRecorded ==
  ASSUME TypeOK, NEW k, NEW f, Decided(k, {}, f)
  PROVE  Recorded(k)
BY DecidedRun DEF Recorded

LEMMA ToggleRecords ==
  ASSUME TypeOK, NEW k, NEW id, NEW fp, NEW was, NEW want, NEW made,
         Toggle(k, id, fp, was, want, made), \A e \in Entry(k, id, fp) : True(k, e)
  PROVE  Recorded(k)
<1>1. CASE Decided(k, Entry(k, id, fp), FALSE)
  BY <1>1, DecidedRun DEF Recorded
<1>2. CASE /\ run'.phase = "toggle" /\ run'.next = run.next
           /\ run'.toggle.entry = Entry(k, id, fp)
  BY <1>2 DEF Recorded
<1> QED  BY <1>1, <1>2, ToggledRun

\* The entry of a host left as it is: what was listed, or what the cache had.
LEMMA KeepRecords ==
  ASSUME IInv, CacheIsReplaced, budget.ui = MaxUI, NEW k \in Domains, At(k),
         Found(k) # {}, UNCHANGED live,
         NEW fp, fp = Fingerprint(Current(k)) \/ (fp = Hash(k) /\ InSync(k)),
         NEW e \in Entry(k, Current(k).id, fp)
  PROVE  True(k, e)
<1>1. /\ Current(k) \in live' /\ Current(k).kind = run.kind
      /\ Key(Current(k)) = k
  BY CurrentLives
<1>2. CASE fp = Fingerprint(Current(k))  BY <1>1, <1>2, EntryIsTrue
<1>3. ASSUME NEW x \in cache, x.kind = run.kind, x.key = k, x.id = Current(k).id,
             x.fp = fp
      PROVE  True(k, e)
  <2>1. k \in Pending
    <3>1. run.phase = "key" /\ k \in run.todo  BY KeyAtHand DEF At, AtHand
    <3> QED  BY <3>1 DEF Pending
  <2>2. Truthful(x)  BY <1>3, <2>1 DEF CacheIsReplaced
  <2>3. PICK r \in live :
          /\ r.id = x.id /\ r.kind = x.kind /\ Key(r) = x.key
          /\ Fingerprint(r) \in {fp, [fp EXCEPT !.cfg = Stored[@]]}
    BY <1>3, <2>2 DEF Truthful
  <2> QED  BY <1>3, <2>3, EntryIsTrue
<1> QED  BY <1>2, <1>3 DEF InSync

LEMMA WorkRecords ==
  ASSUME IInv, RunIsFaithful, CacheIsReplaced, budget.ui = MaxUI,
         NEW k \in Domains, Works(k)
  PROVE  Recorded(k)
<1>1. /\ TypeOK /\ IdsAreUnique /\ k \in Wanted(run.kind)
      /\ Key(Target(k).def) = k /\ Build(Target(k)) \in Builds
  <2>1. k \in Wanted(run.kind)
    BY DEF Works, IInv, RunIsConsistent, TodoIsWanted
  <2> QED  BY <2>1, TargetInHand DEF IInv, RunIsFaithful
<1>2. ASSUME Rejected(k) PROVE Recorded(k)
  BY <1>1, <1>2, NothingRecorded DEF Rejected
<1> DEFINE new == Build(Target(k))
           kept == [Fingerprint(new) EXCEPT !.cfg = Stored[@]]
<1>3. CASE CreateHost(k) /\ ~Rejected(k)
  <2>1. /\ live' = live \cup {New(k)}
        /\ Toggle(k, lastId + 1, Fingerprint(new), TRUE,
                  Target(k).def.enabled, TRUE)
    BY <1>3, CreateHas DEF CreateEffect
  <2>2. New(k).id = lastId + 1 /\ New(k).kind = run.kind /\ New(k).doms = new.doms
    BY DEF New
  <2>3. Key(New(k)) = k  BY <1>1, <2>2 DEF Key, Build
  <2>4. Fingerprint(New(k)) = kept  BY <1>1 DEF New, Fingerprint, Builds
  <2>5. \A e \in Entry(k, lastId + 1, Fingerprint(new)) : True(k, e)
    <3>1. New(k) \in live'  BY <2>1
    <3> QED  BY <2>2, <2>3, <2>4, <3>1, EntryIsTrue
  <2> QED  BY <1>1, <2>1, <2>5, ToggleRecords
<1>4. CASE UpdateHost(k) /\ ~Rejected(k)
  <2>1. At(k) /\ UpdateEffect(k)  BY <1>4, UpdateHas
  <2>2. PICK old \in live : /\ old.id = Current(k).id
                            /\ live' = Overwrite(old.id, Updated(k, old))
                            /\ Toggle(k, Current(k).id, Fingerprint(new),
                                 Current(k).enabled, WantEnabled(k), FALSE)
    BY <1>2, <1>4, <2>1 DEF UpdateEffect
  <2>3. /\ Updated(k, old).id = Current(k).id /\ Updated(k, old).kind = run.kind
        /\ Updated(k, old) \in live'
    BY <1>1, <2>1, <2>2, WritesInPlace DEF UpdateEffect, Overwrite
  <2>4. old \in Resources  BY <1>1 DEF TypeOK
  <2>5. Updated(k, old).doms = new.doms  BY <2>4 DEF Updated, Resources
  <2>6. Key(Updated(k, old)) = k  BY <1>1, <2>5 DEF Key, Build
  <2>7. Fingerprint(Updated(k, old)) = kept
    BY <1>1, <2>4 DEF Updated, Fingerprint, Builds, Resources
  <2> QED  BY <1>1, <2>2, <2>3, <2>6, <2>7, EntryIsTrue, ToggleRecords
<1>5. CASE StampStopped(k) /\ ~Decided(k, {}, TRUE)
  <2>1. At(k) /\ StampEffect(k)  BY <1>5, StampHas
  <2>2. PICK old \in live : /\ old.id = Current(k).id
                            /\ live' = Overwrite(old.id, Stamped(k, old))
                            /\ Toggle(k, Current(k).id, Fingerprint(Marked(k)),
                                 Current(k).enabled, WantEnabled(k), FALSE)
    BY <1>5, <2>1 DEF StampEffect
  <2>3. /\ Stamped(k, old).id = Current(k).id /\ Stamped(k, old).kind = run.kind
        /\ Stamped(k, old) \in live'
    BY <1>1, <2>1, <2>2, WritesInPlace DEF StampEffect, Overwrite
  <2>4. Current(k) \in Resources /\ Key(Current(k)) = k
    BY <2>1, CurrentLives DEF StampEffect
  <2>5. /\ Stamped(k, old).doms = Current(k).doms
        /\ Fingerprint(Stamped(k, old)) = Fingerprint(Marked(k))
    BY <2>4 DEF Stamped, Marked, Fingerprint, Resources
  <2>6. Key(Stamped(k, old)) = k  BY <2>4, <2>5 DEF Key
  <2> QED  BY <1>1, <2>2, <2>3, <2>5, <2>6, EntryIsTrue, ToggleRecords
<1>6. CASE KeepHost(k)
  <2>1. At(k) /\ KeepEffect(k)  BY <1>6, KeepHas
  <2>2. PICK fp : /\ fp = Fingerprint(Current(k)) \/ (fp = Hash(k) /\ InSync(k))
                  /\ Toggle(k, Current(k).id, fp, Current(k).enabled,
                            WantEnabled(k), FALSE)
    BY <2>1 DEF KeepEffect
  <2>3. Found(k) # {} /\ UNCHANGED live  BY <2>1 DEF KeepEffect, server
  <2>4. \A e \in Entry(k, Current(k).id, fp) : True(k, e)
    BY <2>1, <2>2, <2>3, KeepRecords
  <2> QED  BY <1>1, <2>2, <2>4, ToggleRecords
<1>7. CASE SetEnabled(k)
  <2>1. /\ run.phase = "toggle" /\ k = Min(run.todo)
        /\ live' = live \/ live' = {Flipped(r) : r \in live}
        /\ Decided(k, run.toggle.entry, FALSE) \/ Decided(k, {}, TRUE)
    BY <1>7, EnableHas DEF EnableEffect
  <2>2. ASSUME NEW e \in run.toggle.entry PROVE True(k, e)
    <3>1. Truthful(e) /\ e.kind = run.kind /\ e.key = k
      BY <2>1, <2>2 DEF CacheIsReplaced
    <3>2. PICK r \in live : Says(r, e)  BY <3>1 DEF Truthful, Says
    <3>3. \E q \in live' : Twin(q, r)
      <4>1. Twin(r, r)  BY DEF Twin
      <4> QED  BY <2>1, <4>1, FlippedIsTwin
    <3>4. Truthful(e)'  BY <3>2, <3>3, TwinsSayTheSame
    <3> QED  BY <3>1, <3>4 DEF True
  <2>3. CASE Decided(k, {}, TRUE)  BY <1>1, <2>3, NothingRecorded
  <2>4. CASE Decided(k, run.toggle.entry, FALSE)
    <3>1. run'.phase = "key" /\ run'.next = run.next \cup run.toggle.entry
      BY <1>1, <2>4, DecidedRun
    <3> QED  BY <2>2, <3>1 DEF Recorded
  <2> QED  BY <2>1, <2>3, <2>4
<1>8. CASE Quiet(k)
  <2>1. At(k) /\ QuietEffect(k)  BY <1>8, QuietHas
  <2>2. CASE \E f : Decided(k, {}, f)  BY <1>1, <2>2, NothingRecorded
  <2> DEFINE E == Entry(k, Current(k).id, Fingerprint(Current(k)))
  <2>3. CASE Found(k) # {} /\ Decided(k, E, FALSE)
    <3>1. UNCHANGED live  BY <2>1 DEF QuietEffect, server
    <3>2. \A e \in E : True(k, e)  BY <2>1, <2>3, <3>1, KeepRecords
    <3>3. run'.phase = "key" /\ run'.next = run.next \cup E
      BY <1>1, <2>3, DecidedRun
    <3> QED  BY <3>2, <3>3 DEF Recorded
  <2> QED  BY <2>1, <2>2, <2>3 DEF QuietEffect
<1> QED
  BY <1>1, <1>2, <1>3, <1>4, <1>5, <1>6, <1>7, <1>8, NothingRecorded
  DEF Works, ReconcileKey, Quiet

LEMMA CacheInit == Init => CacheIsReplaced
<1> SUFFICES ASSUME Init PROVE CacheIsReplaced  OBVIOUS
<1>1. /\ run.listed = {} /\ run.next = {} /\ run.phase = "idle" /\ cache = {}
  BY DEF Init, IdleRun
<1> QED  BY <1>1 DEF CacheIsReplaced

\* What the cache says stays true of what is left alone.
LEMMA SameLive ==
  ASSUME UNCHANGED live
  PROVE  \A e : Truthful(e)' = Truthful(e)
BY DEF Truthful

\* The keys in demand depend on the snapshot and the ages of stopped containers.
LEMMA SameDemand ==
  ASSUME UNCHANGED stoppedFor, run'.targets = run.targets
  PROVE  \A kind : Wanted(kind)' = Wanted(kind)
BY DEF Wanted, ActiveTargets, InGrace

\* A step on a key is done with it, or leaves the toggle for the next.
LEMMA WorkTodo ==
  ASSUME IInv, NEW k \in Domains, Works(k)
  PROVE  \/ run'.phase = "key" /\ run'.todo = run.todo \ {k}
         \/ /\ run.phase = "key" /\ run'.phase = "toggle"
            /\ run'.todo = run.todo /\ run'.next = run.next
<1> DEFINE Done == run'.phase = "key" /\ run'.todo = run.todo \ {k}
           Left == /\ run'.phase = "toggle"
                   /\ run'.todo = run.todo /\ run'.next = run.next
<1>1. TypeOK /\ Min(run.todo) = k  BY DEF IInv, Works
<1>2. \A E, f : Decided(k, E, f) => Done  BY <1>1, DecidedRun
<1>3. \A id, fp, was, want, made :
        Toggle(k, id, fp, was, want, made) => Done \/ Left
  BY <1>1, <1>2, ToggledRun
<1>4. At(k) => run.phase = "key"  BY DEF At
<1> HIDE DEF Done, Left
<1>5. (Done \/ (run.phase = "key" /\ Left))
       => \/ run'.phase = "key" /\ run'.todo = run.todo \ {k}
          \/ /\ run.phase = "key" /\ run'.phase = "toggle"
             /\ run'.todo = run.todo /\ run'.next = run.next
  BY DEF Done, Left
<1>6. ReconcileKey(k)  BY DEF Works
<1>7. Done \/ (run.phase = "key" /\ Left)
  <2>1. CASE CreateHost(k)
    BY <1>2, <1>3, <1>4, <2>1, CreateHas DEF CreateEffect, Rejected
  <2>2. CASE UpdateHost(k)
    BY <1>2, <1>3, <1>4, <2>2, UpdateHas DEF UpdateEffect, Rejected
  <2>3. CASE StampStopped(k)
    BY <1>2, <1>3, <1>4, <2>3, StampHas DEF StampEffect
  <2>4. CASE KeepHost(k)  BY <1>2, <1>3, <1>4, <2>4, KeepHas DEF KeepEffect
  <2>5. CASE SetEnabled(k)  BY <1>2, <2>5, EnableHas DEF EnableEffect
  <2>6. CASE Quiet(k)  BY <1>2, <2>6, QuietHas DEF QuietEffect
  <2> QED  BY <1>6, <2>1, <2>2, <2>3, <2>4, <2>5, <2>6 DEF ReconcileKey, Quiet
<1> QED  BY <1>5, <1>7

\* While nobody else writes, each step of the worker keeps the cache replaceable.
LEMMA CacheStep ==
  ASSUME IInv, RunIsFaithful, GuardIsRemembered, CacheIsReplaced, [Next]_vars
  PROVE  CacheIsReplaced'
<1>1. /\ budget'.ui = MaxUI => budget.ui = MaxUI
      /\ budget'.ui = MaxUI /\ Apart => UNCHANGED live
      /\ \A q \in live : q.id \in Nat /\ q.id <= lastId
      /\ \A l \in run.listed : l.id \in Nat /\ l.id <= lastId
      /\ lastId \in Nat /\ IdsAreUnique
  BY StillAlone DEF RunIsFaithful, IInv, TypeOK, Runs, Resources, RunIsConsistent, IdsBounded
<1>2. /\ run'.next # {} => run'.phase \in {"key", "toggle"}
      /\ run'.phase = "idle" => run'.listed = {}
  <2>1. IdleRun.next = {} /\ IdleRun.listed = {}  BY DEF IdleRun
  <2> QED
    BY Shapes, <1>1, <2>1 DEF Apart, Ends, Starts, Lists, Advances, Decides,
       Deletes, Works, CacheIsReplaced
<1>3. CASE budget'.ui # MaxUI  BY <1>2, <1>3 DEF CacheIsReplaced
<1>4. CASE budget'.ui = MaxUI /\ Apart
  <2>1. UNCHANGED <<live, run, cache>> /\ budget.ui = MaxUI  BY <1>1, <1>4 DEF Apart
  <2>2. Pending' = Pending  BY <2>1 DEF Pending
  <2>3. CASE run.phase = "idle"
    <3>1. run.listed = {} /\ run.next = {}  BY <2>3 DEF CacheIsReplaced
    <3>2. \A e \in cache : Truthful(e)  BY <2>1, <2>3 DEF CacheIsReplaced
    <3> QED  BY <1>2, <2>1, <2>3, <3>1, <3>2, SameLive DEF CacheIsReplaced
  <2>4. CASE run.phase # "idle"
    <3>1. \A kind : Wanted(kind)' = Wanted(kind)
      BY <1>4, <2>1, <2>4, SameDemand DEF Apart
    <3> QED  BY <1>2, <2>1, <2>2, <3>1, SameLive DEF CacheIsReplaced
  <2> QED  BY <2>3, <2>4
<1>5. CASE budget'.ui = MaxUI /\ (Ends \/ Starts)
  <2>1. /\ run'.listed = {} /\ run'.next = {} /\ run'.phase \in {"idle", "list"}
        /\ live' = live /\ cache' \in {{}, cache}
        /\ cache' = {} \/ run.phase \in {"idle", "decide", "delete"}
    BY <1>5 DEF Ends, Starts, IdleRun
  <2>2. \A e \in cache' : Truthful(e)'
    BY <1>1, <1>5, <2>1, SameLive DEF CacheIsReplaced
  <2> QED  BY <1>2, <2>1, <2>2 DEF CacheIsReplaced
<1>6. CASE budget'.ui = MaxUI /\ Lists
  <2>1. /\ run.phase = "list" /\ run'.phase = "key" /\ run'.kind = run.kind
        /\ run'.todo = Wanted(run.kind) /\ run'.next = {}
        /\ run'.listed = run.listed \cup {r \in live : r.kind = run.kind}
        /\ UNCHANGED <<live, cache>> /\ budget.ui = MaxUI
    BY <1>1, <1>6 DEF Lists
  <2>2. \A kind : Wanted(kind)' = Wanted(kind)
    BY <1>6, SameDemand DEF Lists, SameSnapshot
  <2>3. \A l \in run.listed : l.kind # run.kind
    <3>1. \A l \in run.listed : l.kind < run.kind
      BY <2>1 DEF RunIsFaithful, ListedInOrder
    <3>2. run.kind \in Nat  BY DEF IInv, TypeOK, Runs, Kinds
    <3> QED  BY <3>1, <3>2
  <2>4. \A l \in run'.listed, r \in live' : l.id = r.id => Key(l) = Key(r)
    BY <1>1, <2>1 DEF CacheIsReplaced, IdsAreUnique
  <2>5. \A l \in run'.listed : l.kind = run'.kind => l \in live'
    BY <2>1, <2>3
  <2>6. \A e \in cache' : Truthful(e)'  BY <2>1, SameLive DEF CacheIsReplaced
  <2>7. \A l \in run'.listed, e \in cache' : e.kind = l.kind =>
          e.key \in Wanted(l.kind)' \/ l.kind = run'.kind
    BY <2>1, <2>2 DEF CacheIsReplaced
  <2> QED  BY <1>2, <2>1, <2>4, <2>5, <2>6, <2>7 DEF CacheIsReplaced
<1>7. CASE budget'.ui = MaxUI /\ Advances
  <2>1. /\ UNCHANGED live /\ budget.ui = MaxUI /\ run'.listed = run.listed
        /\ run'.phase \in {"decide", "list"} /\ run'.next = {}
    BY <1>1, <1>2, <1>7 DEF Advances
  <2>2. \A kind : Wanted(kind)' = Wanted(kind)
    BY <1>7, SameDemand DEF Advances, SameSnapshot
  <2>3. Pending' = {}  BY <2>1 DEF Pending
  <2>4. ASSUME NEW e \in cache'
        PROVE  /\ Truthful(e)
               /\ \A l \in run.listed : e.kind = l.kind => e.key \in Wanted(l.kind)
    <3>1. CASE run.phase = "list" /\ UNCHANGED cache
      BY <2>1, <3>1 DEF CacheIsReplaced
    <3>2. CASE /\ run.phase = "key" /\ run.todo = {}
               /\ cache' = {x \in cache : x.kind # run.kind} \cup run.next
      <4>1. CASE e \in run.next  BY <2>1, <4>1 DEF CacheIsReplaced
      <4>2. CASE e \in cache /\ e.kind # run.kind
        BY <2>1, <4>2 DEF CacheIsReplaced
      <4> QED  BY <3>2, <4>1, <4>2
    <3> QED  BY <1>7, <3>1, <3>2 DEF Advances
  <2> QED  BY <1>2, <2>1, <2>2, <2>3, <2>4, SameLive DEF CacheIsReplaced
<1>8. CASE budget'.ui = MaxUI /\ Decides
  <2>1. /\ UNCHANGED <<live, cache>> /\ budget.ui = MaxUI
        /\ run'.listed = run.listed /\ run.phase = "decide" /\ run'.phase = "delete"
        /\ run'.next = {}
    BY <1>1, <1>2, <1>8 DEF Decides
  <2>2. \A kind : Wanted(kind)' = Wanted(kind)
    BY <1>8, SameDemand DEF Decides, SameSnapshot
  <2>3. Pending' = {}  BY <2>1 DEF Pending
  <2> QED  BY <1>2, <2>1, <2>2, <2>3, SameLive DEF CacheIsReplaced
<1>9. CASE budget'.ui = MaxUI /\ Deletes
  <2>1. /\ UNCHANGED cache /\ budget.ui = MaxUI /\ run'.next = {}
        /\ run'.listed = run.listed /\ run.phase = "delete" /\ run'.phase = "delete"
    BY <1>1, <1>2, <1>9 DEF Deletes
  <2>2. \A kind : Wanted(kind)' = Wanted(kind)
    BY <1>9, SameDemand DEF Deletes, SameSnapshot
  <2>3. Pending' = {}  BY <2>1 DEF Pending
  <2>4. PICK o \in run.victims : live' = live \/ live' = {r \in live : r.id # o.id}
    BY <1>9 DEF Deletes
  <2>5. o \in run.listed /\ Key(o) \notin Wanted(o.kind)
    BY DEF IInv, RunIsConsistent, VictimsAreOrphans
  <2>6. ASSUME NEW e \in cache PROVE Truthful(e)'
    <3>1. PICK r \in live : Says(r, e)
      BY <2>1 DEF CacheIsReplaced, Truthful, Says
    <3>2. r.id # o.id
      <4> SUFFICES ASSUME r.id = o.id PROVE FALSE  OBVIOUS
      <4>1. Key(o) = e.key  BY <2>1, <2>5, <3>1 DEF CacheIsReplaced, Says
      <4>2. o.kind = e.kind  BY <1>1, <2>5, <3>1 DEF IdsAreUnique, Says
      <4> QED  BY <2>1, <2>5, <4>1, <4>2 DEF CacheIsReplaced
    <3>3. r \in live' /\ Twin(r, r)  BY <2>4, <3>2 DEF Twin
    <3> QED  BY <3>1, <3>3, TwinsSayTheSame
  <2>7. live' \subseteq live  BY <2>4
  <2> QED  BY <1>2, <2>1, <2>2, <2>3, <2>6, <2>7 DEF CacheIsReplaced
<1>10. ASSUME budget'.ui = MaxUI, NEW k \in Domains, Works(k)
       PROVE  CacheIsReplaced'
  <2>1. /\ UNCHANGED cache /\ budget.ui = MaxUI /\ k \in run.todo
        /\ run.phase \in {"key", "toggle"} /\ run'.phase \in {"key", "toggle"}
        /\ run'.listed = run.listed /\ run'.kind = run.kind /\ k = Min(run.todo)
    BY <1>1, <1>10 DEF Works, SameRun
  <2>2. \A kind : Wanted(kind)' = Wanted(kind)
    BY <1>10, SameDemand DEF Works, SameRun
  <2>3. OthersUntouched(k) /\ Recorded(k)  BY <1>10, <2>1, WorkIsLocal, WorkRecords
  <2>4. k \in Wanted(run.kind)
    BY <2>1 DEF IInv, RunIsConsistent, TodoIsWanted
  <2>5. /\ Pending' = Pending \ {k} /\ run'.todo \subseteq run.todo
        /\ \/ run'.phase = "key" /\ k \notin run'.todo
           \/ /\ run'.phase = "toggle" /\ run'.next = run.next
              /\ run'.todo = run.todo
    <3>1. CASE run'.phase = "key" /\ run'.todo = run.todo \ {k}
      BY <2>1, <3>1 DEF Pending
    <3>2. CASE /\ run.phase = "key" /\ run'.phase = "toggle"
               /\ run'.todo = run.todo /\ run'.next = run.next
      BY <2>1, <3>2 DEF Pending
    <3> QED  BY <1>10, <3>1, <3>2, WorkTodo
  <2>6. \A l \in run'.listed, r \in live' : l.id = r.id => Key(l) = Key(r)
    BY <1>1, <2>1, <2>3 DEF OthersUntouched, CacheIsReplaced
  <2>7. \A l \in run'.listed : l.kind = run'.kind /\ Key(l) \in Pending' => l \in live'
    BY <2>1, <2>3, <2>5 DEF OthersUntouched, CacheIsReplaced
  <2>8. ASSUME NEW e, Truthful(e), e.kind # run.kind \/ e.key # k
        PROVE  Truthful(e)'
    <3>1. PICK r \in live : Says(r, e)  BY <2>8 DEF Truthful, Says
    <3>2. PICK q \in live' : Twin(q, r)
      BY <2>3, <2>8, <3>1 DEF OthersUntouched, Says
    <3> QED  BY <3>1, <3>2, TwinsSayTheSame
  <2>9. \A e \in cache' : \/ Truthful(e)'
                          \/ e.kind = run'.kind /\ e.key \notin Pending'
    BY <2>1, <2>5, <2>8 DEF CacheIsReplaced
  <2>10. ASSUME NEW e \in run'.next
         PROVE  /\ Truthful(e)' /\ e.kind = run.kind
                /\ e.key \in Wanted(run.kind) \ run'.todo
    <3>1. CASE e \in run.next
      <4>1. /\ Truthful(e) /\ e.kind = run.kind
            /\ e.key \in Wanted(run.kind) \ run.todo
        BY <2>1, <3>1 DEF CacheIsReplaced
      <4> QED  BY <2>1, <2>5, <2>8, <4>1
    <3>2. CASE e \notin run.next
      BY <2>3, <2>4, <2>5, <3>2 DEF Recorded, True
    <3> QED  BY <3>1, <3>2
  <2>11. run'.phase = "toggle" => \A e \in run'.toggle.entry :
           Truthful(e)' /\ e.kind = run'.kind /\ e.key = Min(run'.todo)
    BY <2>1, <2>3, <2>5 DEF Recorded, True
  <2>12. Wanted(run.kind)' = Wanted(run.kind)
    BY <1>10, ViewIsKept DEF Works, SameView
  <2>13. /\ \A e \in run'.next : /\ Truthful(e)' /\ e.kind = run'.kind
                                /\ e.key \in Wanted(run.kind)' \ run'.todo
         /\ \A l \in run'.listed, e \in cache' : e.kind = l.kind =>
              \/ e.key \in Wanted(l.kind)'
              \/ run'.phase \in {"key", "toggle"} /\ l.kind = run'.kind
    BY <2>1, <2>2, <2>10, <2>12 DEF CacheIsReplaced
  <2> QED
    BY <1>2, <2>1, <2>6, <2>7, <2>9, <2>11, <2>13 DEF CacheIsReplaced
<1> QED
  BY <1>1, <1>3, <1>4, <1>5, <1>6, <1>7, <1>8, <1>9, <1>10, Shapes

LEMMA CacheIsReplaceable == Spec => []CacheIsReplaced
<1>1. IInv /\ RunIsFaithful /\ GuardIsRemembered /\ CacheIsReplaced /\ [Next]_vars
        => CacheIsReplaced'
  BY CacheStep
<1> QED
  BY <1>1, CacheInit, Invariance, Faithfulness, Remembrance, PTL DEF Spec

\* Between two runs the cache names only resources that are there and hold what
\* was sent or what the server made of it, after any failed, lost or interrupted
\* call; the in-sync check that skips an update rests on it (Cache.ReplaceKind).
THEOREM CacheIsTrue == Spec => []CacheTellsTheTruth
<1>1. CacheIsReplaced => CacheTellsTheTruth
  BY DEF CacheIsReplaced, CacheTellsTheTruth
<1> QED  BY <1>1, CacheIsReplaceable, PTL


---------------------------------------------------------------------------
(* Hosts that are switched off.                                            *)

\* Only the toggle clears an enabled flag.
LEMMA OnlyTheToggle ==
  ASSUME IInv, RunIsFaithful, [Next]_vars, ByWorker,
         NEW r \in live, NEW q \in live', r.id = q.id, r.enabled, ~q.enabled
  PROVE  /\ run.phase = "toggle" /\ Min(run.todo) \in Wanted(run.kind)
         /\ Min(run.todo) \in Domains
         /\ r.id = run.toggle.id /\ ~run.toggle.want
<1>1. /\ IdsAreUnique /\ live \subseteq Resources /\ lastId \in Nat
      /\ \A s \in live : s.id \in Nat /\ s.id <= lastId
  BY DEF RunIsFaithful, IInv, TypeOK, RunIsConsistent, IdsBounded, Resources
<1>2. q \notin live  BY <1>1 DEF IdsAreUnique
<1>3. ~Deletes /\ ~UNCHANGED live  BY <1>2 DEF Deletes
<1>4. PICK k \in Domains : Works(k)  BY <1>3, WhoWrites
<1>5. k \in run.todo /\ k = Min(run.todo) /\ run.phase \in {"key", "toggle"}
  BY <1>4 DEF Works
<1>6. k \in Wanted(run.kind)
  BY <1>5 DEF IInv, RunIsConsistent, TodoIsWanted
<1>7. ~CreateHost(k)
  <2> SUFFICES ASSUME CreateHost(k) PROVE FALSE  OBVIOUS
  <2>1. live' = live \cup {New(k)}  BY <1>3, CreateHas DEF CreateEffect, server
  <2>2. q = New(k)  BY <1>2, <2>1
  <2>3. q.id = lastId + 1  BY <2>2 DEF New
  <2> QED  BY <1>1, <2>3
<1>8. ~UpdateHost(k)
  <2> SUFFICES ASSUME UpdateHost(k) PROVE FALSE  OBVIOUS
  <2>1. At(k) /\ UpdateEffect(k)  BY UpdateHas
  <2>2. PICK old \in live : /\ old.id = Current(k).id
                            /\ live' = Overwrite(old.id, Updated(k, old))
    BY <1>3, <2>1 DEF UpdateEffect
  <2>3. Updated(k, old).id = old.id
    BY <1>1, <2>1, <2>2, WritesInPlace DEF UpdateEffect
  <2>4. q = Updated(k, old)  BY <1>2, <2>2 DEF Overwrite
  <2>5. old = r  BY <1>1, <2>3, <2>4 DEF IdsAreUnique
  <2>6. Updated(k, old).enabled = old.enabled  BY <1>1 DEF Updated, Resources
  <2> QED  BY <2>4, <2>5, <2>6
<1>9. ~StampStopped(k)
  <2> SUFFICES ASSUME StampStopped(k) PROVE FALSE  OBVIOUS
  <2>1. At(k) /\ StampEffect(k)  BY StampHas
  <2>2. PICK old \in live : /\ old.id = Current(k).id
                            /\ live' = Overwrite(old.id, Stamped(k, old))
    BY <1>3, <2>1 DEF StampEffect
  <2>3. Stamped(k, old).id = old.id /\ Current(k) \in run.listed
    BY <1>1, <2>1, <2>2, WritesInPlace DEF StampEffect
  <2>4. q = Stamped(k, old)  BY <1>2, <2>2 DEF Overwrite
  <2>5. old = r  BY <1>1, <2>3, <2>4 DEF IdsAreUnique
  <2>6. Stamped(k, old).enabled = old.enabled
    <3>1. Current(k) \in Resources  BY <2>3 DEF IInv, TypeOK, Runs
    <3> QED  BY <3>1 DEF Stamped, Marked, Resources
  <2> QED  BY <2>4, <2>5, <2>6
<1>10. ~KeepHost(k) /\ ~Quiet(k)
  BY <1>3, KeepHas, QuietHas DEF KeepEffect, QuietEffect, server
<1>11. SetEnabled(k)
  BY <1>4, <1>7, <1>8, <1>9, <1>10 DEF Works, ReconcileKey, Quiet
<1>12. run.phase = "toggle" /\ live' = {Flipped(s) : s \in live}
  BY <1>3, <1>11, EnableHas DEF EnableEffect
<1>13. PICK s \in live : q = Flipped(s)  BY <1>12
<1>14. Flipped(s).id = s.id  BY <1>1 DEF Flipped, Resources
<1>15. s = r  BY <1>1, <1>13, <1>14 DEF IdsAreUnique
<1>16. r.id = run.toggle.id  BY <1>2, <1>13, <1>15 DEF Flipped
<1>17. Flipped(r).enabled = run.toggle.want  BY <1>1, <1>16 DEF Flipped, Resources
<1> QED  BY <1>5, <1>6, <1>12, <1>13, <1>15, <1>16, <1>17

\* What the toggle clears it for.
LEMMA DisabledForAReason ==
  ASSUME IInv, RunIsFaithful, run.phase = "toggle", ~run.toggle.want,
         NEW k \in Domains, k = Min(run.todo), k \in Wanted(run.kind),
         NEW r \in live, r.id = run.toggle.id, r.enabled
  PROVE  LET t == Target(k) IN
         /\ t.cid \in Containers /\ t.def \in LabelsOf[t.cid].defs
         /\ t.def.kind = r.kind /\ Key(t.def) = k
         /\ \/ t.cid \in changed \/ ~t.def.enabled
            \/ /\ OnStop = "disable" /\ docker[t.cid] = "stopped"
               /\ stoppedFor[t.cid] >= StopGrace
<1> DEFINE t == Target(k)
<1>1. /\ t \in run.targets /\ t \in Targets /\ t.def.kind = run.kind
      /\ Key(t.def) = k
  BY TargetInHand DEF IInv
<1>2. /\ t.def \in LabelsOf[t.cid].defs /\ t.cid \in Containers
      /\ t.running \in BOOLEAN /\ t.def.enabled \in BOOLEAN
      /\ \/ t.cid \in changed
         \/ t.cid \in Present /\ (t.running <=> docker[t.cid] = "running")
  BY <1>1 DEF RunIsFaithful, TargetsAreCurrent, Targets, Definitions
<1>3. r.kind = run.kind  BY DEF RunIsFaithful, ToggleIsDecided
<1>4. CASE run.toggle.made
  <2>1. t.def.enabled = FALSE  BY <1>4 DEF RunIsFaithful, ToggleIsDecided
  <2> QED  BY <1>1, <1>2, <1>3, <2>1
<1>5. CASE ~run.toggle.made
  <2>1. /\ Settled(k) /\ run.toggle.want = WantEnabled(k)
        /\ run.toggle.want # Current(k).enabled /\ Found(k) # {}
    BY <1>5 DEF RunIsFaithful, ToggleIsDecided
  <2>2. Current(k).enabled \in BOOLEAN
    BY <2>1, CurrentInHand DEF IInv, RunIsConsistent, Resources
  <2>3. ~Frozen(k) => ~t.def.enabled  BY <2>1 DEF WantEnabled
  <2>4. ASSUME Frozen(k), t.cid \notin changed
        PROVE  /\ OnStop = "disable" /\ docker[t.cid] = "stopped"
               /\ stoppedFor[t.cid] >= StopGrace
    <3>1. OnStop = "disable"  BY <2>1, <2>2, <2>4 DEF WantEnabled
    <3>2. ~t.running /\ ~InGrace(t)  BY <2>1, <2>4 DEF Settled, Frozen
    <3>3. docker[t.cid] = "stopped"  BY <1>2, <2>4, <3>2 DEF Present
    <3>4. stoppedFor[t.cid] # NotSeen
      BY <1>1, <3>2 DEF IInv, RunIsConsistent, SnapshotIsCurrent
    <3>5. stoppedFor[t.cid] \in 0..StopGrace  BY <1>2, <3>4 DEF IInv, TypeOK
    <3>6. StopGrace = 0 \/ ~(stoppedFor[t.cid] < StopGrace)
      BY <3>2, OptionsAssumption DEF InGrace
    <3> QED  BY <3>1, <3>3, <3>5, <3>6, OptionsAssumption
  <2> QED  BY <1>1, <1>2, <1>3, <2>3, <2>4
<1> QED  BY <1>4, <1>5

\* A host goes off for a container that is stopped beyond its grace period, or
\* whose labels ask for it, in a run that may have seen other states since
\* (Worker.applyEnabled, enabledFor).
THEOREM DisablingIsEarned == Spec => OnlyStoppedHostsAreDisabled
<1>1. ASSUME IInv, RunIsFaithful, [Next]_vars, ByWorker,
             NEW r \in live, NEW q \in live', r.id = q.id, r.enabled, ~q.enabled
      PROVE  \E c \in Containers, d \in UNION {LabelsOf[x].defs : x \in Containers} :
               /\ d \in LabelsOf[c].defs /\ d.kind = r.kind
               /\ Key(d) = Min(run.todo)
               /\ \/ c \in changed \/ ~d.enabled
                  \/ /\ OnStop = "disable" /\ docker[c] = "stopped"
                     /\ stoppedFor[c] >= StopGrace
  <2> DEFINE k == Min(run.todo)
             c == Target(k).cid
             d == Target(k).def
  <2>1. /\ run.phase = "toggle" /\ k \in Wanted(run.kind) /\ k \in Domains
        /\ r.id = run.toggle.id /\ ~run.toggle.want
    BY <1>1, OnlyTheToggle
  <2>2. /\ c \in Containers /\ d \in LabelsOf[c].defs
        /\ d.kind = r.kind /\ Key(d) = k
        /\ \/ c \in changed \/ ~d.enabled
           \/ /\ OnStop = "disable" /\ docker[c] = "stopped"
              /\ stoppedFor[c] >= StopGrace
    BY <1>1, <2>1, DisabledForAReason
  <2>3. d \in UNION {LabelsOf[x].defs : x \in Containers}  BY <2>2
  <2> HIDE DEF c, d
  <2> QED  BY <2>2, <2>3
<1>2. IInv /\ RunIsFaithful /\ [Next]_vars =>
        [ByWorker => \A r \in live, q \in live' :
           r.id = q.id /\ r.enabled /\ ~q.enabled =>
             \E c \in Containers, d \in UNION {LabelsOf[x].defs : x \in Containers} :
               /\ d \in LabelsOf[c].defs /\ d.kind = r.kind
               /\ Key(d) = Min(run.todo)
               /\ \/ c \in changed \/ ~d.enabled
                  \/ /\ OnStop = "disable" /\ docker[c] = "stopped"
                     /\ stoppedFor[c] >= StopGrace]_vars
  BY <1>1
<1> QED
  BY <1>2, Invariance, Faithfulness, PTL DEF Spec, OnlyStoppedHostsAreDisabled

---------------------------------------------------------------------------
(* Backoff.                                                                *)

\* What a step does to the failures: they are kept or forgotten, they age, or a
\* step on a key takes them off or, when it was not in backoff, puts one on.
Fresh(k) == [kind |-> run.kind, key |-> k, fp |-> Hash(k),
             delay |-> Delay(k), wait |-> Delay(k)]
Aged(f) == IF f.wait > 0 THEN [f EXCEPT !.wait = @ - 1] ELSE f
LEMMA FreshFields ==
  ASSUME NEW k
  PROVE  /\ Fresh(k).kind = run.kind /\ Fresh(k).key = k /\ Fresh(k).fp = Hash(k)
         /\ Fresh(k).delay = Delay(k) /\ Fresh(k).wait = Delay(k)
BY DEF Fresh

LEMMA WorkOnFailures ==
  ASSUME IInv, BackoffIsSingle, NEW k \in Domains, Works(k)
  PROVE  /\ \/ failures' \subseteq failures
            \/ /\ ~InBackoff(k)
               /\ failures' = Cleared(k) \cup {Fresh(k)}
         /\ run'.phase = "toggle" => /\ failures' \subseteq failures /\ ~InBackoff(k)
                                     /\ Min(run'.todo) = k
<1>1. TypeOK  BY DEF IInv
<1>2. /\ Forgiven(k) \subseteq failures /\ Cleared(k) \subseteq failures
      /\ BackedOff(k) = Cleared(k) \cup {Fresh(k)}
  BY DEF Forgiven, Cleared, BackedOff, Fresh
<1>3. \A E, f : Decided(k, E, f) => run'.phase = "key"  BY <1>1, DecidedRun
<1>4. \A id, fp, was, want, made :
        Toggle(k, id, fp, was, want, made) =>
          /\ failures' \subseteq failures
          /\ run'.phase = "key" \/ run'.todo = run.todo
  BY <1>1, <1>2, <1>3, ToggledRun
<1>5. k = Min(run.todo)  BY DEF Works
<1>6. CASE CreateHost(k)
  <2>1. Proceeds(k) /\ CreateEffect(k)  BY <1>6, CreateHas
  <2> QED  BY <1>2, <1>3, <1>4, <1>5, <2>1 DEF Proceeds, CreateEffect, Rejected
<1>7. CASE UpdateHost(k)
  <2>1. Proceeds(k) /\ UpdateEffect(k)  BY <1>7, UpdateHas
  <2> QED  BY <1>2, <1>3, <1>4, <1>5, <2>1 DEF Proceeds, UpdateEffect, Rejected
<1>8. CASE StampStopped(k)
  <2>1. Proceeds(k) /\ StampEffect(k)  BY <1>8, StampHas
  <2> QED  BY <1>2, <1>3, <1>4, <1>5, <2>1 DEF Proceeds, StampEffect
<1>9. CASE KeepHost(k)
  <2>1. Proceeds(k) /\ KeepEffect(k)  BY <1>9, KeepHas
  <2> QED  BY <1>4, <1>5, <2>1 DEF Proceeds, KeepEffect
<1>10. CASE SetEnabled(k)
  <2>1. EnableEffect(k)  BY <1>10, EnableHas
  <2>2. ~InBackoff(k)  BY <2>1 DEF EnableEffect, BackoffIsSingle
  <2> QED  BY <1>2, <1>3, <2>1, <2>2 DEF EnableEffect
<1>11. CASE Quiet(k)
  <2>1. QuietEffect(k)  BY <1>11, QuietHas
  <2> QED  BY <1>2, <1>3, <2>1 DEF QuietEffect
<1> QED
  BY <1>6, <1>7, <1>8, <1>9, <1>10, <1>11 DEF Works, ReconcileKey, Quiet

LEMMA FailuresStep ==
  ASSUME IInv, IdsAreUnique, [Next]_vars
  PROVE  \/ UNCHANGED failures /\ (run'.phase # "toggle" \/ run' = run)
         \/ failures' = {} /\ run' = IdleRun
         \/ failures' = {Aged(f) : f \in failures} /\ run' = run /\ run.phase = "idle"
         \/ \E k \in Domains : Works(k)
<1>1. CASE Tick  BY <1>1 DEF Tick, Idle, Aged
<1>2. CASE \/ Shutdown \/ UNCHANGED vars \/ ByOthers
           \/ \E final \in BOOLEAN : SnapshotFails(final)
           \/ \E c \in Containers, to \in ContainerStates : ContainerMoves(c, to)
  <2>1. CASE ByOthers  BY <1>2, <2>1, OthersKeepIds DEF worker, memory
  <2> QED
    BY <1>2, <2>1 DEF Shutdown, vars, SnapshotFails, ContainerMoves, worker, memory
<1>3. CASE Crash \/ Restart  BY <1>3 DEF Crash, Restart, Forget
<1>4. CASE Starts \/ Lists \/ Advances \/ Decides \/ Deletes
  BY <1>4 DEF Starts, Lists, Advances, Decides, Deletes
<1>5. CASE FinishRun \/ (Decide /\ ~(Orphans # {} /\ run.deletes /\ ~Guarded))
  <2>1. Ends  BY <1>5, EndSteps
  <2> QED  BY <2>1 DEF Ends, IdleRun
<1>6. CASE StartRun(FALSE) \/ StartRun(TRUE)  BY <1>4, <1>6, StartSteps
<1>7. CASE ListKind \/ SkipKind \/ ListFails \/ FinishKind
  BY <1>4, <1>7, CollectionShapes
<1>8. CASE \E k \in Domains : ReconcileKey(k)  BY <1>8, WorkShape
<1>9. CASE Decide \/ DeleteOrphan  BY <1>4, <1>5, <1>9, DeletionShapes
<1> QED
  BY <1>1, <1>2, <1>3, <1>5, <1>6, <1>7, <1>8, <1>9
     DEF Next, Reconcile, Environment, ByOthers

LEMMA AgedFields ==
  ASSUME NEW f \in Failures
  PROVE  /\ Aged(f).kind = f.kind /\ Aged(f).key = f.key /\ Aged(f).fp = f.fp
         /\ Aged(f).delay = f.delay /\ Aged(f).wait <= f.wait
BY OptionsAssumption DEF Aged, Failures

LEMMA BackoffInit == Init => BackoffIsSingle
BY DEF Init, IdleRun, BackoffIsSingle

LEMMA BackoffStep ==
  ASSUME IInv, RunIsFaithful, BackoffIsSingle, [Next]_vars
  PROVE  BackoffIsSingle'
<1>1. /\ IdsAreUnique /\ failures \subseteq Failures
      /\ \A f, g \in failures : <<f.kind, f.key>> = <<g.kind, g.key>> => f = g
  BY DEF RunIsFaithful, IInv, TypeOK, BackoffIsSingle
<1>2. CASE UNCHANGED failures /\ (run'.phase # "toggle" \/ run' = run)
  <2>1. ASSUME run' = run, run.phase = "toggle" PROVE ~InBackoff(Min(run.todo))'
    <3>1. UNCHANGED stoppedFor
      BY <1>1, <2>1, Shapes DEF Apart, Ends, IdleRun, Starts, Lists, Advances, Decides,
         Deletes, Works
    <3>2. PICK k : k = Min(run.todo)  OBVIOUS
    <3>3. SameView(k)  BY <2>1, <3>1, ViewIsKept DEF SameRun
    <3>4. InBackoff(k)' = InBackoff(k)
      BY <1>2, <2>1, <3>3 DEF SameView, InBackoff, FailuresOf
    <3> QED  BY <2>1, <3>2, <3>4 DEF BackoffIsSingle
  <2> QED  BY <1>1, <1>2, <2>1 DEF BackoffIsSingle
<1>3. CASE failures' = {} /\ run' = IdleRun  BY <1>3 DEF BackoffIsSingle, IdleRun
<1>4. CASE failures' = {Aged(f) : f \in failures} /\ run' = run /\ run.phase = "idle"
  BY <1>1, <1>4, AgedFields DEF BackoffIsSingle
<1>5. ASSUME NEW k \in Domains, Works(k) PROVE BackoffIsSingle'
  <2>1. \A f, g \in failures' : <<f.kind, f.key>> = <<g.kind, g.key>> => f = g
    <3>1. CASE failures' \subseteq failures  BY <1>1, <3>1
    <3>2. CASE failures' = Cleared(k) \cup {Fresh(k)}
      <4>1. \A f \in Cleared(k) : f \in failures /\ ~(f.kind = run.kind /\ f.key = k)
        BY DEF Cleared, FailuresOf
      <4> QED  BY <1>1, <3>2, <4>1, FreshFields
    <3> QED  BY <1>5, <3>1, <3>2, WorkOnFailures
  <2>2. ASSUME run'.phase = "toggle" PROVE ~InBackoff(Min(run.todo))'
    <3>1. /\ failures' \subseteq failures /\ ~InBackoff(k) /\ Min(run'.todo) = k
      BY <1>5, <2>2, WorkOnFailures
    <3>2. SameRun /\ SameView(k)  BY <1>5, ViewIsKept DEF Works
    <3>3. ~InBackoff(k)'
      BY <3>1, <3>2 DEF SameView, SameRun, InBackoff, FailuresOf
    <3> QED  BY <3>1, <3>3
  <2> QED  BY <2>1, <2>2 DEF BackoffIsSingle
<1> QED  BY <1>1, <1>2, <1>3, <1>4, <1>5, FailuresStep

LEMMA Singleness == Spec => []BackoffIsSingle
<1>1. IInv /\ RunIsFaithful /\ BackoffIsSingle /\ [Next]_vars => BackoffIsSingle'
  BY BackoffStep
<1> QED  BY <1>1, BackoffInit, Invariance, Faithfulness, PTL DEF Spec

\* A configuration that is refused again was not in backoff, and waits for twice
\* as long, or for the longest time there is (Worker.deferred, noteFailure).
THEOREM BackoffIsKept == Spec => BackoffHonoured
<1>1. ASSUME IInv, RunIsFaithful, BackoffIsSingle, [Next]_vars,
             NEW f \in failures, NEW g \in failures',
             <<f.kind, f.key, f.fp>> = <<g.kind, g.key, g.fp>>, g.wait > f.wait
      PROVE  f.wait = 0 /\ (g.delay = BackoffMax \/ g.delay >= 2 * f.delay)
  <2>1. /\ IdsAreUnique /\ failures \subseteq Failures
        /\ \A x, y \in failures : <<x.kind, x.key>> = <<y.kind, y.key>> => x = y
    BY <1>1 DEF RunIsFaithful, IInv, TypeOK, BackoffIsSingle
  <2>2. f.wait \in Nat /\ f.delay \in Nat /\ f.kind = g.kind /\ f.key = g.key
        /\ f.fp = g.fp
    BY <1>1, <2>1, OptionsAssumption DEF Failures
  <2>3. g \notin failures  BY <1>1, <2>1, <2>2
  <2>4. failures' # {Aged(x) : x \in failures}
    <3> SUFFICES ASSUME failures' = {Aged(x) : x \in failures} PROVE FALSE
      OBVIOUS
    <3>1. PICK x \in failures : g = Aged(x)  BY <1>1
    <3>2. x = f  BY <2>1, <2>2, <3>1, AgedFields
    <3>3. Aged(f).wait <= f.wait /\ Aged(f).wait \in Int
      BY <2>1, OptionsAssumption DEF Aged, Failures
    <3> QED  BY <1>1, <2>2, <3>1, <3>2, <3>3
  <2>5. PICK k \in Domains : Works(k)
    BY <1>1, <2>1, <2>3, <2>4, FailuresStep
  <2>6. ~InBackoff(k) /\ failures' = Cleared(k) \cup {Fresh(k)}
    BY <1>1, <2>3, <2>5, WorkOnFailures
  <2>7. g = Fresh(k)  BY <2>3, <2>6 DEF Cleared
  <2>8. f \in FailuresOf(k) /\ f.fp = Hash(k) /\ g.delay = Delay(k)
    BY <2>2, <2>7, FreshFields DEF FailuresOf
  <2>9. f.wait = 0  BY <2>2, <2>6, <2>8 DEF InBackoff
  <2> DEFINE same == {x \in FailuresOf(k) : x.fp = Hash(k)}
  <2>10. same = {f}  BY <2>1, <2>8 DEF FailuresOf
  <2>11. (CHOOSE x \in same : TRUE) = f  BY <2>10
  <2>12. Delay(k) = IF 2 * f.delay > BackoffMax THEN BackoffMax ELSE 2 * f.delay
    BY <2>10, <2>11 DEF Delay
  <2> QED  BY <2>2, <2>8, <2>9, <2>12, OptionsAssumption
<1>2. IInv /\ RunIsFaithful /\ BackoffIsSingle /\ [Next]_vars =>
        [\A f \in failures, g \in failures' :
           <<f.kind, f.key, f.fp>> = <<g.kind, g.key, g.fp>> /\ g.wait > f.wait =>
             f.wait = 0 /\ (g.delay = BackoffMax \/ g.delay >= 2 * f.delay)]_vars
  BY <1>1
<1> QED
  BY <1>2, Invariance, Faithfulness, Singleness, PTL DEF Spec, BackoffHonoured

=============================================================================
