------------------------- MODULE ReconcilerProofs -------------------------
(***************************************************************************)
(* Proofs about the reconcile worker, for all values of the constants: the *)
(* type invariant, the consistency of an interrupted run, and from them    *)
(* that the worker writes and deletes nothing but its own.                 *)
(***************************************************************************)
EXTENDS ReconcilerProperties, FiniteSetTheorems, TLAPS

---------------------------------------------------------------------------
(* Choices are well defined.                                               *)

\* Every nonempty set of domains, names or indices has a least element: the
\* numbers below all of them are as many as the least one counts.
LEMMA MinInSet ==
  ASSUME NEW S, S \subseteq Nat, S # {}
  PROVE  Min(S) \in S /\ \A y \in S : Min(S) <= y
<1> DEFINE Below == {x \in Nat : \A y \in 0..x : y \notin S}
           m == Cardinality(Below)
<1>1. PICK n \in S : n \in Nat  OBVIOUS
<1>2. Below \subseteq 0..n  BY <1>1
<1>3. \A x \in Below : x \in Nat /\ 0..x \subseteq Below  OBVIOUS
<1>4. \A x \in Nat : x \in Below <=> \A y \in 0..x : y \notin S  OBVIOUS
<1> HIDE DEF Below
<1>5. IsFiniteSet(0..n)  BY <1>1, FS_Interval
<1>6. IsFiniteSet(Below)  BY <1>2, <1>5, FS_Subset
<1>7. m \in Nat  BY <1>6, FS_CardinalityType
<1> HIDE DEF m
<1>8. ASSUME NEW x \in Below PROVE x \in 0..(m-1)
  <2>1. x \in Nat /\ 0..x \subseteq Below  BY <1>3
  <2>2. Cardinality(0..x) = x + 1  BY <2>1, FS_Interval
  <2>3. x + 1 <= m  BY <2>1, <2>2, <1>6, FS_Subset DEF m
  <2> QED  BY <2>1, <2>3, <1>7
<1>9. Below = 0..(m-1)
  <2>1. IsFiniteSet(0..(m-1))  BY <1>7, FS_Interval
  <2>2. Cardinality(0..(m-1)) = m  BY <1>7, FS_Interval
  <2> QED  BY <2>1, <2>2, <1>8, FS_Subset DEF m
<1>10. m \in S /\ \A y \in S : m <= y
  <2>1. m \notin Below  BY <1>7, <1>9
  <2>2. PICK y \in 0..m : y \in S  BY <1>4, <2>1, <1>7
  <2>3. \A x \in S : x \notin 0..(m-1)  BY <1>9, <1>4, <1>7
  <2> QED  BY <2>2, <2>3, <1>7
<1> QED  BY <1>10 DEF Min

\* A bounded set of numbers has a greatest element.
LEMMA GreatestExists ==
  ASSUME NEW S, S \subseteq Nat, S # {}, NEW n \in Nat, \A y \in S : y <= n
  PROVE  \E x \in S : \A y \in S : y <= x
<1> DEFINE T == {n - y : y \in S}
<1>1. T \subseteq Nat /\ T # {}
  <2>1. \A y \in S : n - y \in Nat  OBVIOUS
  <2> QED  BY <2>1
<1> HIDE DEF T
<1>2. Min(T) \in T /\ \A z \in T : Min(T) <= z  BY <1>1, MinInSet
<1>3. PICK x \in S : Min(T) = n - x  BY <1>2 DEF T
<1>4. \A y \in S : n - x <= n - y  BY <1>2, <1>3 DEF T
<1> QED  BY <1>3, <1>4

\* The key of a resource or definition is one of its domains.
LEMMA KeyInDomains ==
  ASSUME NEW x, x.doms \in DomainSets
  PROVE  Key(x) \in x.doms /\ Key(x) \in Domains
<1>1. x.doms # {} /\ x.doms \subseteq Domains  BY DEF DomainSets
<1>2. Domains \subseteq Nat  BY DataAssumption
<1>3. x.doms \subseteq Nat  BY <1>1, <1>2
<1> QED  BY <1>1, <1>3, MinInSet DEF Key

\* Of resources with bounded ids one is always picked.
LEMMA PickInSet ==
  ASSUME NEW S, S \subseteq Resources, S # {},
         NEW n \in Nat, \A r \in S : r.id <= n
  PROVE  Pick(S) \in S
<1> DEFINE managed == {r \in S : IsManaged(r)}
           ids(T) == {r.id : r \in T}
<1>1. CASE managed # {}
  <2>1. ids(managed) \subseteq Nat /\ ids(managed) # {}  BY <1>1 DEF Resources
  <2>2. \E i \in ids(managed) : \A j \in ids(managed) : i <= j  BY <2>1, MinInSet
  <2>3. \E r \in managed : \A q \in managed : r.id <= q.id  BY <2>2
  <2> QED  BY <1>1, <2>3 DEF Pick
<1>2. CASE managed = {}
  <2>1. ids(S) \subseteq Nat /\ ids(S) # {} /\ \A i \in ids(S) : i <= n  BY DEF Resources
  <2>2. \E i \in ids(S) : \A j \in ids(S) : j <= i  BY <2>1, GreatestExists
  <2>3. \E r \in S : \A q \in S : q.id <= r.id  BY <2>2
  <2> QED  BY <1>2, <2>3 DEF Pick
<1> QED  BY <1>1, <1>2

\* Of the targets that claim a key, one comes first by name and index.
LEMMA TargetClaims ==
  ASSUME TypeOK, NEW k \in Wanted(run.kind)
  PROVE  Target(k) \in Claims(run.kind, k)
<1> DEFINE C == Claims(run.kind, k)
           names == {NameOf[t.cid] : t \in C}
<1>1. C # {} /\ C \subseteq Targets
  BY DEF Wanted, Claims, ActiveTargets, TypeOK, Runs
<1>2. \A t \in C : NameOf[t.cid] \in Nat /\ t.def.index \in Nat
  BY <1>1, LabelsAssumption DEF Targets, Definitions
<1> HIDE DEF C
<1>3. \E i \in names : \A j \in names : i <= j
  <2>1. names \subseteq Nat /\ names # {}  BY <1>1, <1>2
  <2> QED  BY <2>1, MinInSet
<1>4. PICK s \in C : \A u \in C : NameOf[s.cid] <= NameOf[u.cid]  BY <1>3
<1> DEFINE B == {u \in C : NameOf[u.cid] = NameOf[s.cid]}
           indices == {u.def.index : u \in B}
<1>5. \E i \in indices : \A j \in indices : i <= j
  <2>1. indices \subseteq Nat /\ indices # {}  BY <1>2, <1>4
  <2> QED  BY <2>1, MinInSet
<1>6. PICK t \in B : \A u \in B : t.def.index <= u.def.index  BY <1>5
<1>7. t \in C /\ \A u \in C : Before(t, u)
  <2>1. t \in C /\ NameOf[t.cid] = NameOf[s.cid]  BY <1>6
  <2> SUFFICES ASSUME NEW u \in C PROVE Before(t, u)  BY <2>1
  <2>2. NameOf[t.cid] <= NameOf[u.cid]  BY <2>1, <1>4
  <2>3. NameOf[t.cid] \in Nat /\ NameOf[u.cid] \in Nat  BY <2>1, <1>2
  <2>4. CASE NameOf[t.cid] < NameOf[u.cid]  BY <2>4 DEF Before
  <2>5. CASE NameOf[t.cid] = NameOf[u.cid]
    <3>1. u \in B  BY <2>1, <2>5
    <3> QED  BY <3>1, <1>6, <2>5 DEF Before
  <2> QED  BY <2>2, <2>3, <2>4, <2>5
<1> QED  BY <1>7 DEF Target, C

---------------------------------------------------------------------------
(* What the worker has in hand when it turns to a key.                     *)

Builds == [doms: DomainSets, enabled: BOOLEAN, cfg: Sendable, owner: Owners,
           marked: BOOLEAN, prefix: Nat, name: Nat, cid: Containers, index: Nat]

\* A key in demand has a target in the run's snapshot, and what is built from it
\* can be sent and hashed.
LEMMA TargetInHand ==
  ASSUME TypeOK, NEW k \in Wanted(run.kind)
  PROVE  /\ Target(k) \in run.targets /\ Target(k) \in Targets
         /\ Target(k).def.kind = run.kind /\ Key(Target(k).def) = k
         /\ Build(Target(k)) \in Builds /\ Hash(k) \in Fingerprints
<1>1. Target(k) \in Claims(run.kind, k)  BY TargetClaims
<1>2. /\ Target(k) \in run.targets /\ Target(k) \in Targets
      /\ Target(k).def.kind = run.kind /\ Key(Target(k).def) = k
  BY <1>1 DEF Claims, ActiveTargets, TypeOK, Runs
<1>3. ASSUME NEW t \in Targets PROVE Build(t) \in Builds
  <2>1. t.def \in Definitions /\ t.cid \in Containers /\ t.running \in BOOLEAN
    BY DEF Targets
  <2>2. NameOf[t.cid] \in Nat  BY <2>1, LabelsAssumption
  <2>3. LabelPrefix \in Nat  BY OptionsAssumption
  <2> QED  BY <2>1, <2>2, <2>3 DEF Build, Builds, Definitions, Sendable, Owners
<1>4. Build(Target(k)) \in Builds  BY <1>2, <1>3
<1>5. ASSUME NEW b \in Builds PROVE Fingerprint(b) \in Fingerprints
  BY DEF Builds, Fingerprint, Fingerprints
<1> QED  BY <1>2, <1>4, <1>5 DEF Hash

\* A key that was found has one listed resource standing for it.
LEMMA CurrentInHand ==
  ASSUME TypeOK, IdsBounded, NEW k, Found(k) # {}
  PROVE  /\ Current(k) \in Found(k) /\ Current(k) \in run.listed
         /\ Current(k) \in Resources /\ Fingerprint(Current(k)) \in Fingerprints
         /\ Current(k).kind = run.kind /\ Key(Current(k)) = k
<1>1. Found(k) \subseteq run.listed /\ run.listed \subseteq Resources
  BY DEF Found, Listed, TypeOK, Runs
<1>2. \A r \in Found(k) : r.id <= lastId  BY <1>1 DEF IdsBounded
<1>3. lastId \in Nat  BY DEF TypeOK
<1>4. Current(k) \in Found(k)  BY <1>1, <1>2, <1>3, PickInSet DEF Current
<1>5. ASSUME NEW r \in Resources PROVE Fingerprint(r) \in Fingerprints
  BY DEF Resources, Fingerprint, Fingerprints
<1> QED  BY <1>1, <1>4, <1>5 DEF Found, Listed

\* However often a configuration is rejected, its delay stays between the
\* smallest and the largest backoff.
LEMMA BackoffInHand ==
  ASSUME TypeOK, NEW k \in Domains, Hash(k) \in Fingerprints
  PROVE  /\ Forgiven(k) \subseteq Failures /\ Cleared(k) \subseteq Failures
         /\ BackedOff(k) \subseteq Failures
<1>1. failures \subseteq Failures /\ run.kind \in Kinds  BY DEF TypeOK, Runs
<1>2. /\ BackoffMin \in Nat /\ BackoffMax \in Nat /\ BackoffMin <= BackoffMax
  BY OptionsAssumption
<1>3. Delay(k) \in BackoffMin..BackoffMax
  <2> DEFINE same == {f \in FailuresOf(k) : f.fp = Hash(k)}
             f0 == CHOOSE f \in same : TRUE
  <2>1. CASE same = {}  BY <2>1, <1>2 DEF Delay
  <2>2. CASE same # {}
    <3>1. f0 \in Failures  BY <2>2, <1>1 DEF FailuresOf
    <3>2. f0.delay \in BackoffMin..BackoffMax  BY <3>1 DEF Failures
    <3>3. Delay(k) = IF 2 * f0.delay > BackoffMax THEN BackoffMax ELSE 2 * f0.delay
      BY <2>2 DEF Delay
    <3> HIDE DEF f0
    <3> QED  BY <3>2, <3>3, <1>2
  <2> QED  BY <2>1, <2>2
<1>4. Delay(k) \in 0..BackoffMax  BY <1>3, <1>2
<1>5. [kind |-> run.kind, key |-> k, fp |-> Hash(k), delay |-> Delay(k),
       wait |-> Delay(k)] \in Failures
  BY <1>1, <1>3, <1>4 DEF Failures
<1> QED  BY <1>1, <1>5 DEF Forgiven, Cleared, BackedOff

---------------------------------------------------------------------------
(* The pieces a step on a key is made of.                                  *)

\* No answer of the server is paid for by the people at the UI, and none is
\* irregular without a fault left.
LEMMA ChargeType ==
  ASSUME TypeOK, NEW valid \in BOOLEAN, NEW answer \in Answers(valid),
         Charge(answer, valid)
  PROVE  budget' \in Budgets /\ budget'.ui = budget.ui
<1>1. budget \in Budgets  BY DEF TypeOK
<1>2. CASE answer = Regular(valid)  BY <1>1, <1>2 DEF Charge
<1>3. CASE answer # Regular(valid)
  <2>1. budget.faults # 0  BY <1>3 DEF Answers
  <2>2. budget' = [budget EXCEPT !.faults = @ - 1]  BY <1>3 DEF Charge
  <2> QED  BY <1>1, <2>1, <2>2 DEF Budgets
<1> QED  BY <1>2, <1>3

\* A cache entry for the key in hand is well formed.
LEMMA EntryType ==
  ASSUME TypeOK, NEW k \in Domains, NEW id \in Nat, NEW fp \in Fingerprints
  PROVE  Entry(k, id, fp) \in SUBSET Entries
<1>1. run.kind \in Kinds  BY DEF TypeOK, Runs
<1> QED  BY <1>1 DEF Entry, Entries

\* What a decision about a key leaves alone.
SameRun == /\ run'.kind = run.kind /\ run'.deletes = run.deletes
           /\ run'.final = run.final /\ run'.targets = run.targets
           /\ run'.prot = run.prot /\ run'.none = run.none
           /\ run'.listed = run.listed /\ run'.victims = run.victims

\* Deciding about a key leaves the rest of the run as it is.
LEMMA DecidedType ==
  ASSUME TypeOK, NEW k, NEW E \in SUBSET Entries, NEW f \in BOOLEAN,
         Decided(k, E, f)
  PROVE  /\ run' \in Runs /\ run'.phase = "key" /\ run'.todo \subseteq run.todo
         /\ SameRun
<1>1. run \in Runs  BY DEF TypeOK
<1>2. NoToggle \in [id: Nat, want: BOOLEAN, made: BOOLEAN, entry: SUBSET Entries]
  BY DEF NoToggle, Nobody
<1> QED  BY <1>1, <1>2 DEF Decided, Runs, SameRun

\* Bringing the enabled flag in line ends the key or opens its toggle step.
LEMMA ToggleType ==
  ASSUME TypeOK, NEW k \in Domains, run.todo # {}, Hash(k) \in Fingerprints,
         NEW id \in Nat, NEW fp \in Fingerprints, NEW was, NEW want \in BOOLEAN,
         NEW made \in BOOLEAN, Toggle(k, id, fp, was, want, made)
  PROVE  /\ run' \in Runs /\ run'.phase \in {"key", "toggle"} /\ SameRun
         /\ run'.todo \subseteq run.todo
         /\ run'.phase = "toggle" => /\ run'.todo # {}
                                     /\ run'.toggle.id = id
         /\ failures' \subseteq Failures
<1>1. Entry(k, id, fp) \in SUBSET Entries  BY EntryType
<1>2. Forgiven(k) \subseteq Failures /\ Cleared(k) \subseteq Failures
  BY BackoffInHand
<1>3. CASE was = want \/ DryRun
  <2>1. Decided(k, Entry(k, id, fp), FALSE) /\ failures' = Cleared(k)
    BY <1>3 DEF Toggle
  <2> QED  BY <1>1, <1>2, <2>1, DecidedType
<1>4. CASE ~(was = want \/ DryRun)
  <2> DEFINE tg == [id |-> id, want |-> want, made |-> made,
                    entry |-> Entry(k, id, fp)]
  <2>1. run' = [run EXCEPT !.phase = "toggle", !.toggle = tg]
        /\ failures' = Forgiven(k)
    BY <1>4 DEF Toggle
  <2>2. tg \in [id: Nat, want: BOOLEAN, made: BOOLEAN, entry: SUBSET Entries]
    BY <1>1
  <2>3. tg.id = id  OBVIOUS
  <2> HIDE DEF tg
  <2>4. run \in Runs  BY DEF TypeOK
  <2> QED  BY <1>2, <2>1, <2>2, <2>3, <2>4 DEF Runs, SameRun
<1> QED  BY <1>3, <1>4

\* A rejected key ends like a decided one, in backoff.
LEMMA RejectedType ==
  ASSUME TypeOK, NEW k \in Domains, Hash(k) \in Fingerprints, Rejected(k)
  PROVE  /\ run' \in Runs /\ run'.phase = "key" /\ run'.todo \subseteq run.todo
         /\ SameRun /\ failures' \subseteq Failures
BY BackoffInHand, DecidedType DEF Rejected

---------------------------------------------------------------------------
(* The inductive invariant, one action at a time.                          *)

IInv == TypeOK /\ RunIsConsistent

\* The keys in demand depend on the snapshot and on ages, nothing else.
LEMMA SameWanted ==
  ASSUME UNCHANGED stoppedFor, run'.targets = run.targets, run'.prot = run.prot
  PROVE  /\ \A kind : Wanted(kind)' = Wanted(kind)
         /\ \A r : Protected(r)' = Protected(r)
BY DEF Wanted, ActiveTargets, InGrace, Protected

\* What every step on a key has in common.
LEMMA KeyStep ==
  ASSUME IInv, run.phase \in {"key", "toggle"},
         run' \in Runs, run'.phase \in {"key", "toggle"}, SameRun,
         run'.todo \subseteq run.todo, run'.phase = "toggle" => run'.todo # {},
         ToggleIsOurs', failures' \subseteq Failures, budget' \in Budgets,
         live' \subseteq Resources, lastId' \in Nat, lastId <= lastId',
         \A r \in live' : r.id <= lastId',
         UNCHANGED <<outside, cache, stoppedFor, status>>
  PROVE  IInv'
<1>1. TypeOK'  BY DEF IInv, TypeOK, outside
<1>2. IdsBounded'
  <2>1. \A r \in run'.listed : r.id \in Nat /\ r.id <= lastId
    BY DEF IInv, RunIsConsistent, IdsBounded, SameRun, TypeOK, Runs, Resources
  <2>2. lastId \in Nat  BY DEF IInv, TypeOK
  <2> QED  BY <2>1, <2>2 DEF IdsBounded
<1>3. /\ \A kind : Wanted(kind)' = Wanted(kind)
      /\ \A r : Protected(r)' = Protected(r)
  BY SameWanted DEF SameRun
<1>4. TodoIsWanted'
  BY <1>3 DEF IInv, RunIsConsistent, TodoIsWanted, SameRun
<1>5. run'.victims = {}
  BY DEF IInv, RunIsConsistent, VictimsAreOrphans, SameRun
<1>6. VictimsAreOrphans'
  BY <1>5 DEF IInv, RunIsConsistent, VictimsAreOrphans, SameRun
<1>7. SnapshotIsCurrent'
  BY DEF IInv, RunIsConsistent, SnapshotIsCurrent, SameRun, outside, Known, Present
<1> QED  BY <1>1, <1>2, <1>4, <1>6, <1>7 DEF IInv, RunIsConsistent

\* What the worker knows when it decides about key k.
AtHand(k) ==
  /\ run.todo # {} /\ k \in run.todo /\ run.phase \in {"key", "toggle"}
  /\ Target(k) \in Targets /\ Build(Target(k)) \in Builds
  /\ Hash(k) \in Fingerprints
  /\ Found(k) # {} => /\ Current(k) \in run.listed /\ Current(k) \in Resources
                      /\ Fingerprint(Current(k)) \in Fingerprints

\* The key whose turn it is has a target, and its resource if one was found.
LEMMA KeyAtHand ==
  ASSUME IInv, NEW k \in Domains,
         run.phase \in {"key", "toggle"}, run.todo # {}, k = Min(run.todo)
  PROVE  AtHand(k)
<1>1. run.todo \subseteq Domains  BY DEF IInv, TypeOK, Runs
<1>2. k \in run.todo
  <2>1. run.todo \subseteq Nat  BY <1>1, DataAssumption
  <2> QED  BY <2>1, MinInSet
<1>3. k \in Wanted(run.kind)  BY <1>2 DEF IInv, RunIsConsistent, TodoIsWanted
<1> QED  BY <1>2, <1>3, TargetInHand, CurrentInHand
         DEF AtHand, IInv, RunIsConsistent

\* A resource the worker does not leave alone is one it may touch.
LEMMA NotSkipped ==
  ASSUME NEW r \in Resources, ~Skips(r)
  PROVE  MayTouch(r)
<1>1. r.owner \in Owners  BY DEF Resources
<1> QED  BY <1>1 DEF Skips, MayTouch, OfThisInstance, Owners

\* The decisions that write nothing.
LEMMA QuietSteps ==
  ASSUME IInv, NEW k \in Domains,
         \/ SkipNotOurs(k) \/ WaitOutGrace(k) \/ SkipConflict(k)
         \/ CannotResolve(k) \/ Defer(k) \/ SkipIncomplete(k)
         \/ PretendCreate(k) \/ PretendUpdate(k)
  PROVE  IInv' /\ UNCHANGED live
<1>1. AtHand(k)
  <2>1. At(k)
    BY DEF SkipNotOurs, WaitOutGrace, SkipConflict, CannotResolve, Defer,
           SkipIncomplete, PretendCreate, PretendUpdate
  <2> QED  BY <2>1, KeyAtHand DEF At
<1>2. TypeOK /\ run.phase = "key"
  BY DEF IInv, At, SkipNotOurs, WaitOutGrace, SkipConflict, CannotResolve,
         Defer, SkipIncomplete, PretendCreate, PretendUpdate
<1>3. PICK E \in SUBSET Entries, f \in BOOLEAN : Decided(k, E, f)
  <2>1. CASE WaitOutGrace(k)
    <3>1. Found(k) # {} => Entry(k, Current(k).id, Fingerprint(Current(k)))
                             \in SUBSET Entries
      BY <1>1, <1>2, EntryType DEF AtHand, Resources
    <3> QED  BY <2>1, <3>1 DEF WaitOutGrace
  <2>2. CASE ~WaitOutGrace(k)
    BY <2>2 DEF SkipNotOurs, SkipConflict, CannotResolve, Defer,
                SkipIncomplete, PretendCreate, PretendUpdate
  <2> QED  BY <2>1, <2>2
<1>4. /\ run' \in Runs /\ run'.phase = "key" /\ run'.todo \subseteq run.todo
      /\ SameRun
  BY <1>2, <1>3, DecidedType
<1>5. failures' \subseteq Failures
  <2>1. failures \subseteq Failures  BY <1>2 DEF TypeOK
  <2>2. Forgiven(k) \subseteq Failures /\ Cleared(k) \subseteq Failures
    BY <1>1, <1>2, BackoffInHand DEF AtHand
  <2> QED
    BY <2>1, <2>2 DEF SkipNotOurs, WaitOutGrace, SkipConflict, CannotResolve,
       Defer, SkipIncomplete, PretendCreate, PretendUpdate, memory
<1>6. budget' \in Budgets
  <2>1. budget \in Budgets  BY <1>2 DEF TypeOK
  <2>2. CASE CannotResolve(k)  BY <2>1, <2>2 DEF CannotResolve, Budgets
  <2>3. CASE ~CannotResolve(k)
    BY <2>1, <2>3 DEF SkipNotOurs, WaitOutGrace, SkipConflict, Defer,
       SkipIncomplete, PretendCreate, PretendUpdate
  <2> QED  BY <2>2, <2>3
<1>7. UNCHANGED <<outside, server, cache, stoppedFor, status>>
  BY DEF SkipNotOurs, WaitOutGrace, SkipConflict, CannotResolve, Defer,
         SkipIncomplete, PretendCreate, PretendUpdate, memory
<1>8. UNCHANGED <<live, lastId>>  BY <1>7 DEF server
<1>9. ToggleIsOurs'  BY <1>4 DEF ToggleIsOurs
<1>10. IInv'
  <2>1. lastId \in Nat /\ live \subseteq Resources  BY <1>2 DEF TypeOK
  <2>2. \A r \in live : r.id <= lastId  BY DEF IInv, RunIsConsistent, IdsBounded
  <2> QED
    BY <1>2, <1>4, <1>5, <1>6, <1>7, <1>8, <1>9, <2>1, <2>2, KeyStep
<1> QED  BY <1>8, <1>10

\* Nothing leaves, and whatever changed is the worker's to change.
GoodWrite == TouchesItsOwn /\ Removed = {}

\* A resource in sync is not written here; the worker may touch it.
LEMMA KeepStep ==
  ASSUME IInv, NEW k \in Domains, KeepHost(k)
  PROVE  IInv' /\ GoodWrite
<1> DEFINE current == Current(k)
<1>1. AtHand(k)  BY KeyAtHand DEF KeepHost, At
<1>2. /\ TypeOK /\ run.phase = "key" /\ lastId \in Nat
      /\ live \subseteq Resources /\ \A r \in live : r.id <= lastId
  BY DEF KeepHost, At, IInv, TypeOK, RunIsConsistent, IdsBounded
<1>3. /\ current \in run.listed /\ current \in Resources /\ MayTouch(current)
      /\ Fingerprint(current) \in Fingerprints
  BY <1>1, NotSkipped DEF KeepHost, AtHand, Proceeds, Settled, Ours
<1>4. WantEnabled(k) \in BOOLEAN
  BY <1>1, <1>3 DEF WantEnabled, AtHand, Targets, Definitions, Resources
<1> DEFINE fp == IF Frozen(k) THEN Fingerprint(current) ELSE Hash(k)
<1>5. fp \in Fingerprints /\ current.id \in Nat
  BY <1>1, <1>3 DEF AtHand, Resources
<1>6. Toggle(k, current.id, fp, current.enabled, WantEnabled(k), FALSE)
  BY DEF KeepHost
<1>7. /\ run' \in Runs /\ run'.phase \in {"key", "toggle"} /\ SameRun
      /\ run'.todo \subseteq run.todo /\ failures' \subseteq Failures
      /\ run'.phase = "toggle" => run'.todo # {} /\ run'.toggle.id = current.id
  <2> HIDE DEF fp
  <2> QED  BY <1>1, <1>2, <1>4, <1>5, <1>6, ToggleType DEF AtHand
<1>8. UNCHANGED <<outside, live, lastId, cache, stoppedFor, status, budget>>
  BY DEF KeepHost, server
<1>9. ToggleIsOurs'  BY <1>3, <1>7 DEF ToggleIsOurs, SameRun
<1>10. budget' \in Budgets  BY <1>2, <1>8 DEF TypeOK
<1>11. IInv'  BY <1>2, <1>7, <1>8, <1>9, <1>10, KeyStep
<1> QED  BY <1>8, <1>11 DEF GoodWrite, TouchesItsOwn, Removed

\* A create adds a resource under a new id and changes no other.
LEMMA CreateStep ==
  ASSUME IInv, NEW k \in Domains, CreateHost(k)
  PROVE  IInv' /\ GoodWrite
<1> DEFINE new == Build(Target(k))
           valid == ~Clashes(run.kind, new.doms, Nobody) /\ new.cfg \notin BadConfigs
           made == [id |-> lastId + 1, kind |-> run.kind, doms |-> new.doms,
                    cfg |-> Stored[new.cfg], enabled |-> TRUE,
                    owner |-> new.owner, marked |-> new.marked,
                    prefix |-> new.prefix, name |-> new.name,
                    cid |-> new.cid, index |-> new.index, by |-> "us"]
<1>1. AtHand(k)  BY KeyAtHand DEF CreateHost, At
<1>2. /\ TypeOK /\ run.phase = "key" /\ lastId \in Nat /\ run.kind \in Kinds
      /\ live \subseteq Resources /\ \A r \in live : r.id <= lastId
      /\ \A l \in run.listed : l.id <= lastId /\ l.id \in Nat
  BY DEF CreateHost, At, IInv, TypeOK, RunIsConsistent, IdsBounded, Runs, Resources
<1>3. /\ new.doms \in DomainSets /\ new.enabled \in BOOLEAN
      /\ new.cfg \in Sendable /\ new.owner \in Owners /\ new.marked \in BOOLEAN
      /\ new.prefix \in Nat /\ new.name \in Nat /\ new.cid \in Containers
      /\ new.index \in Nat
  BY <1>1 DEF AtHand, Builds
<1>4. Stored[new.cfg] \in Sendable  BY <1>3, DataAssumption DEF Sendable
<1>5. Fingerprint(new) \in Fingerprints  BY <1>1 DEF AtHand, Hash
<1> HIDE DEF new
<1>6. made \in Resources /\ made.id = lastId + 1 /\ made.by = "us"
  BY <1>2, <1>3, <1>4 DEF Resources
<1>7. valid \in BOOLEAN  OBVIOUS
<1> HIDE DEF made, valid
<1>8. PICK answer \in Answers(valid) :
        /\ Charge(answer, valid)
        /\ \/ answer = "rejected" /\ UNCHANGED <<live, lastId>>
           \/ /\ answer # "rejected" /\ lastId' = lastId + 1
              /\ live' = live \cup {made}
        /\ \/ /\ answer = "ok"
              /\ Toggle(k, lastId + 1, Fingerprint(new), TRUE, new.enabled, TRUE)
           \/ answer # "ok" /\ Rejected(k)
  BY DEF CreateHost, new, made, valid
<1>9. budget' \in Budgets  BY <1>2, <1>7, <1>8, ChargeType
<1>10. /\ live' \subseteq Resources /\ lastId' \in Nat /\ lastId <= lastId'
       /\ live \subseteq live' /\ live' \subseteq live \cup {made}
       /\ answer # "rejected" => lastId' = lastId + 1
       /\ \A r \in live' : r.id <= lastId'
  <2>1. CASE answer = "rejected"  BY <1>2, <1>8, <2>1
  <2>2. CASE answer # "rejected"
    <3>1. live' = live \cup {made} /\ lastId' = lastId + 1  BY <1>8, <2>2
    <3>2. \A r \in live : r.id \in Nat  BY <1>2 DEF Resources
    <3> QED  BY <1>2, <1>6, <3>1, <3>2
  <2> QED  BY <2>1, <2>2
<1>11. /\ run' \in Runs /\ run'.phase \in {"key", "toggle"} /\ SameRun
       /\ run'.todo \subseteq run.todo /\ failures' \subseteq Failures
       /\ run'.phase = "toggle" => /\ run'.todo # {} /\ answer = "ok"
                                   /\ run'.toggle.id = lastId + 1
  <2>1. CASE answer = "ok"
    <3>1. Toggle(k, lastId + 1, Fingerprint(new), TRUE, new.enabled, TRUE)
      BY <1>8, <2>1
    <3>2. lastId + 1 \in Nat /\ run.todo # {} /\ Hash(k) \in Fingerprints
      BY <1>1, <1>2 DEF AtHand
    <3> DEFINE id == lastId + 1
               fp == Fingerprint(new)
    <3> HIDE DEF id, fp
    <3>3. Toggle(k, id, fp, TRUE, new.enabled, TRUE) /\ id \in Nat
          /\ fp \in Fingerprints
      BY <3>1, <3>2, <1>5 DEF id, fp
    <3>4. /\ run' \in Runs /\ run'.phase \in {"key", "toggle"} /\ SameRun
          /\ run'.todo \subseteq run.todo /\ failures' \subseteq Failures
          /\ run'.phase = "toggle" => run'.todo # {} /\ run'.toggle.id = id
      BY <1>2, <1>3, <3>2, <3>3, ToggleType
    <3> QED  BY <2>1, <3>4 DEF id
  <2>2. CASE answer # "ok"
    BY <1>1, <1>2, <1>8, <2>2, RejectedType DEF AtHand
  <2> QED  BY <2>1, <2>2
<1>12. UNCHANGED <<outside, cache, stoppedFor, status>>  BY DEF CreateHost
<1>13. ToggleIsOurs'
  <2> SUFFICES ASSUME run'.phase = "toggle"
               PROVE  /\ run'.toggle.id <= lastId'
                      /\ run'.toggle.id \notin IdsOf(run'.listed)
                      /\ \A r \in live' : r.id = run'.toggle.id => r.by = "us"
    BY DEF ToggleIsOurs
  <2>1. run'.toggle.id = lastId + 1 /\ lastId' = lastId + 1  BY <1>8, <1>10, <1>11
  <2>2. lastId + 1 \notin IdsOf(run'.listed)
    BY <1>2, <1>11 DEF IdsOf, SameRun
  <2>3. \A r \in live : r.id # lastId + 1
    BY <1>2 DEF Resources
  <2> QED  BY <1>2, <1>6, <1>10, <2>1, <2>2, <2>3
<1>14. IInv'
  BY <1>2, <1>9, <1>10, <1>11, <1>12, <1>13, KeyStep
<1> QED  BY <1>10, <1>14 DEF GoodWrite, TouchesItsOwn, Removed

\* Overwriting the resource with a listed id by one that keeps the id.
LEMMA OverwriteIsGood ==
  ASSUME IInv, NEW l \in run.listed, MayTouch(l), NEW old \in live, old.id = l.id,
         NEW r \in Resources, r.id = old.id, live' = Overwrite(old.id, r),
         UNCHANGED lastId
  PROVE  /\ live' \subseteq Resources /\ \A q \in live' : q.id <= lastId'
         /\ GoodWrite
<1>1. live \subseteq Resources /\ \A q \in live : q.id <= lastId
  BY DEF IInv, TypeOK, RunIsConsistent, IdsBounded
<1>2. \A q \in live : q \in live' \/ q.id = l.id  BY DEF Overwrite
<1>3. r \in live'  BY DEF Overwrite
<1>4. Removed = {}  BY <1>2, <1>3 DEF Removed
<1> QED  BY <1>1, <1>2, <1>4 DEF Overwrite, GoodWrite, TouchesItsOwn

\* A call that was rejected left the server as it was.
LEMMA NoWriteIsGood ==
  ASSUME IInv, UNCHANGED live, UNCHANGED lastId
  PROVE  /\ live' \subseteq Resources /\ \A q \in live' : q.id <= lastId'
         /\ GoodWrite
BY DEF IInv, TypeOK, RunIsConsistent, IdsBounded, GoodWrite, TouchesItsOwn, Removed

\* An update replaces the resource it was decided for and no other.
LEMMA UpdateStep ==
  ASSUME IInv, NEW k \in Domains, UpdateHost(k)
  PROVE  IInv' /\ GoodWrite
<1> DEFINE current == Current(k)
           new == Build(Target(k))
           stored == {r \in live : r.id = current.id}
           valid == /\ stored # {} /\ new.cfg \notin BadConfigs
                    /\ ~Clashes(run.kind, new.doms, current.id)
           written(old) == [old EXCEPT !.doms = new.doms, !.cfg = Stored[new.cfg],
                      !.owner = new.owner, !.marked = new.marked,
                      !.prefix = new.prefix, !.name = new.name,
                      !.cid = new.cid, !.index = new.index]
<1>1. AtHand(k)  BY KeyAtHand DEF UpdateHost, At
<1>2. /\ TypeOK /\ run.phase = "key" /\ lastId \in Nat /\ live \subseteq Resources
  BY DEF UpdateHost, At, IInv, TypeOK
<1>3. current \in run.listed /\ current \in Resources /\ MayTouch(current)
  BY <1>1, NotSkipped DEF UpdateHost, AtHand, Proceeds, Settled, Ours
<1>4. WantEnabled(k) \in BOOLEAN
  BY <1>1, <1>3 DEF WantEnabled, AtHand, Targets, Definitions, Resources
<1>5. /\ new.doms \in DomainSets /\ new.cfg \in Sendable /\ new.owner \in Owners
      /\ new.marked \in BOOLEAN /\ new.prefix \in Nat /\ new.name \in Nat
      /\ new.cid \in Containers /\ new.index \in Nat
  BY <1>1 DEF AtHand, Builds
<1>6. Stored[new.cfg] \in Sendable  BY <1>5, DataAssumption DEF Sendable
<1>7. Fingerprint(new) \in Fingerprints  BY <1>1 DEF AtHand, Hash
<1>8. current.id \in Nat  BY <1>3 DEF Resources
<1> HIDE DEF new
<1>9. \A old \in live : written(old) \in Resources /\ written(old).id = old.id
  BY <1>2, <1>5, <1>6 DEF Resources
<1>10. valid \in BOOLEAN  OBVIOUS
<1> HIDE DEF written, valid, current
<1>11. PICK answer \in Answers(valid) :
        /\ Charge(answer, valid)
        /\ \/ answer = "rejected" /\ UNCHANGED live
           \/ \E old \in stored : live' = Overwrite(old.id, written(old))
        /\ \/ /\ answer = "ok"
              /\ Toggle(k, current.id, Fingerprint(new), current.enabled,
                        WantEnabled(k), FALSE)
           \/ answer # "ok" /\ Rejected(k)
  BY DEF UpdateHost, new, written, valid, current
<1>12. budget' \in Budgets  BY <1>2, <1>10, <1>11, ChargeType
<1>13. UNCHANGED <<outside, lastId, cache, stoppedFor, status>>  BY DEF UpdateHost
<1>14. /\ live' \subseteq Resources /\ \A q \in live' : q.id <= lastId'
       /\ GoodWrite
  <2>1. CASE UNCHANGED live  BY <1>13, <2>1, NoWriteIsGood
  <2>2. ASSUME NEW old \in stored, live' = Overwrite(old.id, written(old))
        PROVE  /\ live' \subseteq Resources /\ \A q \in live' : q.id <= lastId'
               /\ GoodWrite
    BY <1>3, <1>9, <1>13, <2>2, OverwriteIsGood
  <2> QED  BY <1>11, <2>1, <2>2
<1>15. /\ run' \in Runs /\ run'.phase \in {"key", "toggle"} /\ SameRun
       /\ run'.todo \subseteq run.todo /\ failures' \subseteq Failures
       /\ run'.phase = "toggle" => run'.todo # {} /\ run'.toggle.id = current.id
  <2>1. CASE answer = "ok"
    <3> DEFINE fp == Fingerprint(new)
    <3> HIDE DEF fp
    <3>1. /\ Toggle(k, current.id, fp, current.enabled, WantEnabled(k), FALSE)
          /\ fp \in Fingerprints
      BY <1>7, <1>11, <2>1 DEF fp
    <3>2. run.todo # {} /\ Hash(k) \in Fingerprints  BY <1>1 DEF AtHand
    <3> QED  BY <1>2, <1>4, <1>8, <3>1, <3>2, ToggleType
  <2>2. CASE answer # "ok"
    BY <1>1, <1>2, <1>11, <2>2, RejectedType DEF AtHand
  <2> QED  BY <2>1, <2>2
<1>16. ToggleIsOurs'  BY <1>3, <1>15 DEF ToggleIsOurs, SameRun
<1>17. IInv'
  BY <1>2, <1>12, <1>13, <1>14, <1>15, <1>16, KeyStep
<1> QED  BY <1>14, <1>17

\* So does writing the marker of a stopped container's resource.
LEMMA StampStep ==
  ASSUME IInv, NEW k \in Domains, StampStopped(k)
  PROVE  IInv' /\ GoodWrite
<1> DEFINE current == Current(k)
           marked == [current EXCEPT !.marked = TRUE]
           stored == {r \in live : r.id = current.id}
           valid == /\ stored # {} /\ current.cfg \notin BadConfigs
                    /\ ~Clashes(run.kind, current.doms, current.id)
           written(old) == [marked EXCEPT !.enabled = old.enabled]
<1>1. AtHand(k)  BY KeyAtHand DEF StampStopped, At
<1>2. /\ TypeOK /\ run.phase = "key" /\ lastId \in Nat /\ live \subseteq Resources
  BY DEF StampStopped, At, IInv, TypeOK
<1>3. current \in run.listed /\ current \in Resources /\ MayTouch(current)
  BY <1>1, NotSkipped DEF StampStopped, AtHand, Proceeds, Settled, Ours
<1>4. WantEnabled(k) \in BOOLEAN
  BY <1>1, <1>3 DEF WantEnabled, AtHand, Targets, Definitions, Resources
<1> HIDE DEF current
<1>5. marked \in Resources /\ marked.id = current.id /\ current.id \in Nat
  BY <1>3 DEF Resources
<1>6. Fingerprint(marked) \in Fingerprints
  BY <1>5 DEF Resources, Fingerprint, Fingerprints
<1> HIDE DEF marked
<1>7. \A old \in live : written(old) \in Resources /\ written(old).id = current.id
  BY <1>2, <1>5 DEF Resources
<1>8. valid \in BOOLEAN  OBVIOUS
<1> HIDE DEF written, valid
<1>9. PICK answer \in Answers(valid) :
        /\ Charge(answer, valid)
        /\ \/ answer = "rejected" /\ UNCHANGED live
           \/ \E old \in stored : live' = Overwrite(old.id, written(old))
        /\ \/ Toggle(k, current.id, Fingerprint(marked), current.enabled,
                     WantEnabled(k), FALSE)
           \/ Decided(k, {}, TRUE) /\ failures' = Forgiven(k)
  BY DEF StampStopped, written, valid, marked, current
<1>10. budget' \in Budgets  BY <1>2, <1>8, <1>9, ChargeType
<1>11. UNCHANGED <<outside, lastId, cache, stoppedFor, status>>  BY DEF StampStopped
<1>12. /\ live' \subseteq Resources /\ \A q \in live' : q.id <= lastId'
       /\ GoodWrite
  <2>1. CASE UNCHANGED live  BY <1>11, <2>1, NoWriteIsGood
  <2>2. ASSUME NEW old \in stored, live' = Overwrite(old.id, written(old))
        PROVE  /\ live' \subseteq Resources /\ \A q \in live' : q.id <= lastId'
               /\ GoodWrite
    BY <1>3, <1>7, <1>11, <2>2, OverwriteIsGood
  <2> QED  BY <1>9, <2>1, <2>2
<1>13. /\ run' \in Runs /\ run'.phase \in {"key", "toggle"} /\ SameRun
       /\ run'.todo \subseteq run.todo /\ failures' \subseteq Failures
       /\ run'.phase = "toggle" => run'.todo # {} /\ run'.toggle.id = current.id
  <2> DEFINE fp == Fingerprint(marked)
  <2>1. fp \in Fingerprints  BY <1>6
  <2>2. run.todo # {} /\ Hash(k) \in Fingerprints  BY <1>1 DEF AtHand
  <2>3. CASE Toggle(k, current.id, fp, current.enabled, WantEnabled(k), FALSE)
    <3> HIDE DEF fp
    <3> QED  BY <1>2, <1>4, <1>5, <2>1, <2>2, <2>3, ToggleType
  <2>4. CASE Decided(k, {}, TRUE) /\ failures' = Forgiven(k)
    BY <1>2, <2>2, <2>4, DecidedType, BackoffInHand
  <2> QED  BY <1>9, <2>3, <2>4
<1>14. ToggleIsOurs'  BY <1>3, <1>13 DEF ToggleIsOurs, SameRun
<1>15. IInv'
  BY <1>2, <1>10, <1>11, <1>12, <1>13, <1>14, KeyStep
<1> QED  BY <1>12, <1>15

\* Enabling and disabling reach the resource in the toggle step only.
LEMMA SetEnabledStep ==
  ASSUME IInv, NEW k \in Domains, SetEnabled(k)
  PROVE  IInv' /\ GoodWrite
<1> DEFINE t == run.toggle
           valid == t.id \in IdsOf(live)
           flip(r) == IF r.id = t.id THEN [r EXCEPT !.enabled = t.want] ELSE r
<1>1. /\ TypeOK /\ run.phase = "toggle" /\ run.todo # {} /\ k = Min(run.todo)
      /\ lastId \in Nat /\ live \subseteq Resources
      /\ \A r \in live : r.id <= lastId
  BY DEF SetEnabled, IInv, TypeOK, RunIsConsistent, IdsBounded
<1>2. AtHand(k)  BY <1>1, KeyAtHand
<1>3. t.entry \in SUBSET Entries /\ t.want \in BOOLEAN
  BY <1>1 DEF TypeOK, Runs
<1>4. \A r \in live : flip(r) \in Resources /\ flip(r).id = r.id
  BY <1>1, <1>3 DEF Resources
<1>5. valid \in BOOLEAN  OBVIOUS
<1> HIDE DEF valid, flip
<1>6. PICK answer \in Answers(valid) :
        /\ Charge(answer, valid)
        /\ live' = live \/ live' = {flip(r) : r \in live}
        /\ \/ Decided(k, t.entry, FALSE) /\ failures' = Cleared(k)
           \/ Decided(k, {}, TRUE) /\ failures' \in {failures, BackedOff(k)}
  BY DEF SetEnabled, flip, valid
<1>7. budget' \in Budgets  BY <1>1, <1>5, <1>6, ChargeType
<1>8. UNCHANGED <<outside, lastId, cache, stoppedFor, status>>  BY DEF SetEnabled
<1>9. /\ run' \in Runs /\ run'.phase = "key" /\ SameRun
      /\ run'.todo \subseteq run.todo /\ failures' \subseteq Failures
  <2>1. /\ Cleared(k) \subseteq Failures /\ BackedOff(k) \subseteq Failures
        /\ failures \subseteq Failures
    BY <1>1, <1>2, BackoffInHand DEF AtHand, TypeOK
  <2> QED  BY <1>1, <1>3, <1>6, <2>1, DecidedType
<1>10. ToggleIsOurs'  BY <1>9 DEF ToggleIsOurs
<1>11. live' \subseteq Resources /\ \A q \in live' : q.id <= lastId'
  BY <1>1, <1>4, <1>6, <1>8
<1>12. IInv'
  BY <1>1, <1>7, <1>8, <1>9, <1>10, <1>11, KeyStep
<1>13. Removed = {}
  BY <1>4, <1>6 DEF Removed
<1>14. TouchesItsOwn
  <2> SUFFICES ASSUME NEW r \in live, r \notin live'
               PROVE  \/ \E l \in run.listed : l.id = r.id /\ MayTouch(l)
                      \/ r.by = "us" /\ r.id \notin IdsOf(run.listed)
    BY DEF TouchesItsOwn
  <2>1. r.id = t.id
    <3>1. flip(r) # r  BY <1>6
    <3> QED  BY <3>1 DEF flip
  <2> QED  BY <1>1, <2>1 DEF IInv, RunIsConsistent, ToggleIsOurs
<1> QED  BY <1>12, <1>13, <1>14 DEF GoodWrite

---------------------------------------------------------------------------
(* The frame of a run.                                                     *)

\* While nothing is being toggled or deleted, few parts are left to show.
LEMMA PlainRun ==
  ASSUME TypeOK', IdsBounded', TodoIsWanted', SnapshotIsCurrent',
         run'.phase # "toggle", run'.victims = {},
         run'.deletes => DeleteOrphans /\ ~run'.final
  PROVE  IInv'
BY DEF IInv, RunIsConsistent, ToggleIsOurs, VictimsAreOrphans

\* The run between two runs is well formed and holds nothing.
LEMMA IdleRunType ==
  /\ IdleRun \in Runs /\ IdleRun.phase = "idle" /\ IdleRun.victims = {}
  /\ IdleRun.listed = {} /\ IdleRun.deletes = FALSE
<1>1. 1 \in Kinds  BY KindsAssumption DEF Kinds
<1> QED  BY <1>1 DEF IdleRun, NoToggle, Nobody, Runs

\* A run that begins with what a snapshot shows is a run.
LEMMA BegunType ==
  ASSUME NEW final \in BOOLEAN, NEW D \in BOOLEAN, NEW T \in SUBSET Targets,
         NEW P \in SUBSET Containers, NEW N \in BOOLEAN
  PROVE  [IdleRun EXCEPT !.phase = "list", !.final = final, !.deletes = D,
            !.targets = T, !.prot = P, !.none = N] \in Runs
<1>1. 1 \in Kinds  BY KindsAssumption DEF Kinds
<1> QED  BY <1>1 DEF IdleRun, NoToggle, Nobody, Runs

\* Dropping a run is always consistent.
LEMMA BackToIdle ==
  ASSUME TypeOK', IInv, run' = IdleRun, UNCHANGED server
  PROVE  IInv'
<1>1. \A r \in live' : r.id <= lastId'
  BY DEF IInv, RunIsConsistent, IdsBounded, server
<1>2. /\ IdsBounded' /\ TodoIsWanted' /\ SnapshotIsCurrent'
  BY <1>1, IdleRunType DEF IdsBounded, TodoIsWanted, SnapshotIsCurrent
<1> QED  BY <1>2, IdleRunType, PlainRun

\* The snapshot consists of targets.
LEMMA TargetsOfType ==
  ASSUME TypeOK, NEW seen \in SUBSET Containers
  PROVE  TargetsOf(seen) \in SUBSET Targets
<1> SUFFICES ASSUME NEW t \in TargetsOf(seen) PROVE t \in Targets
  OBVIOUS
<1>1. PICK c \in seen : t \in [def : LabelsOf[c].defs, cid : {c},
                              running : {docker[c] = "running"}]
  BY DEF TargetsOf
<1>2. LabelsOf[c].defs \subseteq Definitions /\ (docker[c] = "running") \in BOOLEAN
  BY LabelsAssumption
<1> QED  BY <1>1, <1>2 DEF Targets

\* A fresh snapshot knows every container as it is, and the age of every stopped
\* one.
LEMMA StartStep ==
  ASSUME IInv, NEW final \in BOOLEAN, StartRun(final)
  PROVE  IInv' /\ UNCHANGED live
<1>1. PICK seen \in {Present, {}} :
        /\ budget' = budget \/ (budget.faults > 0 /\
                                budget' = [budget EXCEPT !.faults = @ - 1])
        /\ TrackStopped(TargetsOf(seen))
        /\ run' = [IdleRun EXCEPT
             !.phase = "list", !.final = final, !.deletes = MayDelete(final),
             !.targets = TargetsOf(seen),
             !.prot = {c \in seen : LabelsOf[c].bad}, !.none = (seen = {})]
  BY DEF StartRun
<1>2. /\ TypeOK /\ seen \in SUBSET Containers
      /\ TargetsOf(seen) \in SUBSET Targets
  BY TargetsOfType DEF IInv, Present
<1>3. MayDelete(final) \in BOOLEAN  BY OptionsAssumption DEF MayDelete
<1>4. /\ run' \in Runs /\ run'.phase = "list" /\ run'.victims = {}
      /\ run'.listed = {} /\ run'.targets = TargetsOf(seen)
      /\ run'.deletes = MayDelete(final) /\ run'.final = final
      /\ run'.prot = {c \in seen : LabelsOf[c].bad} /\ run'.none = (seen = {})
  <2> DEFINE T == TargetsOf(seen)
             P == {c \in seen : LabelsOf[c].bad}
             D == MayDelete(final)
  <2>1. T \in SUBSET Targets /\ P \in SUBSET Containers /\ D \in BOOLEAN
    BY <1>2, <1>3
  <2>2. run' = [IdleRun EXCEPT !.phase = "list", !.final = final, !.deletes = D,
                 !.targets = T, !.prot = P, !.none = (seen = {})]
    BY <1>1
  <2> HIDE DEF T, P, D
  <2> DEFINE N == (seen = {})
  <2>3. N \in BOOLEAN /\ run' = [IdleRun EXCEPT !.phase = "list", !.final = final,
                !.deletes = D, !.targets = T, !.prot = P, !.none = N]
    BY <2>2
  <2> HIDE DEF N
  <2>4. run' \in Runs
    BY <2>1, <2>3, BegunType
  <2>5. /\ run'.phase = "list" /\ run'.targets = T /\ run'.deletes = D
        /\ run'.final = final /\ run'.prot = P /\ run'.none = N
        /\ run'.victims = IdleRun.victims /\ run'.listed = IdleRun.listed
    BY <2>3, IdleRunType DEF Runs
  <2>6. IdleRun.victims = {} /\ IdleRun.listed = {}
    BY DEF IdleRun
  <2> QED  BY <2>4, <2>5, <2>6 DEF T, P, D, N
<1>5. UNCHANGED <<docker, server, proc, cache, failures, status>> /\ changed' = {}
  BY DEF StartRun
<1>6. stoppedFor' \in [Containers -> {NotSeen} \cup 0..StopGrace]
  BY <1>1, <1>2, OptionsAssumption DEF TrackStopped, TypeOK, NotSeen
<1>7. budget' \in Budgets  BY <1>1, <1>2 DEF TypeOK, Budgets
<1>8. TypeOK'  BY <1>2, <1>4, <1>5, <1>6, <1>7 DEF TypeOK, server
<1>9. SnapshotIsCurrent'
  <2>1. ASSUME NEW c \in Known'
        PROVE  /\ \A d \in LabelsOf[c].defs :
                    [def |-> d, cid |-> c, running |-> docker'[c] = "running"]
                      \in run'.targets
               /\ LabelsOf[c].bad => c \in run'.prot
    <3>1. c \in Present /\ seen = Present  BY <1>1, <1>4, <1>5 DEF Known, Present
    <3> QED  BY <1>4, <1>5, <3>1 DEF TargetsOf
  <2>2. ASSUME NEW t \in run'.targets PROVE t.running \/ stoppedFor'[t.cid] # NotSeen
    <3>1. t \in TargetsOf(seen) /\ t.cid \in Containers
      BY <1>2, <1>4 DEF Targets
    <3> QED  BY <1>1, <1>2, <3>1 DEF TrackStopped, NotSeen
  <2> QED  BY <2>1, <2>2 DEF SnapshotIsCurrent
<1>10. IdsBounded' /\ TodoIsWanted'
  BY <1>4, <1>5 DEF IInv, RunIsConsistent, IdsBounded, TodoIsWanted, server
<1>11. MayDelete(final) => DeleteOrphans /\ ~final  BY DEF MayDelete
<1> QED  BY <1>4, <1>5, <1>8, <1>9, <1>10, <1>11, PlainRun DEF server

\* A failed snapshot starts nothing.
LEMMA SnapshotFailsStep ==
  ASSUME IInv, NEW final \in BOOLEAN, SnapshotFails(final)
  PROVE  IInv' /\ UNCHANGED live
<1>1. /\ UNCHANGED <<docker, live, lastId, run, memory, changed>>
      /\ proc' \in {"down", proc} /\ run.phase = "idle"
      /\ status' = [ran |-> TRUE, err |-> TRUE, failed |-> FALSE, blocked |-> FALSE]
      /\ \/ budget' = budget
         \/ budget.faults > 0 /\ budget' = [budget EXCEPT !.faults = @ - 1]
  BY DEF SnapshotFails, server, Idle
<1>2. budget' \in Budgets  BY <1>1 DEF IInv, TypeOK, Budgets
<1>3. TypeOK'  BY <1>1, <1>2 DEF IInv, TypeOK, memory, Statuses
<1>4. run.victims = {}  BY <1>1 DEF IInv, RunIsConsistent, VictimsAreOrphans
<1>5. IdsBounded' /\ TodoIsWanted' /\ SnapshotIsCurrent'
  BY <1>1 DEF IInv, RunIsConsistent, IdsBounded, TodoIsWanted, SnapshotIsCurrent
<1>6. run.deletes => DeleteOrphans /\ ~run.final
  BY DEF IInv, RunIsConsistent, VictimsAreOrphans
<1> QED  BY <1>1, <1>3, <1>4, <1>5, <1>6, PlainRun

\* From one collection to the next.
LEMMA AfterKindType ==
  ASSUME NEW r \in Runs
  PROVE  /\ AfterKind(r) \in Runs /\ AfterKind(r).phase \in {"decide", "list"}
         /\ AfterKind(r).victims = r.victims /\ AfterKind(r).listed = r.listed
         /\ AfterKind(r).targets = r.targets /\ AfterKind(r).prot = r.prot
         /\ AfterKind(r).none = r.none /\ AfterKind(r).deletes = r.deletes
         /\ AfterKind(r).final = r.final
<1>1. r.kind # LastKind => r.kind + 1 \in Kinds
  BY KindsAssumption DEF Kinds, Runs
<1> QED  BY <1>1 DEF AfterKind, Runs

\* Steps that leave server, snapshot and ages alone.
LEMMA QuietRunStep ==
  ASSUME IInv, run.phase \notin {"idle", "delete"},
         run' \in Runs, run'.phase \in {"list", "key", "decide"},
         run'.phase = "key" => run'.todo \subseteq Wanted(run'.kind),
         run'.victims = run.victims, run'.targets = run.targets,
         run'.prot = run.prot, run'.none = run.none, run'.deletes = run.deletes,
         run'.final = run.final,
         \A l \in run'.listed : l.id <= lastId,
         cache' \subseteq Entries, budget' \in Budgets,
         UNCHANGED <<outside, server, failures, stoppedFor, status>>
  PROVE  IInv'
<1>1. TypeOK'  BY DEF IInv, TypeOK, outside, server
<1>2. IdsBounded'  BY DEF IInv, RunIsConsistent, IdsBounded, server
<1>3. TodoIsWanted'
  BY SameWanted DEF TodoIsWanted
<1>4. SnapshotIsCurrent'
  BY DEF IInv, RunIsConsistent, SnapshotIsCurrent, outside, Known, Present
<1>5. run'.victims = {} /\ (run'.deletes => DeleteOrphans /\ ~run'.final)
  BY DEF IInv, RunIsConsistent, VictimsAreOrphans
<1> QED  BY <1>1, <1>2, <1>3, <1>4, <1>5, PlainRun

\* Keys in demand are domains.
LEMMA WantedInDomains ==
  ASSUME TypeOK, NEW kind
  PROVE  Wanted(kind) \subseteq Domains
<1>1. \A t \in ActiveTargets(kind) : t.def.doms \in DomainSets
  BY DEF TypeOK, Runs, Targets, Definitions, ActiveTargets
<1> QED  BY <1>1, KeyInDomains DEF Wanted

\* Listing a collection, or going on to the next one, writes nothing.
LEMMA CollectionSteps ==
  ASSUME IInv, ListKind \/ SkipKind \/ ListFails \/ FinishKind
  PROVE  IInv' /\ UNCHANGED live
<1>1. /\ run \in Runs /\ live \subseteq Resources /\ cache \subseteq Entries
      /\ budget \in Budgets /\ TypeOK
      /\ \A l \in run.listed \cup live : l.id <= lastId
  BY DEF IInv, TypeOK, RunIsConsistent, IdsBounded
<1>2. CASE ListKind
  <2> DEFINE W == Wanted(run.kind)
             L == run.listed \cup {r \in live : r.kind = run.kind}
  <2>1. run' = [run EXCEPT !.phase = "key", !.todo = W, !.next = {}, !.listed = L]
    BY <1>2 DEF ListKind
  <2>2. /\ W \in SUBSET Domains /\ L \in SUBSET Resources
        /\ \A l \in L : l.id <= lastId
    BY <1>1, WantedInDomains DEF Runs
  <2>3. W = Wanted(run.kind)  OBVIOUS
  <2> HIDE DEF W, L
  <2>4. /\ run' \in Runs /\ run'.phase = "key" /\ run'.todo = W
        /\ run'.kind = run.kind /\ run'.victims = run.victims
        /\ run'.targets = run.targets /\ run'.prot = run.prot
        /\ run'.none = run.none /\ run'.deletes = run.deletes
        /\ run'.final = run.final /\ run'.listed = L
    BY <1>1, <2>1, <2>2 DEF Runs
  <2>5. /\ UNCHANGED <<outside, server, memory, status, budget>>
        /\ run.phase = "list"
    BY <1>2 DEF ListKind
  <2> QED  BY <1>1, <2>2, <2>3, <2>4, <2>5, QuietRunStep DEF memory, server
<1>3. CASE SkipKind
  <2>1. /\ run' = AfterKind(run) /\ run.phase = "list"
        /\ UNCHANGED <<outside, server, memory, status, budget>>
    BY <1>3 DEF SkipKind
  <2> QED  BY <1>1, <2>1, AfterKindType, QuietRunStep DEF memory, server
<1>4. CASE ListFails
  <2> DEFINE r == [run EXCEPT !.fatal = TRUE]
  <2>1. /\ run' = AfterKind(r) /\ run.phase = "list"
        /\ UNCHANGED <<outside, server, memory, status>>
        /\ \/ budget' = budget
           \/ budget.faults > 0 /\ budget' = [budget EXCEPT !.faults = @ - 1]
    BY <1>4 DEF ListFails
  <2>2. budget' \in Budgets  BY <1>1, <2>1 DEF Budgets
  <2>3. /\ r \in Runs /\ r.victims = run.victims /\ r.listed = run.listed
        /\ r.targets = run.targets /\ r.prot = run.prot /\ r.none = run.none
        /\ r.deletes = run.deletes /\ r.final = run.final
    BY <1>1 DEF Runs
  <2> HIDE DEF r
  <2> QED  BY <1>1, <2>1, <2>2, <2>3, AfterKindType, QuietRunStep DEF memory, server
<1>5. CASE FinishKind
  <2> DEFINE r == [run EXCEPT !.next = {}]
  <2>1. /\ run' = AfterKind(r) /\ run.phase = "key"
        /\ UNCHANGED <<outside, server, failures, stoppedFor, status, budget>>
        /\ cache' = {e \in cache : e.kind # run.kind} \cup run.next
    BY <1>5 DEF FinishKind
  <2>2. cache' \subseteq Entries  BY <1>1, <2>1 DEF Runs
  <2>3. /\ r \in Runs /\ r.victims = run.victims /\ r.listed = run.listed
        /\ r.targets = run.targets /\ r.prot = run.prot /\ r.none = run.none
        /\ r.deletes = run.deletes /\ r.final = run.final
    BY <1>1 DEF Runs
  <2> HIDE DEF r
  <2> QED  BY <1>1, <2>1, <2>2, <2>3, AfterKindType, QuietRunStep DEF server
<1> QED  BY <1>2, <1>3, <1>4, <1>5

---------------------------------------------------------------------------
(* Deletions.                                                              *)

\* Deciding what goes: orphans are listed resources of this instance that no
\* target of the run claims and no unreadable container protects.
LEMMA DecideStep ==
  ASSUME IInv, Decide
  PROVE  IInv' /\ UNCHANGED live
<1>1. /\ UNCHANGED <<docker, live, lastId, cache, failures, stoppedFor, changed, budget>>
      /\ run.phase = "decide" /\ run \in Runs /\ proc \in {"up", "stopping", "down"}
  BY DEF Decide, server, memory, IInv, TypeOK
<1>2. CASE Orphans # {} /\ run.deletes /\ ~Guarded
  <2> DEFINE O == Orphans
  <2>1. run' = [run EXCEPT !.phase = "delete", !.victims = O]
        /\ UNCHANGED <<status, proc>>
    BY <1>2 DEF Decide
  <2>2. \A v \in O : /\ v \in run.listed /\ OfThisInstance(v)
                     /\ Key(v) \notin Wanted(v.kind) /\ ~Protected(v)
    BY DEF Orphans, Owns, OfThisInstance
  <2>3. O \in SUBSET Resources  BY <1>1, <2>2 DEF Runs
  <2> HIDE DEF O
  <2>4. /\ run' \in Runs /\ run'.phase = "delete" /\ run'.victims = O
        /\ run'.deletes = run.deletes /\ run'.final = run.final
        /\ run'.targets = run.targets /\ run'.prot = run.prot
        /\ run'.none = run.none /\ run'.listed = run.listed
    BY <1>1, <2>1, <2>3 DEF Runs
  <2>5. TypeOK'  BY <1>1, <2>1, <2>4 DEF IInv, TypeOK
  <2>6. /\ \A kind : Wanted(kind)' = Wanted(kind)
        /\ \A r : Protected(r)' = Protected(r)
    BY <1>1, <2>4, SameWanted
  <2>7. VictimsAreOrphans'
    BY <1>2, <2>2, <2>4, <2>6
       DEF IInv, RunIsConsistent, VictimsAreOrphans, OfThisInstance
  <2>8. SnapshotIsCurrent'
    BY <1>1, <2>4
       DEF IInv, RunIsConsistent, SnapshotIsCurrent, Known, Present
  <2>9. IdsBounded' /\ TodoIsWanted' /\ ToggleIsOurs'
    BY <1>1, <2>4
       DEF IInv, RunIsConsistent, IdsBounded, TodoIsWanted, ToggleIsOurs
  <2> QED  BY <1>1, <2>5, <2>7, <2>8, <2>9 DEF IInv, RunIsConsistent
<1>3. CASE ~(Orphans # {} /\ run.deletes /\ ~Guarded)
  <2>1. Finish(Orphans # {} /\ run.deletes)  BY <1>3 DEF Decide
  <2>2. run' = IdleRun /\ status' \in Statuses /\ proc' \in {"down", proc}
    BY <1>1, <2>1 DEF Finish, Statuses, Runs
  <2>3. TypeOK'  BY <1>1, <2>2, IdleRunType DEF IInv, TypeOK
  <2> QED  BY <1>1, <2>2, <2>3, BackToIdle DEF server
<1> QED  BY <1>2, <1>3

\* Every step on a resource that leaves the listing of this run as it was.
SafeRemoval == TouchesItsOwn /\ RemovesOrphans /\ RemovesUnprotected

\* An orphan of the run claims no key of a container the run knows, unless the
\* policy for stopped containers gives it up.
LEMMA OrphanIsUnclaimed ==
  ASSUME IInv, run.phase # "idle", NEW o \in run.victims, NEW c \in Known
  PROVE  /\ Defines(c, o.kind, Key(o)) => MayLoseHosts(c)
         /\ LabelsOf[c].bad => o.name # NameOf[c] /\ o.cid # c
<1>1. /\ Key(o) \notin Wanted(o.kind) /\ ~Protected(o)
      /\ \A d \in LabelsOf[c].defs :
           [def |-> d, cid |-> c, running |-> docker[c] = "running"] \in run.targets
      /\ LabelsOf[c].bad => c \in run.prot
      /\ \A t \in run.targets : t.running \/ stoppedFor[t.cid] # NotSeen
  BY DEF IInv, RunIsConsistent, VictimsAreOrphans, SnapshotIsCurrent
<1>2. c \in Containers /\ docker[c] \in {"running", "stopped"}
  BY DEF Known, Present
<1>3. ASSUME NEW d \in LabelsOf[c].defs, d.kind = o.kind, Key(d) = Key(o)
      PROVE  MayLoseHosts(c)
  <2> DEFINE t == [def |-> d, cid |-> c, running |-> docker[c] = "running"]
  <2>1. t \in run.targets /\ t.def = d /\ t.cid = c
        /\ t.running = (docker[c] = "running")
    BY <1>1
  <2> HIDE DEF t
  <2>2. t \notin ActiveTargets(o.kind)  BY <1>1, <1>3, <2>1 DEF Wanted
  <2>3. OnStop = "delete" /\ ~t.running /\ ~InGrace(t)
    BY <1>3, <2>1, <2>2 DEF ActiveTargets
  <2>4. docker[c] = "stopped"  BY <1>2, <2>1, <2>3
  <2>5. stoppedFor[c] \in 0..StopGrace
    BY <1>1, <1>2, <2>1, <2>3 DEF IInv, TypeOK
  <2>6. StopGrace \in Nat  BY OptionsAssumption
  <2>7. stoppedFor[c] >= StopGrace  BY <2>1, <2>3, <2>5, <2>6 DEF InGrace
  <2> QED  BY <2>3, <2>4, <2>7 DEF MayLoseHosts
<1> QED  BY <1>1, <1>3 DEF Defines, Protected

\* The orphan whose turn it is: the first by collection and key.
LEMMA VictimChosen ==
  ASSUME TypeOK, run.victims # {}
  PROVE  \E o \in run.victims : \A v \in run.victims :
           o.kind < v.kind \/ (o.kind = v.kind /\ Key(o) <= Key(v))
<1>1. \A v \in run.victims : v.kind \in Nat /\ Key(v) \in Nat
  <2>1. \A v \in run.victims : v.kind \in Kinds /\ v.doms \in DomainSets
    BY DEF TypeOK, Runs, Resources
  <2>2. Kinds \subseteq Nat /\ Domains \subseteq Nat
    BY KindsAssumption, DataAssumption DEF Kinds
  <2> QED  BY <2>1, <2>2, KeyInDomains
<1> DEFINE kinds == {v.kind : v \in run.victims}
<1>2. \E i \in kinds : \A j \in kinds : i <= j
  <2>1. kinds \subseteq Nat /\ kinds # {}  BY <1>1
  <2> QED  BY <2>1, MinInSet
<1>3. PICK s \in run.victims : \A v \in run.victims : s.kind <= v.kind
  BY <1>2
<1> DEFINE same == {v \in run.victims : v.kind = s.kind}
           keys == {Key(v) : v \in same}
<1>4. \E i \in keys : \A j \in keys : i <= j
  <2>1. keys \subseteq Nat /\ keys # {}  BY <1>1
  <2> QED  BY <2>1, MinInSet
<1>5. PICK o \in same : \A v \in same : Key(o) <= Key(v)  BY <1>4
<1>6. ASSUME NEW v \in run.victims
      PROVE  o.kind < v.kind \/ (o.kind = v.kind /\ Key(o) <= Key(v))
  <2>1. o.kind = s.kind /\ s.kind <= v.kind  BY <1>3, <1>5
  <2>2. CASE v.kind = s.kind
    <3>1. v \in same  BY <2>2
    <3> QED  BY <1>5, <2>1, <2>2, <3>1
  <2>3. CASE v.kind # s.kind  BY <1>1, <2>1, <2>3
  <2> QED  BY <2>2, <2>3
<1> QED  BY <1>5, <1>6

\* One deletion.
LEMMA DeleteStep ==
  ASSUME IInv, DeleteOrphan
  PROVE  IInv' /\ SafeRemoval
<1> DEFINE o == CHOOSE o \in run.victims : \A v \in run.victims :
                  o.kind < v.kind \/ (o.kind = v.kind /\ Key(o) <= Key(v))
<1>1. TypeOK /\ run.victims # {} /\ run.phase = "delete" /\ run \in Runs
  BY DEF DeleteOrphan, IInv, TypeOK
<1>2. o \in run.victims  BY <1>1, VictimChosen
<1>3. PICK answer \in Answers(TRUE) :
        /\ Charge(answer, TRUE)
        /\ live' = live \/ live' = {r \in live : r.id # o.id}
        /\ run' = [run EXCEPT !.victims = @ \ {o}, !.failed = @ \/ answer # "ok"]
  BY DEF DeleteOrphan
<1> HIDE DEF o
<1>4. UNCHANGED <<outside, lastId, cache, failures, stoppedFor, status>>
  BY DEF DeleteOrphan, memory
<1>5. budget' \in Budgets  BY <1>1, <1>3, ChargeType
<1>6. /\ run' \in Runs /\ run'.phase = "delete"
      /\ run'.victims \subseteq run.victims
      /\ run'.deletes = run.deletes /\ run'.final = run.final
      /\ run'.targets = run.targets /\ run'.prot = run.prot
      /\ run'.none = run.none /\ run'.listed = run.listed
  BY <1>1, <1>3 DEF Runs
<1>7. IInv'
  <2>1. TypeOK'  BY <1>1, <1>3, <1>4, <1>5, <1>6 DEF TypeOK, outside
  <2>2. /\ \A kind : Wanted(kind)' = Wanted(kind)
        /\ \A r : Protected(r)' = Protected(r)
    BY <1>4, <1>6, SameWanted
  <2>3. VictimsAreOrphans'
    BY <1>1, <1>6, <2>2
       DEF IInv, RunIsConsistent, VictimsAreOrphans, OfThisInstance
  <2>4. SnapshotIsCurrent'
    <3>1. UNCHANGED <<docker, changed>>  BY <1>4 DEF outside
    <3>2. Known' = Known  BY <1>6, <3>1 DEF Known, Present
    <3> QED  BY <1>1, <1>4, <1>6, <3>1, <3>2
             DEF IInv, RunIsConsistent, SnapshotIsCurrent
  <2>5. IdsBounded'
    BY <1>3, <1>4, <1>6 DEF IInv, RunIsConsistent, IdsBounded
  <2>6. TodoIsWanted' /\ ToggleIsOurs'
    BY <1>6 DEF TodoIsWanted, ToggleIsOurs
  <2> QED  BY <2>1, <2>3, <2>4, <2>5, <2>6 DEF IInv, RunIsConsistent
<1>8. /\ o \in run.listed /\ OfThisInstance(o) /\ DeleteOrphans /\ ~run.final
  BY <1>2 DEF IInv, RunIsConsistent, VictimsAreOrphans
<1>9. \A r \in live : r \notin live' => r.id = o.id  BY <1>3
<1>10. \A r \in Removed : r \in live /\ r.id = o.id
  <2>1. \A r \in Removed : r \in live /\ r \notin live'  BY DEF Removed
  <2> QED  BY <1>9, <2>1
<1>11. TouchesItsOwn  BY <1>8, <1>9 DEF TouchesItsOwn, MayTouch
<1>12. RemovesOrphans
  BY <1>1, <1>2, <1>8, <1>10, OrphanIsUnclaimed DEF RemovesOrphans
<1>13. RemovesUnprotected
  BY <1>1, <1>2, <1>8, <1>10, OrphanIsUnclaimed DEF RemovesUnprotected
<1> QED  BY <1>7, <1>11, <1>12, <1>13 DEF SafeRemoval

\* The end of a run that deleted.
LEMMA FinishRunStep ==
  ASSUME IInv, FinishRun
  PROVE  IInv' /\ UNCHANGED live
<1>1. /\ UNCHANGED <<docker, live, lastId, cache, failures, stoppedFor, changed, budget>>
      /\ run \in Runs /\ proc \in {"up", "stopping", "down"} /\ Finish(FALSE)
  BY DEF FinishRun, server, memory, IInv, TypeOK
<1>2. run' = IdleRun /\ status' \in Statuses /\ proc' \in {"down", proc}
  BY <1>1 DEF Finish, Statuses, Runs
<1>3. TypeOK'  BY <1>1, <1>2, IdleRunType DEF IInv, TypeOK
<1> QED  BY <1>1, <1>2, <1>3, BackToIdle DEF server

---------------------------------------------------------------------------
(* The process and the clock.                                              *)

\* A process that starts over has nothing in hand.
LEMMA ProcessSteps ==
  ASSUME IInv, Shutdown \/ Crash \/ Restart
  PROVE  IInv' /\ UNCHANGED live
<1>1. CASE Shutdown
  <2>1. /\ UNCHANGED <<docker, server, worker, changed>> /\ proc' = "stopping"
        /\ budget.crashes > 0 /\ budget' = [budget EXCEPT !.crashes = @ - 1]
    BY <1>1 DEF Shutdown
  <2>2. budget' \in Budgets  BY <2>1 DEF IInv, TypeOK, Budgets
  <2>3. TypeOK'  BY <2>1, <2>2 DEF IInv, TypeOK, server, worker, memory
  <2>4. /\ UNCHANGED <<docker, live, lastId, run, stoppedFor, changed>>
    BY <2>1 DEF server, worker, memory
  <2>5. RunIsConsistent'
    <3>1. /\ \A kind : Wanted(kind)' = Wanted(kind)
          /\ \A r : Protected(r)' = Protected(r)
      BY <2>4, SameWanted
    <3> QED
      BY <2>4, <3>1 DEF IInv, RunIsConsistent, IdsBounded, TodoIsWanted,
         ToggleIsOurs, VictimsAreOrphans, SnapshotIsCurrent, Known, Present
  <2> QED  BY <2>3, <2>4, <2>5 DEF IInv
<1>2. CASE Crash \/ Restart
  <2>1. /\ Forget /\ UNCHANGED <<docker, live, lastId, changed>>
        /\ proc' \in {"up", "down"}
        /\ \/ budget' = budget
           \/ budget.crashes > 0 /\ budget' = [budget EXCEPT !.crashes = @ - 1]
    BY <1>2 DEF Crash, Restart, server
  <2>2. budget' \in Budgets  BY <2>1 DEF IInv, TypeOK, Budgets
  <2>3. /\ run' = IdleRun /\ cache' \subseteq Entries /\ failures' \subseteq Failures
        /\ stoppedFor' \in [Containers -> {NotSeen} \cup 0..StopGrace]
        /\ status' \in Statuses
    BY <2>1 DEF Forget, Statuses
  <2>4. TypeOK'  BY <2>1, <2>2, <2>3, IdleRunType DEF IInv, TypeOK
  <2> QED  BY <2>1, <2>3, <2>4, BackToIdle DEF server
<1> QED  BY <1>1, <1>2

\* Time passes between runs.
LEMMA TickStep ==
  ASSUME IInv, Tick
  PROVE  IInv' /\ UNCHANGED live
<1>1. /\ run.phase = "idle"
      /\ UNCHANGED <<docker, proc, changed, live, lastId, run, cache, status, budget>>
      /\ stoppedFor' = [c \in Containers |->
           IF stoppedFor[c] \in 0..(StopGrace - 1) THEN stoppedFor[c] + 1
           ELSE stoppedFor[c]]
      /\ failures' = {IF f.wait > 0 THEN [f EXCEPT !.wait = @ - 1] ELSE f : f \in failures}
  BY DEF Tick, Idle, outside, server
<1>2. stoppedFor' \in [Containers -> {NotSeen} \cup 0..StopGrace]
  BY <1>1, OptionsAssumption DEF IInv, TypeOK, NotSeen
<1>3. failures' \subseteq Failures
  <2>1. ASSUME NEW f \in Failures, f.wait > 0
        PROVE  [f EXCEPT !.wait = @ - 1] \in Failures
    BY <2>1, OptionsAssumption DEF Failures
  <2> QED  BY <1>1, <2>1 DEF IInv, TypeOK
<1>4. TypeOK'  BY <1>1, <1>2, <1>3 DEF IInv, TypeOK
<1>5. IdsBounded' /\ TodoIsWanted' /\ SnapshotIsCurrent'
  BY <1>1 DEF IInv, RunIsConsistent, IdsBounded, TodoIsWanted, SnapshotIsCurrent
<1>6. run.victims = {} /\ (run.deletes => DeleteOrphans /\ ~run.final)
  BY <1>1 DEF IInv, RunIsConsistent, VictimsAreOrphans
<1> QED  BY <1>1, <1>4, <1>5, <1>6, PlainRun

---------------------------------------------------------------------------
(* Docker and everybody else.                                              *)

\* A container that changes is no longer one the run knows.
LEMMA DockerStep ==
  ASSUME IInv, NEW c \in Containers, NEW to \in ContainerStates,
         ContainerMoves(c, to)
  PROVE  IInv' /\ UNCHANGED live
<1>1. /\ UNCHANGED <<live, lastId, proc, run, cache, failures, stoppedFor, status>>
      /\ budget.docker > 0 /\ budget' = [budget EXCEPT !.docker = @ - 1]
      /\ docker' = [docker EXCEPT ![c] = to] /\ changed' = changed \cup {c}
  BY DEF ContainerMoves, worker, memory
<1>2. budget' \in Budgets  BY <1>1 DEF IInv, TypeOK, Budgets
<1>3. TypeOK'  BY <1>1, <1>2 DEF IInv, TypeOK
<1>4. \A b \in Known' : b \in Known /\ docker'[b] = docker[b]
  BY <1>1 DEF Known, Present, IInv, TypeOK
<1>5. SnapshotIsCurrent'
  BY <1>1, <1>4 DEF IInv, RunIsConsistent, SnapshotIsCurrent
<1>6. /\ \A kind : Wanted(kind)' = Wanted(kind)
      /\ \A r : Protected(r)' = Protected(r)
  BY <1>1, SameWanted
<1>7. IdsBounded' /\ TodoIsWanted' /\ ToggleIsOurs' /\ VictimsAreOrphans'
  BY <1>1, <1>6 DEF IInv, RunIsConsistent, IdsBounded, TodoIsWanted,
                    ToggleIsOurs, VictimsAreOrphans
<1> QED  BY <1>1, <1>3, <1>5, <1>7 DEF IInv, RunIsConsistent

\* Whatever others write, ids are never used twice and nobody changes who
\* created a resource.
LEMMA ForeignWrite ==
  ASSUME IInv, UNCHANGED <<outside, worker>>, budget' \in Budgets,
         live' \subseteq Resources, lastId' \in Nat, lastId <= lastId',
         \A r \in live' :
           \/ r.id = lastId' /\ lastId' = lastId + 1
           \/ \E q \in live : q.id = r.id /\ q.by = r.by
  PROVE  IInv'
<1>1. UNCHANGED <<docker, proc, changed, run, cache, failures, stoppedFor, status>>
  BY DEF outside, worker, memory
<1>2. TypeOK'  BY <1>1 DEF IInv, TypeOK
<1>3. /\ lastId \in Nat /\ \A q \in live \cup run.listed : q.id \in Nat /\ q.id <= lastId
  BY DEF IInv, TypeOK, Runs, Resources, RunIsConsistent, IdsBounded
<1>4. IdsBounded'  BY <1>1, <1>3 DEF IdsBounded
<1>5. ToggleIsOurs'
  <2>1. CASE \E l \in run.listed : l.id = run.toggle.id /\ MayTouch(l)
    BY <1>1, <2>1 DEF ToggleIsOurs, MayTouch, OfThisInstance
  <2>2. CASE /\ run.toggle.id <= lastId /\ run.toggle.id \notin IdsOf(run.listed)
             /\ \A r \in live : r.id = run.toggle.id => r.by = "us"
    <3>1. run.toggle.id \in Nat  BY DEF IInv, TypeOK, Runs
    <3>2. \A r \in live' : r.id = run.toggle.id => r.by = "us"
      BY <1>3, <2>2, <3>1
    <3>3. run.toggle.id <= lastId'  BY <1>3, <2>2, <3>1
    <3> QED  BY <1>1, <2>2, <3>2, <3>3 DEF ToggleIsOurs, IdsOf
  <2>3. CASE run.phase # "toggle"  BY <1>1, <2>3 DEF ToggleIsOurs
  <2> QED  BY <2>1, <2>2, <2>3 DEF IInv, RunIsConsistent, ToggleIsOurs
<1>6. /\ \A kind : Wanted(kind)' = Wanted(kind)
      /\ \A r : Protected(r)' = Protected(r)
  BY <1>1, SameWanted
<1>7. TodoIsWanted' /\ VictimsAreOrphans' /\ SnapshotIsCurrent'
  BY <1>1, <1>6 DEF IInv, RunIsConsistent, TodoIsWanted, VictimsAreOrphans,
                    SnapshotIsCurrent, Known, Present
<1> QED  BY <1>2, <1>4, <1>5, <1>7 DEF IInv, RunIsConsistent

\* Each write through the UI is paid for, so it is not the worker's.
LEMMA Spending ==
  ASSUME TypeOK, SpendUI
  PROVE  /\ budget' \in Budgets /\ ~ByWorker /\ UNCHANGED <<outside, worker>>
         /\ live \subseteq Resources /\ lastId \in Nat
<1>1. budget \in Budgets /\ live \subseteq Resources /\ lastId \in Nat
  BY DEF TypeOK
<1>2. /\ budget.ui > 0 /\ budget' = [budget EXCEPT !.ui = @ - 1]
      /\ UNCHANGED <<outside, worker>>
  BY DEF SpendUI
<1>3. budget.ui \in Nat /\ budget'.ui = budget.ui - 1  BY <1>1, <1>2 DEF Budgets
<1>4. budget' \in Budgets  BY <1>1, <1>2 DEF Budgets
<1> QED  BY <1>1, <1>2, <1>3, <1>4 DEF ByWorker

\* What people and other instances do to NPM.
LEMMA UISteps ==
  ASSUME IInv,
         \/ \E k \in OutsideKinds, d \in OutsideDomains, o \in {"hand", "peer"} :
              UICreate(k, d, o)
         \/ \E r \in live : UIEdit(r) \/ \E d \in OutsideDomains : UIMove(r, d)
         \/ MetaEmptied
  PROVE  IInv' /\ ~ByWorker
<1>1. SpendUI  BY DEF UICreate, UIEdit, UIMove, MetaEmptied
<1>2. /\ budget' \in Budgets /\ ~ByWorker /\ UNCHANGED <<outside, worker>>
      /\ live \subseteq Resources /\ lastId \in Nat
  BY <1>1, Spending DEF IInv
<1>3. \A D : D \in OutsideDomains => {D} \in DomainSets
  BY DataAssumption DEF DomainSets
<1>4. ASSUME NEW k \in OutsideKinds, NEW d \in OutsideDomains,
             NEW w \in {"hand", "peer"}, UICreate(k, d, w)
      PROVE  IInv'
  <2>1. PICK c \in Configs : live' = live \cup {
         [id |-> lastId + 1, kind |-> k, doms |-> {d}, cfg |-> c,
          enabled |-> TRUE, owner |-> w, marked |-> FALSE,
          prefix |-> Nobody, name |-> Nobody, cid |-> Nobody, index |-> 0,
          by |-> w]}
    BY <1>4 DEF UICreate
  <2>2. lastId' = lastId + 1  BY <1>4 DEF UICreate
  <2> DEFINE new == [id |-> lastId + 1, kind |-> k, doms |-> {d}, cfg |-> c,
          enabled |-> TRUE, owner |-> w, marked |-> FALSE,
          prefix |-> Nobody, name |-> Nobody, cid |-> Nobody, index |-> 0,
          by |-> w]
  <2>3. new \in Resources /\ new.id = lastId + 1
    BY <1>2, <1>3, KindsAssumption DEF Resources, Sendable, Owners, Nobody
  <2>4. live' = live \cup {new}  BY <2>1
  <2> HIDE DEF new
  <2> QED  BY <1>2, <2>2, <2>3, <2>4, ForeignWrite
<1>5. ASSUME NEW q \in live, NEW r \in Resources, r.id = q.id, r.by = q.by,
             live' = Overwrite(q.id, r), UNCHANGED lastId
      PROVE  IInv'
  BY <1>2, <1>5, ForeignWrite DEF Overwrite
<1>6. ASSUME NEW r \in live, UIEdit(r) PROVE IInv'
  <2>1. UNCHANGED lastId /\ r \in Resources  BY <1>2, <1>6 DEF UIEdit
  <2>2. CASE \E c \in Configs : live' = Overwrite(r.id, [r EXCEPT !.cfg = c])
    <3>1. PICK c \in Configs : live' = Overwrite(r.id, [r EXCEPT !.cfg = c])
      BY <2>2
    <3>2. /\ [r EXCEPT !.cfg = c] \in Resources
          /\ [r EXCEPT !.cfg = c].id = r.id /\ [r EXCEPT !.cfg = c].by = r.by
      BY <2>1 DEF Resources, Sendable
    <3> QED  BY <1>5, <2>1, <3>1, <3>2
  <2>3. CASE live' = Overwrite(r.id, [r EXCEPT !.enabled = ~r.enabled])
    <3>1. /\ [r EXCEPT !.enabled = ~r.enabled] \in Resources
          /\ [r EXCEPT !.enabled = ~r.enabled].id = r.id
          /\ [r EXCEPT !.enabled = ~r.enabled].by = r.by
      BY <2>1 DEF Resources
    <3> QED  BY <1>5, <2>1, <2>3, <3>1
  <2>4. CASE live' = live \ {r}  BY <1>2, <2>1, <2>4, ForeignWrite
  <2> QED  BY <1>6, <2>2, <2>3, <2>4 DEF UIEdit
<1>7. ASSUME NEW r \in live
      PROVE  Disowned(r) \in Resources /\ Disowned(r).id = r.id /\ Disowned(r).by = r.by
  BY <1>2 DEF Disowned, Resources, Owners, Nobody
<1>8. ASSUME NEW r \in live, NEW d \in OutsideDomains, UIMove(r, d) PROVE IInv'
  <2> DEFINE base == IF r.marked /\ d # Key(r) THEN Disowned(r) ELSE r
             moved == [base EXCEPT !.doms = {d}]
  <2>1. base \in Resources /\ base.id = r.id /\ base.by = r.by  BY <1>2, <1>7
  <2> HIDE DEF base
  <2>2. moved \in Resources /\ moved.id = r.id /\ moved.by = r.by
    BY <1>3, <2>1 DEF Resources
  <2>3. live' = Overwrite(r.id, moved) /\ UNCHANGED lastId
    BY <1>8 DEF UIMove, base
  <2> HIDE DEF moved
  <2> QED  BY <1>5, <2>2, <2>3
<1>9. CASE MetaEmptied
  <2>1. /\ live' = {IF r.marked THEN r ELSE Disowned(r) : r \in live}
        /\ UNCHANGED lastId
    BY <1>9 DEF MetaEmptied
  <2>2. \A r \in live' : r \in Resources /\ \E q \in live : q.id = r.id /\ q.by = r.by
    BY <1>2, <1>7, <2>1
  <2> QED  BY <1>2, <2>1, <2>2, ForeignWrite
<1> QED  BY <1>2, <1>4, <1>6, <1>8, <1>9

---------------------------------------------------------------------------
(* The theorems.                                                           *)

\* The process starts with nothing in hand.
LEMMA InitInv == Init => IInv
<1> SUFFICES ASSUME Init PROVE IInv  OBVIOUS
<1>1. /\ run = IdleRun /\ run \in Runs /\ run.phase = "idle"
      /\ run.victims = {} /\ run.listed = {} /\ run.deletes = FALSE
  BY IdleRunType DEF Init
<1>2. live \subseteq Resources /\ lastId = LastSeed /\ \A r \in live : r.id <= lastId
  BY SeedsAssumption DEF Init
<1>3. lastId \in Nat /\ budget \in Budgets  BY <1>2, BoundsAssumption DEF Init, Budgets
<1>4. /\ docker \in [Containers -> ContainerStates]
      /\ stoppedFor \in [Containers -> {NotSeen} \cup 0..StopGrace]
      /\ status \in Statuses /\ proc = "up" /\ cache = {} /\ failures = {}
      /\ changed = {}
  BY DataAssumption DEF Init, Statuses
<1>5. TypeOK  BY <1>1, <1>2, <1>3, <1>4 DEF TypeOK
<1>6. IdsBounded /\ TodoIsWanted /\ ToggleIsOurs /\ VictimsAreOrphans /\ SnapshotIsCurrent
  BY <1>1, <1>2 DEF IdsBounded, TodoIsWanted, ToggleIsOurs, VictimsAreOrphans,
                    SnapshotIsCurrent
<1> QED  BY <1>5, <1>6 DEF IInv, RunIsConsistent

\* A step that removes nothing removes nothing it should not.
LEMMA NothingRemoved ==
  ASSUME Removed = {}
  PROVE  RemovesOrphans /\ RemovesUnprotected
BY DEF RemovesOrphans, RemovesUnprotected

\* A step without a write is harmless.
LEMMA NothingWritten ==
  ASSUME UNCHANGED live
  PROVE  SafeRemoval
<1>1. Removed = {}  BY DEF Removed
<1> QED  BY <1>1, NothingRemoved DEF SafeRemoval, TouchesItsOwn

\* Every step keeps the invariant, and none of the worker's does harm.
LEMMA NextStep ==
  ASSUME IInv, [Next]_vars
  PROVE  IInv' /\ (ByWorker => SafeRemoval)
<1>1. CASE \E final \in BOOLEAN : StartRun(final) \/ SnapshotFails(final)
  BY <1>1, StartStep, SnapshotFailsStep, NothingWritten
<1>2. CASE ListKind \/ SkipKind \/ ListFails \/ FinishKind
  BY <1>2, CollectionSteps, NothingWritten
<1>3. CASE \E k \in Domains : ReconcileKey(k)
  <2>1. PICK k \in Domains : ReconcileKey(k)  BY <1>3
  <2>2. CASE CreateHost(k) \/ KeepHost(k) \/ UpdateHost(k) \/ StampStopped(k)
             \/ SetEnabled(k)
    <3>1. IInv' /\ GoodWrite
      BY <2>2, CreateStep, KeepStep, UpdateStep, StampStep, SetEnabledStep
    <3> QED  BY <3>1, NothingRemoved DEF GoodWrite, SafeRemoval
  <2>3. CASE ~(CreateHost(k) \/ KeepHost(k) \/ UpdateHost(k) \/ StampStopped(k)
               \/ SetEnabled(k))
    BY <2>1, <2>3, QuietSteps, NothingWritten DEF ReconcileKey
  <2> QED  BY <2>2, <2>3
<1>4. CASE Decide \/ FinishRun
  BY <1>4, DecideStep, FinishRunStep, NothingWritten
<1>5. CASE DeleteOrphan  BY <1>5, DeleteStep
<1>6. CASE Shutdown \/ Crash \/ Restart \/ Tick
  BY <1>6, ProcessSteps, TickStep, NothingWritten
<1>7. CASE \E c \in Containers, to \in ContainerStates : ContainerMoves(c, to)
  BY <1>7, DockerStep, NothingWritten
<1>8. CASE \/ \E k \in OutsideKinds, d \in OutsideDomains, o \in {"hand", "peer"} :
                UICreate(k, d, o)
           \/ \E r \in live : UIEdit(r) \/ \E d \in OutsideDomains : UIMove(r, d)
           \/ MetaEmptied
  BY <1>8, UISteps
<1>9. CASE UNCHANGED vars
  <2>1. UNCHANGED <<docker, proc, changed, live, lastId, run, cache, failures,
                    stoppedFor, status, budget>>
    BY <1>9 DEF vars, outside, server, worker, memory
  <2>2. TypeOK'  BY <2>1 DEF IInv, TypeOK
  <2>3. /\ \A kind : Wanted(kind)' = Wanted(kind)
        /\ \A r : Protected(r)' = Protected(r)
    BY <2>1, SameWanted
  <2>4. RunIsConsistent'
    BY <2>1, <2>3 DEF IInv, RunIsConsistent, IdsBounded, TodoIsWanted,
       ToggleIsOurs, VictimsAreOrphans, SnapshotIsCurrent, Known, Present
  <2> QED  BY <2>1, <2>2, <2>4, NothingWritten DEF IInv
<1> QED
  BY <1>1, <1>2, <1>3, <1>4, <1>5, <1>6, <1>7, <1>8, <1>9
     DEF Next, Reconcile, Environment

\* The invariant of the specification.
LEMMA Invariance == Spec => []IInv
<1>1. IInv /\ [Next]_vars => IInv'  BY NextStep
<1> QED  BY <1>1, InitInv, PTL DEF Spec

\* Types, delays and ages stay within their limits: the worker's state is never
\* one its code does not expect.
THEOREM TypeCorrect == Spec => []TypeOK
<1>1. IInv => TypeOK  BY DEF IInv
<1> QED  BY <1>1, Invariance, PTL

\* Wherever a run is interrupted - by a container, a person, a failing call or a
\* crash - what it listed, still has to do and may delete fit together.
THEOREM RunConsistent == Spec => []RunIsConsistent
<1>1. IInv => RunIsConsistent  BY DEF IInv
<1> QED  BY <1>1, Invariance, PTL

\* The worker changes or removes only what was listed as this instance's, what
\* it may adopt, or what it made itself (Worker.ownership, Worker.owns).
THEOREM OwnWrites == Spec => ActsOnlyOnItsOwn
<1>1. IInv /\ [Next]_vars => [ByWorker => TouchesItsOwn]_vars
  BY NextStep DEF SafeRemoval
<1> QED  BY <1>1, Invariance, PTL DEF Spec, ActsOnlyOnItsOwn

\* Only orphans are deleted, only with deletion on, and never by the flush at
\* shutdown (Worker.reconcile, Worker.deleteOrphans).
THEOREM OrphansOnly == Spec => DeletesOnlyOrphans
<1>1. IInv /\ [Next]_vars => [ByWorker => RemovesOrphans]_vars
  BY NextStep DEF SafeRemoval
<1> QED  BY <1>1, Invariance, PTL DEF Spec, DeletesOnlyOrphans

\* The resources of a container whose labels cannot be read survive
\* (Snapshot.IsProtected).
THEOREM ProtectedSafe == Spec => ProtectedHostsSurvive
<1>1. IInv /\ [Next]_vars => [ByWorker => RemovesUnprotected]_vars
  BY NextStep DEF SafeRemoval
<1> QED  BY <1>1, Invariance, PTL DEF Spec, ProtectedHostsSurvive

=============================================================================
