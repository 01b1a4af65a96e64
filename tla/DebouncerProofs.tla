------------------------- MODULE DebouncerProofs -------------------------
(***************************************************************************)
(* Proofs about the debouncer, for every interval, every limit and every   *)
(* capacity: the type invariant, and that bursts are cut neither late nor  *)
(* early.                                                                  *)
(***************************************************************************)
EXTENDS Debouncer, TLAPS

\* Why a burst is never cut early: the timer was set to end after Interval of
\* silence, or with the burst's deadline.
TimerHasAReason ==
  deb.phase = "collect" /\ deb.timer # Off =>
    \/ deb.quiet + deb.timer = Interval
    \/ MaxWait > 0 /\ deb.age + deb.timer = MaxWait

\* The type invariant in two parts: what is a truth value, and the rest.
Flags == inOpen \in BOOLEAN /\ cancelled \in BOOLEAN
Records == [phase: Phases, pending: Nat, timer: {Off} \cup 0..Interval,
            age: Nat, quiet: 0..Interval]
Counts ==
  /\ in \in Nat /\ out \in 0..OutCap /\ produced \in Nat
  /\ deb \in Records
  /\ deb.timer # Off <=> deb.phase = "collect" /\ deb.pending > 0
  /\ deb.phase \in {"handover", "closing"} => deb.pending > 0

IInv == Counts /\ MaxWaitHolds /\ TimerHasAReason

\* The waiting time the debouncer computes is never negative and at most
\* Interval, ends with the deadline if there is one, and is one of the two.
LEMMA WaitBounds ==
  ASSUME NEW age \in Nat
  PROVE  /\ Wait(age) \in 0..Interval
         /\ MaxWait > 0 /\ age <= MaxWait => age + Wait(age) <= MaxWait
         /\ Wait(age) = Interval
            \/ (MaxWait > 0 /\ age <= MaxWait => age + Wait(age) = MaxWait)
BY DebouncerAssumption DEF Wait, Least

LEMMA FlagsHold == Spec => []Flags
<1>1. Init => Flags
  BY Zenon DEF Init, Flags
<1>2. Flags /\ [Next]_vars => Flags'
  BY Zenon DEF Flags, vars, Next, Step, Collect, Fire, InputEnds, HandOver, Stop,
               Produce, Close, Consume, Cancel, Tick
<1> QED
  BY <1>1, <1>2, PTL DEF Spec

LEMMA InitIInv == Init => IInv
<1> SUFFICES ASSUME in = 0, out = 0, produced = 0, deb = NewDebouncer PROVE IInv
    BY DEF Init
<1> QED
  BY DebouncerAssumption
   DEF IInv, Counts, Records, MaxWaitHolds, TimerHasAReason, NewDebouncer, Phases, Off

\* The debouncer's own steps.
LEMMA StepKeeps == ASSUME IInv, Step, UNCHANGED produced PROVE IInv'
<1> USE DebouncerAssumption DEF IInv, Counts, Records, Phases, Off
<1>1. ASSUME Collect, UNCHANGED <<inOpen, out, cancelled, produced>> PROVE IInv'
  <2>0. deb.phase = "collect" /\ in' \in Nat
    BY <1>1 DEF Collect
  <2>1. CASE deb.timer = Off
    <3>1. deb' = [deb EXCEPT !.pending = @ + 1, !.quiet = 0, !.timer = Interval,
                             !.age = 0]
      BY <1>1, <2>1 DEF Collect
    <3>2. deb.pending + 1 \in Nat /\ 0 \in Nat /\ 0 \in 0..Interval
          /\ Interval \in {Off} \cup 0..Interval
      OBVIOUS
    <3>3. deb' \in Records
      BY <3>1, <3>2
    <3>4. deb'.timer # Off /\ deb'.phase = "collect" /\ deb'.pending > 0
      BY <2>0, <3>1
    <3>5. Counts'
      BY <1>1, <2>0, <3>3, <3>4
    <3>6. MaxWaitHolds' /\ TimerHasAReason'
      BY <3>1, <3>3 DEF MaxWaitHolds, TimerHasAReason
    <3> QED
      BY <3>5, <3>6
  <2>2. CASE deb.timer # Off
    <3> DEFINE w == Wait(deb.age)
    <3>1. deb' = [deb EXCEPT !.pending = @ + 1, !.quiet = 0, !.timer = w]
      BY <1>1, <2>2 DEF Collect
    <3>2. MaxWait > 0 => deb.age <= MaxWait
      BY <1>1, <2>2 DEF Collect, MaxWaitHolds
    <3>3. /\ w \in 0..Interval
          /\ MaxWait > 0 => deb.age + w <= MaxWait
          /\ w = Interval \/ (MaxWait > 0 /\ deb.age + w = MaxWait)
      BY <3>2, WaitBounds DEF Wait
    <3> HIDE DEF w
    <3>4. deb.pending + 1 \in Nat /\ 0 \in 0..Interval /\ w \in {Off} \cup 0..Interval
      BY <3>3
    <3>5. deb' \in Records
      BY <3>1, <3>4
    <3>6. deb'.timer # Off /\ deb'.phase = "collect" /\ deb'.pending > 0
      BY <2>0, <3>1, <3>3
    <3>7. Counts'
      BY <1>1, <2>0, <3>5, <3>6
    <3>8. MaxWaitHolds' /\ TimerHasAReason'
      BY <3>1, <3>3, <3>5 DEF MaxWaitHolds, TimerHasAReason
    <3> QED
      BY <3>7, <3>8
  <2> QED
    BY <2>1, <2>2
<1>2. ASSUME Fire, UNCHANGED <<inOpen, out, cancelled, produced>> PROVE IInv'
  <2>1. deb' \in Records
    BY <1>2 DEF Fire
  <2>2. Counts'
    BY <1>2, <2>1 DEF Fire
  <2>3. MaxWaitHolds' /\ TimerHasAReason'
    BY <1>2, <2>1 DEF Fire, MaxWaitHolds, TimerHasAReason
  <2> QED
    BY <2>2, <2>3
<1>3. ASSUME InputEnds, UNCHANGED <<inOpen, out, cancelled, produced>> PROVE IInv'
  <2>1. deb' \in Records
    BY <1>3 DEF InputEnds
  <2>2. Counts'
    BY <1>3, <2>1 DEF InputEnds
  <2>3. MaxWaitHolds' /\ TimerHasAReason'
    BY <1>3, <2>1 DEF InputEnds, MaxWaitHolds, TimerHasAReason
  <2> QED
    BY <2>2, <2>3
<1>4. ASSUME HandOver, UNCHANGED <<in, inOpen, cancelled, produced>> PROVE IInv'
  <2>1. deb' \in Records
    BY <1>4 DEF HandOver
  <2>2. Counts'
    BY <1>4, <2>1 DEF HandOver
  <2>3. MaxWaitHolds' /\ TimerHasAReason'
    BY <1>4, <2>1 DEF HandOver, MaxWaitHolds, TimerHasAReason
  <2> QED
    BY <2>2, <2>3
<1>5. ASSUME Stop, UNCHANGED <<in, inOpen, out, cancelled, produced>> PROVE IInv'
  <2>1. deb' \in Records
    BY <1>5 DEF Stop
  <2>2. Counts'
    BY <1>5, <2>1 DEF Stop
  <2>3. MaxWaitHolds' /\ TimerHasAReason'
    BY <1>5, <2>1 DEF Stop, MaxWaitHolds, TimerHasAReason
  <2> QED
    BY <2>2, <2>3
<1> QED
  BY <1>1, <1>2, <1>3, <1>4, <1>5 DEF Step

\* What others do to its channels.
LEMMA OthersKeep ==
  ASSUME IInv, deb' = deb, in' \in Nat, out' \in 0..OutCap, produced' \in Nat
  PROVE  IInv'
BY DEF IInv, Counts, MaxWaitHolds, TimerHasAReason

\* The clock.
LEMMA TickKeeps ==
  ASSUME IInv, ~Busy, Age, UNCHANGED <<in, out, produced>> PROVE IInv'
<1> USE DebouncerAssumption DEF IInv, Counts, Records, Phases, Off
<1>1. CASE deb.phase = "collect" /\ deb.timer # Off
  <2>1. deb.timer > 0
    BY <1>1 DEF Busy
  <2> DEFINE a == IF MaxWait = 0 THEN 0 ELSE deb.age + 1
             q == Saturated(deb.quiet, Interval)
  <2>2. deb' = [deb EXCEPT !.timer = @ - 1, !.age = a, !.quiet = q]
    BY <1>1 DEF Age
  <2>3. /\ deb.timer - 1 \in {Off} \cup 0..Interval
        /\ a \in Nat /\ (MaxWait > 0 => a = deb.age + 1)
        /\ q \in 0..Interval /\ (deb.quiet < Interval => q = deb.quiet + 1)
    BY <1>1, <2>1 DEF Saturated, Least
  <2> HIDE DEF a, q
  <2>4. deb' \in Records
    BY <2>2, <2>3
  <2>5. deb'.timer = deb.timer - 1 /\ deb'.phase = "collect" /\ deb'.pending > 0
    BY <1>1, <2>2
  <2>6. Counts'
    BY <2>1, <2>4, <2>5
  <2>7. MaxWaitHolds' /\ TimerHasAReason'
    BY <1>1, <2>1, <2>2, <2>3 DEF MaxWaitHolds, TimerHasAReason
  <2> QED
    BY <2>6, <2>7
<1>2. CASE ~(deb.phase = "collect" /\ deb.timer # Off)
  BY <1>2 DEF Age, MaxWaitHolds, TimerHasAReason
<1> QED
  BY <1>1, <1>2

LEMMA NextIInv == IInv /\ [Next]_vars => IInv'
<1> SUFFICES ASSUME IInv, [Next]_vars PROVE IInv'
    OBVIOUS
<1>1. CASE Step /\ UNCHANGED produced
  BY <1>1, StepKeeps
<1>2. CASE Produce \/ Close \/ Consume \/ Cancel \/ UNCHANGED vars
  <2>1. deb' = deb
    BY <1>2 DEF Produce, Close, Consume, Cancel, vars
  <2>2. in' \in Nat /\ out' \in 0..OutCap /\ produced' \in Nat
    BY <1>2, DebouncerAssumption
       DEF Produce, Close, Consume, Cancel, vars, IInv, Counts
  <2> QED
    BY <2>1, <2>2, OthersKeep
<1>3. CASE Tick
  BY <1>3, TickKeeps DEF Tick
<1> QED
  BY <1>1, <1>2, <1>3 DEF Next

LEMMA Invariant == Spec => []IInv
BY InitIInv, NextIInv, PTL DEF Spec

\* The type invariant: a timer runs exactly while a burst is collected, and a
\* batch is never empty (Debouncer.Run).
THEOREM TypesHold == Spec => []TypeOK
<1>1. IInv /\ Flags => TypeOK
  BY DEF IInv, Counts, Records, Flags, TypeOK
<1> QED
  BY <1>1, Invariant, FlagsHold, PTL

\* However the events come, a burst is not collected longer than
\* DEBOUNCE_MAX_WAIT.
THEOREM BurstsEndInTime == Spec => []MaxWaitHolds
<1>1. IInv => MaxWaitHolds
  BY DEF IInv
<1> QED
  BY <1>1, Invariant, PTL

\* A burst is cut only when no event came for DEBOUNCE_INTERVAL or it is as old
\* as DEBOUNCE_MAX_WAIT.
THEOREM BurstsEndForAReason == Spec => CutsQuietBursts
<1> DEFINE Cut == deb.phase = "collect" /\ deb'.phase = "handover" =>
                    deb.quiet = Interval \/ (MaxWait > 0 /\ deb.age >= MaxWait)
<1>1. IInv /\ [Next]_vars => [Cut]_vars
  <2> SUFFICES ASSUME IInv, Next, deb.phase = "collect", deb'.phase = "handover"
               PROVE  deb.quiet = Interval \/ (MaxWait > 0 /\ deb.age >= MaxWait)
      OBVIOUS
  <2> USE DebouncerAssumption DEF IInv, Counts, Records, TimerHasAReason, Phases, Off
  <2>1. Fire
    BY DEF Next, Step, Collect, InputEnds, HandOver, Stop, Produce, Close, Consume,
           Cancel, Tick, Age
  <2> QED
    BY <2>1 DEF Fire
<1> QED
  BY <1>1, Invariant, PTL DEF Spec, CutsQuietBursts

=============================================================================
