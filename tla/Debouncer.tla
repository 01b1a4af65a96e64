---------------------------- MODULE Debouncer ----------------------------
(***************************************************************************)
(* The event debouncer (internal/syncer/debounce.go): a goroutine between  *)
(* two Go channels that turns a burst of events into one batch, once no    *)
(* event arrived for Interval, at the latest MaxWait after the first one.  *)
(*                                                                         *)
(* Nobody looks into a batch except to log it, so a channel is the number  *)
(* of things in it.  Time is counted in ticks; a goroutine that has        *)
(* something to do does it before the clock ticks again.                   *)
(***************************************************************************)
EXTENDS Integers

CONSTANTS
  Interval,   \* DEBOUNCE_INTERVAL, in ticks
  MaxWait,    \* DEBOUNCE_MAX_WAIT, in ticks; 0 is no limit
  OutCap,     \* capacity of the batch channel
  MaxEvents   \* bound of the model: events produced in a behaviour

ASSUME DebouncerAssumption ==
  /\ Interval \in Nat \ {0} /\ MaxWait \in Nat
  /\ MaxWait = 0 \/ MaxWait >= Interval
  /\ OutCap \in Nat \ {0} /\ MaxEvents \in Nat

VARIABLES
  in,         \* events in the channel the debouncer reads
  inOpen,     \* FALSE once the producer closed it
  out,        \* batches in the channel it writes
  cancelled,  \* the context is done
  deb,        \* the debouncer itself
  produced    \* events produced so far

Off == -1
vars == <<in, inOpen, out, cancelled, deb, produced>>

\* "quiet" is history: the time since the last event of the burst.
NewDebouncer == [phase |-> "collect", pending |-> 0, timer |-> Off, age |-> 0,
                 quiet |-> 0]

Least(m, n) == IF m < n THEN m ELSE n
Saturated(n, max) == Least(n + 1, max)

\* (slip: the limit for the whole burst is forgotten)
WaitInterval(age) == Interval
\* How long to wait after one more event of a burst of this age.
Wait(age) ==
  IF MaxWait = 0 THEN Interval
  ELSE Least(Interval, IF age > MaxWait THEN 0 ELSE MaxWait - age)

\* (slip: the timer keeps running while events arrive)
CollectOnce ==
  /\ deb.phase = "collect" /\ in > 0
  /\ in' = in - 1
  /\ deb' = [deb EXCEPT !.pending = @ + 1, !.quiet = 0,
               !.timer = IF @ = Off THEN Interval ELSE @,
               !.age = IF deb.timer = Off THEN 0 ELSE @]

\* An event arrives.  Select picks any case that is ready: an event may win
\* over a timer that has just fired, which is then set anew.
Collect ==
  /\ deb.phase = "collect" /\ in > 0
  /\ in' = in - 1
  /\ deb' = [deb EXCEPT !.pending = @ + 1, !.quiet = 0,
               !.timer = IF @ = Off THEN Interval ELSE Wait(deb.age),
               !.age = IF deb.timer = Off THEN 0 ELSE @]

\* The timer fired: what is pending becomes a batch.
Fire ==
  /\ deb.phase = "collect" /\ deb.timer = 0
  /\ deb' = [deb EXCEPT !.phase = "handover", !.timer = Off]
  /\ UNCHANGED in

\* The channel is closed and empty: a pending batch is the last thing.
InputEnds ==
  /\ deb.phase = "collect" /\ in = 0 /\ ~inOpen
  /\ deb' = [deb EXCEPT !.phase = IF deb.pending > 0 THEN "closing" ELSE "done",
                        !.timer = Off]
  /\ UNCHANGED in

\* The batch goes out as soon as the channel has room.
HandOver ==
  /\ deb.phase \in {"handover", "closing"}
  /\ out < OutCap
  /\ out' = out + 1
  /\ deb' = [deb EXCEPT !.phase = IF @ = "closing" THEN "done" ELSE "collect",
                        !.pending = 0, !.age = 0]

\* The context is done, wherever it waits: what is pending is dropped.
Stop ==
  /\ cancelled /\ deb.phase # "done"
  /\ deb' = [deb EXCEPT !.phase = "done", !.pending = 0, !.timer = Off]

Step ==
  \/ (Collect \/ Fire \/ InputEnds) /\ UNCHANGED <<inOpen, out, cancelled>>
  \/ HandOver /\ UNCHANGED <<in, inOpen, cancelled>>
  \/ Stop /\ UNCHANGED <<in, inOpen, out, cancelled>>

\* What keeps the clock from ticking.
Busy ==
  \/ deb.phase = "collect" /\ (in > 0 \/ deb.timer = 0 \/ ~inOpen)
  \/ deb.phase \in {"handover", "closing"} /\ out < OutCap
  \/ cancelled /\ deb.phase # "done"

\* One tick, as far as the debouncer is concerned.
Age ==
  deb' = IF deb.phase = "collect" /\ deb.timer # Off
         THEN [deb EXCEPT !.timer = @ - 1,
                 !.age = IF MaxWait = 0 THEN 0 ELSE @ + 1,
                 !.quiet = Saturated(@, Interval)]
         ELSE deb

---------------------------------------------------------------------------
(* The debouncer on its own, between a producer and a consumer.            *)

Produce ==
  /\ inOpen /\ produced < MaxEvents
  /\ in' = in + 1 /\ produced' = produced + 1
  /\ UNCHANGED <<inOpen, out, cancelled, deb>>

\* The producer closes the channel when its own context is done.
Close ==
  /\ cancelled /\ inOpen
  /\ inOpen' = FALSE
  /\ UNCHANGED <<in, out, cancelled, deb, produced>>

Consume ==
  /\ out > 0
  /\ out' = out - 1
  /\ UNCHANGED <<in, inOpen, cancelled, deb, produced>>

Cancel ==
  /\ ~cancelled
  /\ cancelled' = TRUE
  /\ UNCHANGED <<in, inOpen, out, deb, produced>>

Tick ==
  /\ ~Busy /\ Age
  /\ UNCHANGED <<in, inOpen, out, cancelled, produced>>

Init ==
  /\ in = 0 /\ inOpen = TRUE /\ out = 0 /\ cancelled = FALSE
  /\ deb = NewDebouncer /\ produced = 0

Next == (Step /\ UNCHANGED produced) \/ Produce \/ Close \/ Consume \/ Cancel \/ Tick

Spec == Init /\ [][Next]_vars

---------------------------------------------------------------------------

Phases == {"collect", "handover", "closing", "done"}
\* The type invariant: the timer runs exactly while a burst is collected, a
\* batch is never empty, and the channels keep within their capacity.
TypeOK ==
  /\ in \in Nat /\ inOpen \in BOOLEAN /\ out \in 0..OutCap
  /\ cancelled \in BOOLEAN /\ produced \in Nat
  /\ deb \in [phase: Phases, pending: Nat, timer: {Off} \cup 0..Interval,
              age: Nat, quiet: 0..Interval]
  /\ deb.timer # Off <=> deb.phase = "collect" /\ deb.pending > 0
  /\ deb.phase \in {"handover", "closing"} => deb.pending > 0

\* A burst is not collected longer than MaxWait, however its events come, and
\* the timer is set so that it never will be.  (DEBOUNCE_MAX_WAIT)
MaxWaitHolds ==
  MaxWait > 0 /\ deb.phase = "collect" /\ deb.timer # Off =>
    deb.age + deb.timer <= MaxWait

\* A burst is cut only when it has been quiet for Interval, or is as old as
\* MaxWait allows.  (DEBOUNCE_INTERVAL)
CutsQuietBursts ==
  [][deb.phase = "collect" /\ deb'.phase = "handover" =>
       deb.quiet = Interval \/ (MaxWait > 0 /\ deb.age >= MaxWait)]_vars

=============================================================================
