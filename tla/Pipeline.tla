----------------------------- MODULE Pipeline -----------------------------
(***************************************************************************)
(* The three goroutines main.go starts, and the two channels between them: *)
(* Docker's event stream -> Listener -> events -> Debouncer -> batches ->  *)
(* WorkerLoop.  They share one context, which SIGTERM cancels, and one     *)
(* clock.                                                                  *)
(***************************************************************************)
EXTENDS Integers

CONSTANTS ReconnectMin, ReconnectMax, EventCap, StreamGrace, Outages,
          Interval, MaxWait, BatchCap, Resync, CertPoll,
          MaxEvents, MaxOutages, MaxCerts, MaxFaults  \* bounds of the model

VARIABLES
  daemon, sub, outage,                \* the daemon and its event stream
  docker, certs, faults,              \* what a run sees of the world
  lis, health, deb, wk,               \* the goroutines
  events, eventsOpen, batches,        \* the channels between them
  cancelled,                          \* the context they share
  told,       \* history: Docker's version when an event was last received
  atCancel    \* history: Docker's version when the context was cancelled

stream == <<daemon, sub, outage>>
world == <<docker, certs, faults>>
channels == <<events, eventsOpen, batches>>
history == <<told, atCancel>>
vars == <<stream, world, lis, health, deb, wk, channels, cancelled, history>>

Listen == INSTANCE Listener
Debounce == INSTANCE Debouncer
  WITH in <- events, inOpen <- eventsOpen, out <- batches, OutCap <- BatchCap,
       produced <- 0
Work == INSTANCE WorkerLoop

ASSUME PipelineAssumption ==
  Listen!ListenerAssumption /\ Debounce!DebouncerAssumption
  /\ {Resync, CertPoll} \subseteq BOOLEAN
  /\ MaxCerts \in Nat /\ MaxFaults \in Nat

---------------------------------------------------------------------------

Listening ==
  /\ Listen!Step
  /\ told' = IF lis.phase = "stream" /\ lis'.phase = "send" THEN docker ELSE told
  /\ UNCHANGED <<world, deb, wk, batches, atCancel>>

Debouncing ==
  /\ Debounce!Step
  /\ UNCHANGED <<stream, world, lis, health, wk, history>>

Working ==
  /\ Work!Step
  /\ UNCHANGED <<stream, lis, health, deb, events, eventsOpen, history>>

ResyncTicks ==
  /\ Work!ResyncTicks
  /\ UNCHANGED <<stream, lis, health, deb, events, eventsOpen, history>>

PollTicks ==
  /\ Work!PollTicks
  /\ UNCHANGED <<stream, lis, health, deb, events, eventsOpen, history>>

\* The clock waits for the listener and the debouncer, not for the worker: a
\* run takes as long as NPM makes it take.
Tick ==
  /\ ~Listen!Busy /\ ~Debounce!Busy
  /\ Listen!Age /\ Debounce!Age
  /\ UNCHANGED <<daemon, sub, world, wk, channels, cancelled, history>>

\* A container changes, or this process's own container does.
ContainerChanges(own) ==
  /\ Listen!Happens(own)
  /\ docker' = IF own THEN docker ELSE docker + 1
  /\ UNCHANGED <<certs, faults, lis, health, deb, wk, channels, cancelled, history>>

DaemonChanges ==
  /\ (\E to \in Outages : Listen!Breaks(to)) \/ Listen!Recovers
  /\ UNCHANGED <<world, lis, health, deb, wk, channels, cancelled, history>>

CertificateChanges ==
  /\ Work!CertificateChanges
  /\ UNCHANGED <<stream, lis, health, deb, events, eventsOpen, history>>

\* SIGINT or SIGTERM.
Cancel ==
  /\ ~cancelled
  /\ cancelled' = TRUE /\ atCancel' = docker
  /\ UNCHANGED <<stream, world, lis, health, deb, wk, channels, told>>

Init ==
  /\ daemon = [state |-> "up", events |-> MaxEvents, outages |-> MaxOutages]
  /\ sub = Listen!NoSubscription /\ outage = 0
  /\ lis = Listen!NewListener /\ health = Listen!HealthUnknown
  /\ deb = Debounce!NewDebouncer /\ wk = Work!NewWorker
  /\ docker = 1 /\ certs = 1 /\ faults = MaxFaults
  /\ events = 0 /\ eventsOpen = TRUE /\ batches = 0
  /\ cancelled = FALSE
  /\ told = 0 /\ atCancel = 0

Next ==
  \/ Listening \/ Debouncing \/ Working \/ ResyncTicks \/ PollTicks \/ Tick
  \/ \E own \in BOOLEAN : ContainerChanges(own)
  \/ DaemonChanges \/ CertificateChanges \/ Cancel

\* The goroutines run, the tickers tick, time passes, and select does not pass
\* over a resync or the end of the context for ever.  Nothing is asked of the
\* daemon, of containers or of NPM.
Spec == Init /\ [][Next]_vars
FairSpec ==
  /\ Spec
  /\ WF_vars(Listening) /\ WF_vars(Debouncing) /\ WF_vars(Working)
  /\ SF_vars(Working /\ wk.resync /\ ~wk'.resync)
  /\ SF_vars(Working /\ wk'.phase = "flush")
  /\ WF_vars(ResyncTicks) /\ WF_vars(PollTicks) /\ WF_vars(Tick)

---------------------------------------------------------------------------
(* What a Docker event is worth.                                           *)

\* Something is on its way to the worker, or the worker about to look.
Underway ==
  \/ lis.phase = "send" \/ events > 0 \/ deb.pending > 0 \/ batches > 0
  \/ wk.phase = "start"

\* The pipeline is one flag, as far as events are concerned: the three
\* goroutines implement the notifier.  (ARCHITECTURE.md: "Events are only a
\* trigger")
Flag == INSTANCE Notifier
  WITH version <- docker, looked <- wk.tried, raised <- Underway, open <- ~cancelled
ImplementsNotifier == Flag!Spec

\* No event that was received is forgotten: until the worker has asked Docker
\* for a later snapshot, something is on its way to it, however full the
\* channels, however slow the worker and whatever the timers do.
NothingLost == ~cancelled /\ told > wk.tried => Underway

\* A shutdown in which nothing fails leaves NPM in line with all that Docker
\* was when the signal came, although pending batches are dropped.  (debounce.go,
\* Run: the final reconcile "supersedes individual events")
ShutdownSeesEverything ==
  wk.phase = "done" /\ faults = MaxFaults => wk.done >= atCancel

\* Everything ends once the context is done: no goroutine waits for one that
\* has already left.  (main.go: wg.Wait)
ShutsDown ==
  cancelled ~> (lis.phase = "done" /\ deb.phase = "done" /\ wk.phase = "done")

\* When the world has calmed down, NPM is in line with Docker's last state.
DockerIsApplied == <>[](cancelled \/ wk.done = docker)

\* And with the last certificate list.  (PollCertificates: "what makes a freshly
\* issued certificate reach its hosts without a restart")
CertificatesReachHosts == <>[](cancelled \/ wk.hosts = certs)

\* The event stream does not back up while a run is slow.  (debounce.go, Run:
\* "the Docker event stream cannot back up while the NPM API is slow")
StreamNeverBacksUp ==
  wk.phase = "apply" => ~(lis.phase = "send" /\ events = EventCap)

---------------------------------------------------------------------------

\* The type invariant of the composition: the parts keep theirs, and the
\* worker never knows more than there is.
TypeOK ==
  /\ Listen!TypeOK /\ Debounce!TypeOK
  /\ docker \in Nat /\ certs \in Nat /\ faults \in 0..MaxFaults
  /\ told \in 0..docker /\ atCancel \in 0..docker
  /\ wk \in [phase: {"start", "apply", "select", "flush", "last", "done"},
             tried: 0..docker, seen: 0..docker, hash: 0..certs, done: 0..docker,
             hosts: 0..certs, resync: BOOLEAN, poll: BOOLEAN]

=============================================================================
