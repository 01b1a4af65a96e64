-------------------------- MODULE PipelineProofs --------------------------
(***************************************************************************)
(* Proofs about the composition of listener, debouncer and worker, for     *)
(* every capacity, delay and number of events: no received event is        *)
(* forgotten, the three goroutines implement the one flag of module        *)
(* Notifier, and a shutdown without failures sees everything.  The         *)
(* invariants of listener and debouncer are those of their own proofs.     *)
(***************************************************************************)
EXTENDS Pipeline, TLAPS

LP == INSTANCE ListenerProofs
DP == INSTANCE DebouncerProofs
  WITH in <- events, inOpen <- eventsOpen, out <- batches, OutCap <- BatchCap,
       produced <- 0

LEMMA Assumptions ==
  /\ LP!ListenerAssumption /\ DP!DebouncerAssumption
  /\ {Resync, CertPoll} \subseteq BOOLEAN /\ MaxCerts \in Nat /\ MaxFaults \in Nat
BY PipelineAssumption
   DEF LP!ListenerAssumption, Listen!ListenerAssumption, DP!DebouncerAssumption,
       Debounce!DebouncerAssumption

---------------------------------------------------------------------------
(* The invariant.                                                          *)

Final == {"flush", "last", "done"}
Workers ==
  [phase: {"start", "apply", "select"} \cup Final, tried: Nat, seen: Nat, hash: Nat,
   done: Nat, hosts: Nat, resync: BOOLEAN, poll: BOOLEAN]

World == docker \in Nat /\ certs \in Nat /\ faults \in 0..MaxFaults
Known ==
  /\ wk \in Workers
  /\ wk.tried <= docker /\ wk.seen <= docker /\ wk.done <= docker
  /\ wk.hash <= certs /\ wk.hosts <= certs
  /\ told \in 0..docker /\ atCancel \in 0..docker

\* The last run is only for a shutdown, and what it has seen is what Docker was
\* when the shutdown began.
LastRun ==
  /\ wk.phase \in Final => cancelled
  /\ wk.phase = "last" /\ faults = MaxFaults => wk.seen >= atCancel

IInv == LP!IInv /\ DP!IInv /\ World /\ Known /\ LastRun /\ NothingLost
        /\ ShutdownSeesEverything

---------------------------------------------------------------------------
(* Steps of the parts.                                                     *)

\* A step of the listener, as its own proofs and the rest of the pipeline see it.
LEMMA ListenerSteps ==
  ASSUME Listen!Step, LP!IInv
  PROVE  /\ LP!Step /\ LP!IInv'
         /\ \/ lis.phase = "stream" /\ lis'.phase = "send" /\ events' = events
            \/ lis.phase = "send" /\ lis'.phase # "send" /\ events' = events + 1
            \/ lis.phase # "send" /\ lis'.phase # "send" /\ events' = events
            \/ cancelled /\ lis'.phase # "send" /\ events' = events
<1>1. LP!Step
  BY DEF LP!Step, Listen!Step, LP!Leave, Listen!Leave, LP!Subscribe, Listen!Subscribe,
         LP!SkipOwn, Listen!SkipOwn, LP!Receive, Listen!Receive, LP!Send, Listen!Send,
         LP!StreamFails, Listen!StreamFails, LP!Retry, Listen!Retry, LP!SetHealth,
         Listen!SetHealth, LP!NoSubscription, Listen!NoSubscription, LP!Off,
         Listen!Off, LP!Least, Listen!Least
<1>2. LP!IInv'
  BY <1>1, Assumptions, LP!StepKeeps
<1>3. lis \in LP!Listeners
  BY DEF LP!IInv, LP!LisTypes
<1>4. \/ lis.phase = "stream" /\ lis'.phase = "send" /\ events' = events
      \/ lis.phase = "send" /\ lis'.phase # "send" /\ events' = events + 1
      \/ lis.phase # "send" /\ lis'.phase # "send" /\ events' = events
      \/ cancelled /\ lis'.phase # "send" /\ events' = events
  <2>1. CASE Listen!Subscribe \/ Listen!StreamFails \/ Listen!Retry
    BY <1>3, <2>1 DEF LP!Listeners, Listen!Subscribe, Listen!StreamFails, Listen!Retry
  <2>2. CASE Listen!SkipOwn
    BY <1>3, <2>2 DEF LP!Listeners, Listen!SkipOwn
  <2>3. CASE Listen!Receive
    BY <1>3, <2>3 DEF LP!Listeners, Listen!Receive
  <2>4. CASE Listen!Send
    BY <1>3, <2>4 DEF LP!Listeners, Listen!Send
  <2>5. CASE Listen!Leave
    BY <1>3, <2>5 DEF LP!Listeners, Listen!Leave
  <2> QED
    BY <2>1, <2>2, <2>3, <2>4, <2>5 DEF Listen!Step
<1> QED
  BY <1>1, <1>2, <1>4

\* A step of the debouncer.
LEMMA DebouncerSteps ==
  ASSUME Debounce!Step, DP!IInv
  PROVE  /\ DP!Step /\ DP!IInv'
         /\ \/ events > 0 /\ events' = events - 1 /\ deb'.pending > 0 /\ batches' = batches
            \/ UNCHANGED <<events, deb.pending, batches>>
            \/ deb'.pending = 0 /\ batches' = batches + 1 /\ events' = events
               /\ deb.pending > 0
            \/ cancelled /\ deb'.pending = 0 /\ UNCHANGED <<events, batches>>
<1>1. DP!Step
  BY DEF DP!Step, Debounce!Step, DP!Collect, Debounce!Collect, DP!Fire, Debounce!Fire,
         DP!InputEnds, Debounce!InputEnds, DP!HandOver, Debounce!HandOver, DP!Stop,
         Debounce!Stop, DP!Off, Debounce!Off, DP!Wait, Debounce!Wait, DP!Least,
         Debounce!Least
<1>2. DP!IInv'
  BY <1>1, Assumptions, DP!StepKeeps
<1>3. deb.phase \in {"handover", "closing"} => deb.pending > 0
  BY DEF DP!IInv, DP!Counts
<1>4. deb \in DP!Records
  BY DEF DP!IInv, DP!Counts
<1>5. \/ events > 0 /\ events' = events - 1 /\ deb'.pending > 0 /\ batches' = batches
      \/ UNCHANGED <<events, deb.pending, batches>>
      \/ deb'.pending = 0 /\ batches' = batches + 1 /\ events' = events
         /\ deb.pending > 0
      \/ cancelled /\ deb'.pending = 0 /\ UNCHANGED <<events, batches>>
  <2>1. CASE Debounce!Collect /\ UNCHANGED batches
    BY <1>4, <2>1 DEF DP!Records, Debounce!Collect
  <2>2. CASE (Debounce!Fire \/ Debounce!InputEnds) /\ UNCHANGED batches
    BY <1>4, <2>2 DEF DP!Records, Debounce!Fire, Debounce!InputEnds
  <2>3. CASE Debounce!HandOver /\ UNCHANGED events
    BY <1>3, <1>4, <2>3 DEF DP!Records, Debounce!HandOver
  <2>4. CASE Debounce!Stop /\ UNCHANGED <<events, batches>>
    BY <1>4, <2>4 DEF DP!Records, Debounce!Stop
  <2> QED
    BY <2>1, <2>2, <2>3, <2>4 DEF Debounce!Step
<1> QED
  BY <1>1, <1>2, <1>5

\* A step of the worker: it looks at Docker, or it is about to, or nothing that
\* concerns events changes.
LEMMA WorkerSteps ==
  ASSUME Work!Step, World, Known, LastRun, ShutdownSeesEverything,
         UNCHANGED <<told, atCancel>>
  PROVE  /\ World' /\ Known' /\ LastRun' /\ ShutdownSeesEverything'
         /\ \/ wk'.tried = docker /\ batches' = batches
               /\ (wk.phase = "start" \/ cancelled)
            \/ /\ wk'.tried = wk.tried /\ wk.phase # "start"
               /\ \/ wk'.phase # "start" /\ batches' = batches
                  \/ wk'.phase = "start" /\ batches' = batches
                  \/ wk'.phase = "start" /\ batches > 0 /\ batches' = batches - 1
<1> USE Assumptions
<1>0. UNCHANGED <<docker, certs, cancelled>>
  BY DEF Work!Step
<1>1. faults' \in 0..MaxFaults /\ faults' <= faults
  BY DEF Work!Step, Work!Snapshot, Work!Apply, Work!TakeBatch, Work!TakeResync,
         Work!PollCertificates, Work!BeginFlush, Work!Flush, Work!LastApply,
         Work!TakeSnapshot, Work!NoSnapshot, Work!Finish, Work!Fails, Work!Works, World
<1>2. World'
  BY <1>0, <1>1 DEF World
<1>3. ASSUME NEW final \in BOOLEAN, NEW next \in {"apply", "select", "last", "done"},
             final <=> wk.phase = "flush", wk.phase \in {"start", "flush"},
             final <=> next \in Final, batches' = batches,
             \/ Work!TakeSnapshot(final, next) /\ next \in {"apply", "last"}
             \/ Work!NoSnapshot(final, next) /\ next \in {"select", "done"}
      PROVE  /\ Known' /\ LastRun' /\ ShutdownSeesEverything'
             /\ wk'.tried = docker /\ (wk.phase = "start" \/ cancelled)
  <2>1. CASE Work!TakeSnapshot(final, next) /\ next \in {"apply", "last"}
    <3>1. \/ wk' = [wk EXCEPT !.phase = next, !.tried = docker, !.seen = docker,
                              !.hash = certs]
          \/ wk' = [wk EXCEPT !.phase = next, !.tried = docker, !.seen = docker]
      BY <2>1 DEF Work!TakeSnapshot
    <3>2. wk' \in Workers
      <4>1. wk \in Workers /\ docker \in Nat /\ certs \in Nat
        BY DEF Known, World
      <4>2. CASE wk' = [wk EXCEPT !.phase = next, !.tried = docker, !.seen = docker,
                                  !.hash = certs]
        BY <1>3, <4>1, <4>2 DEF Workers, Final
      <4>3. CASE wk' = [wk EXCEPT !.phase = next, !.tried = docker, !.seen = docker]
        BY <1>3, <4>1, <4>3 DEF Workers, Final
      <4> QED
        BY <3>1, <4>2, <4>3
    <3>3. /\ wk'.phase = next /\ wk'.tried = docker /\ wk'.seen = docker
          /\ wk'.done = wk.done /\ wk'.hosts = wk.hosts
          /\ wk'.hash \in {wk.hash, certs}
      BY <3>1 DEF Known, Workers
    <3>4. Known'
      BY <1>0, <3>2, <3>3 DEF Known, World, Workers
    <3>5. LastRun' /\ ShutdownSeesEverything'
      BY <1>0, <1>3, <2>1, <3>3
         DEF LastRun, ShutdownSeesEverything, Known, Workers, Final
    <3> QED
      BY <1>3, <3>3, <3>4, <3>5 DEF LastRun, Final
  <2>2. CASE Work!NoSnapshot(final, next) /\ next \in {"select", "done"}
    <3>1. wk' = [wk EXCEPT !.phase = next, !.tried = docker]
      BY <2>2 DEF Work!NoSnapshot
    <3>2. wk' \in Workers
      BY <3>1, <1>3 DEF Known, Workers, World, Final
    <3>3. /\ wk'.phase = next /\ wk'.tried = docker /\ wk'.seen = wk.seen
          /\ wk'.done = wk.done /\ wk'.hosts = wk.hosts /\ wk'.hash = wk.hash
      BY <3>1 DEF Known, Workers
    <3>4. Known'
      BY <1>0, <3>2, <3>3 DEF Known, World, Workers
    <3>5. final => faults' < MaxFaults
      BY <1>3, <2>2 DEF Work!NoSnapshot, Work!Fails, World
    <3>6. LastRun' /\ ShutdownSeesEverything'
      BY <1>0, <1>3, <2>2, <3>3, <3>5, <1>1
         DEF LastRun, ShutdownSeesEverything, Known, Workers, Final, World
    <3> QED
      BY <1>3, <3>3, <3>4, <3>6 DEF LastRun, Final
  <2> QED
    BY <1>3, <2>1, <2>2
<1>4. CASE Work!Snapshot
  BY <1>2, <1>3, <1>4 DEF Work!Snapshot, Final
<1>5. CASE Work!Flush
  BY <1>2, <1>3, <1>5 DEF Work!Flush, Final
<1>6. ASSUME NEW final \in BOOLEAN, NEW next \in {"select", "done"},
             final <=> wk.phase = "last", wk.phase \in {"apply", "last"},
             final <=> next \in Final, Work!Finish(final, next)
      PROVE  /\ Known' /\ LastRun' /\ ShutdownSeesEverything'
             /\ wk'.tried = wk.tried /\ wk'.phase # "start"
  <2>1. \/ wk' = [wk EXCEPT !.phase = next, !.done = wk.seen, !.hosts = wk.hash]
        \/ wk' = [wk EXCEPT !.phase = next]
    BY <1>6 DEF Work!Finish
  <2>2. wk' \in Workers
    <3>1. wk \in Workers
      BY DEF Known
    <3>2. CASE wk' = [wk EXCEPT !.phase = next, !.done = wk.seen, !.hosts = wk.hash]
      BY <1>6, <3>1, <3>2 DEF Workers, Final
    <3>3. CASE wk' = [wk EXCEPT !.phase = next]
      BY <1>6, <3>1, <3>3 DEF Workers, Final
    <3> QED
      BY <2>1, <3>2, <3>3
  <2>3. /\ wk'.phase = next /\ wk'.tried = wk.tried /\ wk'.seen = wk.seen
        /\ wk'.hash = wk.hash /\ wk'.done \in {wk.done, wk.seen}
        /\ wk'.hosts \in {wk.hosts, wk.hash}
    BY <2>1 DEF Known, Workers
  <2>4. Known'
    BY <1>0, <2>2, <2>3 DEF Known, World, Workers
  <2>5. final /\ wk'.done # wk.seen => faults' < MaxFaults
    <3>1. CASE wk' = [wk EXCEPT !.phase = next, !.done = wk.seen, !.hosts = wk.hash]
      BY <3>1 DEF Known, Workers
    <3>2. CASE Work!Fails(final)
      BY <3>2, <1>6 DEF Work!Fails, World
    <3> QED
      BY <1>6, <3>1, <3>2 DEF Work!Finish
  <2>6. LastRun' /\ ShutdownSeesEverything'
    BY <1>0, <1>1, <1>6, <2>3, <2>5
       DEF LastRun, ShutdownSeesEverything, Known, Workers, Final, World
  <2> QED
    BY <1>6, <2>3, <2>4, <2>6
<1>7. CASE Work!Apply
  BY <1>2, <1>6, <1>7 DEF Work!Apply, Final
<1>8. CASE Work!LastApply
  BY <1>2, <1>6, <1>8 DEF Work!LastApply, Final
<1>9. CASE Work!TakeBatch \/ Work!TakeResync \/ Work!PollCertificates \/ Work!BeginFlush
  <2>1. wk.phase = "select"
    BY <1>9 DEF Work!TakeBatch, Work!TakeResync, Work!PollCertificates, Work!BeginFlush
  <2>2. /\ wk' \in Workers /\ wk'.tried = wk.tried /\ wk'.seen = wk.seen
        /\ wk'.done = wk.done /\ wk'.hosts = wk.hosts /\ wk'.hash \in {wk.hash, certs}
        /\ wk'.phase \in {"start", "select", "flush"}
        /\ (wk'.phase = "flush" => cancelled)
    <3>1. CASE Work!TakeBatch
      BY <3>1 DEF Work!TakeBatch, Known, Workers, Final
    <3>2. CASE Work!TakeResync
      BY <3>2 DEF Work!TakeResync, Known, Workers, Final
    <3>3. CASE Work!PollCertificates
      BY <3>3 DEF Work!PollCertificates, Known, Workers, Final, World
    <3>4. CASE Work!BeginFlush
      BY <3>4 DEF Work!BeginFlush, Known, Workers, Final
    <3> QED
      BY <1>9, <3>1, <3>2, <3>3, <3>4
  <2>3. Known'
    BY <1>0, <2>2 DEF Known, World, Workers
  <2>4. LastRun' /\ ShutdownSeesEverything'
    BY <1>0, <2>2 DEF LastRun, ShutdownSeesEverything, Final
  <2>5. \/ wk'.phase # "start" /\ batches' = batches
        \/ wk'.phase = "start" /\ batches' = batches
        \/ wk'.phase = "start" /\ batches > 0 /\ batches' = batches - 1
    <3>1. CASE Work!TakeBatch
      BY <3>1 DEF Work!TakeBatch, Known, Workers
    <3>2. CASE Work!TakeResync \/ Work!PollCertificates \/ Work!BeginFlush
      BY <3>2, <2>2 DEF Work!TakeResync, Work!PollCertificates, Work!BeginFlush
    <3> QED
      BY <1>9, <3>1, <3>2
  <2> QED
    BY <1>2, <2>1, <2>2, <2>3, <2>4, <2>5
<1> QED
  BY <1>4, <1>5, <1>7, <1>8, <1>9 DEF Work!Step

---------------------------------------------------------------------------
(* The invariant holds.                                                    *)

LEMMA InitIInv == Init => IInv
<1> SUFFICES ASSUME Init PROVE IInv
    OBVIOUS
<1> USE Assumptions
<1>1. LP!Init
  BY DEF Init, LP!Init, LP!NoSubscription, Listen!NoSubscription, LP!NewListener,
         Listen!NewListener, LP!HealthUnknown, Listen!HealthUnknown, LP!Off, Listen!Off
<1>2. LP!IInv
  BY <1>1, LP!InitIInv
<1>3. DP!Init
  BY DEF Init, DP!Init, DP!NewDebouncer, Debounce!NewDebouncer, DP!Off, Debounce!Off
<1>4. DP!IInv
  BY <1>3, DP!InitIInv
<1>5. World /\ Known
  BY DEF Init, World, Known, Workers, Work!NewWorker
<1>6. LastRun /\ NothingLost /\ ShutdownSeesEverything
  BY DEF Init, LastRun, NothingLost, ShutdownSeesEverything, Work!NewWorker, Final
<1> QED
  BY <1>2, <1>4, <1>5, <1>6 DEF IInv

LEMMA Counters ==
  ASSUME IInv
  PROVE  /\ events \in 0..EventCap /\ batches \in 0..BatchCap
         /\ deb.pending \in Nat /\ EventCap \in Nat /\ BatchCap \in Nat
BY Assumptions
   DEF IInv, LP!IInv, LP!HealthTypes, DP!IInv, DP!Counts, DP!Records,
       LP!ListenerAssumption, DP!DebouncerAssumption

LEMMA NextIInv == IInv /\ [Next]_vars => IInv'
<1> SUFFICES ASSUME IInv, [Next]_vars PROVE IInv'
    OBVIOUS
<1> USE Assumptions, Counters
<1>1. CASE Listening
  <2>1. Listen!Step /\ UNCHANGED <<docker, certs, faults, deb, wk, batches, atCancel>>
    BY <1>1 DEF Listening, world
  <2>2. LP!IInv' /\ LP!Step
    BY <2>1, ListenerSteps DEF IInv
  <2>3. events' \in Nat
    BY <2>2 DEF LP!IInv, LP!HealthTypes, LP!ListenerAssumption
  <2>4. DP!IInv'
    BY <2>1, <2>3, DP!OthersKeep DEF IInv
  <2>5. told' = IF lis.phase = "stream" /\ lis'.phase = "send" THEN docker ELSE told
    BY <1>1 DEF Listening
  <2>6. cancelled' = cancelled
    BY <2>1 DEF Listen!Step
  <2>7. World' /\ Known' /\ LastRun' /\ ShutdownSeesEverything'
    BY <2>1, <2>5, <2>6 DEF IInv, World, Known, LastRun, ShutdownSeesEverything
  <2>8. NothingLost'
    BY <2>1, <2>5, <2>6, ListenerSteps DEF IInv, NothingLost, Underway
  <2> QED
    BY <2>2, <2>4, <2>7, <2>8 DEF IInv
<1>2. CASE Debouncing
  <2>1. /\ Debounce!Step
        /\ UNCHANGED <<daemon, sub, outage, docker, certs, faults, lis, health, wk,
                       told, atCancel>>
    BY <1>2 DEF Debouncing, stream, world, history
  <2>2. DP!IInv'
    BY <2>1, DebouncerSteps DEF IInv
  <2>3. events' \in 0..EventCap
    BY <2>1, DebouncerSteps DEF IInv
  <2>4. LP!IInv'
    BY <2>1, <2>3, LP!OthersKeep DEF IInv
  <2>5. cancelled' = cancelled
    BY <2>1 DEF Debounce!Step
  <2>6. World' /\ Known' /\ LastRun' /\ ShutdownSeesEverything'
    BY <2>1, <2>5 DEF IInv, World, Known, LastRun, ShutdownSeesEverything
  <2>7. NothingLost'
    BY <2>1, <2>5, DebouncerSteps DEF IInv, NothingLost, Underway
  <2> QED
    BY <2>2, <2>4, <2>6, <2>7 DEF IInv
<1>3. CASE Working
  <2>1. /\ Work!Step
        /\ UNCHANGED <<daemon, sub, outage, lis, health, deb, events, told, atCancel>>
    BY <1>3 DEF Working, stream, history
  <2>2. World' /\ Known' /\ LastRun' /\ ShutdownSeesEverything'
    BY <2>1, WorkerSteps DEF IInv
  <2>3. batches' \in 0..BatchCap
    BY <2>1, WorkerSteps DEF IInv
  <2>4. LP!IInv'
    BY <2>1, LP!OthersKeep DEF IInv
  <2>5. DP!IInv'
    BY <2>1, <2>3, DP!OthersKeep DEF IInv
  <2>6. cancelled' = cancelled /\ docker' = docker
    BY <2>1 DEF Work!Step
  <2>7. NothingLost'
    BY <2>1, <2>6, WorkerSteps DEF IInv, NothingLost, Underway, Known, Workers, World
  <2> QED
    BY <2>2, <2>4, <2>5, <2>7 DEF IInv
<1>4. CASE ResyncTicks \/ PollTicks
  <2>1. UNCHANGED <<daemon, sub, outage, docker, certs, faults, lis, health, deb,
                    events, batches, cancelled, told, atCancel>>
    BY <1>4 DEF ResyncTicks, PollTicks, Work!ResyncTicks, Work!PollTicks, stream,
                history, Work!world
  <2>2. /\ wk' \in Workers /\ wk'.phase = wk.phase /\ wk'.tried = wk.tried
        /\ wk'.seen = wk.seen /\ wk'.done = wk.done /\ wk'.hash = wk.hash
        /\ wk'.hosts = wk.hosts
    BY <1>4 DEF ResyncTicks, PollTicks, Work!ResyncTicks, Work!PollTicks, IInv, Known,
                Workers
  <2>3. LP!IInv'
    BY <2>1, LP!OthersKeep DEF IInv
  <2>4. DP!IInv'
    BY <2>1, DP!OthersKeep DEF IInv
  <2>5. World' /\ Known' /\ LastRun' /\ ShutdownSeesEverything' /\ NothingLost'
    BY <2>1, <2>2 DEF IInv, World, Known, LastRun, ShutdownSeesEverything, NothingLost,
                      Underway
  <2> QED
    BY <2>3, <2>4, <2>5 DEF IInv
<1>5. CASE Tick
  <2>1. UNCHANGED <<daemon, sub, docker, certs, faults, wk, events, eventsOpen, batches,
                    cancelled, told, atCancel>>
    BY <1>5 DEF Tick, world, channels, history
  <2>2. LP!IInv'
    <3>1. LP!Age
      BY <1>5 DEF Tick, LP!Age, Listen!Age, LP!Saturated, Listen!Saturated, LP!Least,
                  Listen!Least, LP!Off, Listen!Off
    <3> QED
      BY <2>1, <3>1, LP!TickKeeps DEF IInv
  <2>3. DP!IInv'
    <3>1. ~DP!Busy
      BY <1>5 DEF Tick, DP!Busy, Debounce!Busy
    <3>2. DP!Age
      BY <1>5 DEF Tick, DP!Age, Debounce!Age, DP!Saturated, Debounce!Saturated,
                  DP!Least, Debounce!Least, DP!Off, Debounce!Off
    <3> QED
      BY <2>1, <3>1, <3>2, DP!TickKeeps DEF IInv
  <2>4. lis'.phase = lis.phase /\ deb'.pending = deb.pending
    BY <1>5 DEF Tick, Listen!Age, Debounce!Age, IInv, LP!IInv, LP!LisTypes,
                LP!Listeners, DP!IInv, DP!Counts, DP!Records
  <2>5. World' /\ Known' /\ LastRun' /\ ShutdownSeesEverything' /\ NothingLost'
    BY <2>1, <2>4 DEF IInv, World, Known, LastRun, ShutdownSeesEverything, NothingLost,
                      Underway
  <2> QED
    BY <2>2, <2>3, <2>5 DEF IInv
<1>6. CASE (\E own \in BOOLEAN : ContainerChanges(own)) \/ DaemonChanges
  <2>1. UNCHANGED <<certs, faults, lis, health, deb, wk, events, batches, cancelled,
                    told, atCancel>>
    BY <1>6 DEF ContainerChanges, DaemonChanges, world, channels, history
  <2>2. docker' \in {docker, docker + 1}
    BY <1>6 DEF ContainerChanges, DaemonChanges, world
  <2>3. LP!IInv'
    <3>1. LP!Daemon
      BY <1>6 DEF ContainerChanges, DaemonChanges, LP!Daemon, LP!Happens,
                  Listen!Happens, LP!Breaks, Listen!Breaks, LP!Recovers,
                  Listen!Recovers, LP!NoSubscription, Listen!NoSubscription
    <3> QED
      BY <2>1, <3>1, LP!DaemonKeeps DEF IInv, LP!listener
  <2>4. DP!IInv'
    BY <2>1, DP!OthersKeep DEF IInv
  <2>5. World' /\ Known' /\ LastRun' /\ ShutdownSeesEverything' /\ NothingLost'
    BY <2>1, <2>2 DEF IInv, World, Known, Workers, LastRun, ShutdownSeesEverything,
                      NothingLost, Underway
  <2> QED
    BY <2>3, <2>4, <2>5 DEF IInv
<1>7. CASE CertificateChanges \/ Cancel \/ UNCHANGED vars
  <2>1. UNCHANGED <<daemon, sub, outage, docker, faults, lis, health, deb, wk, events,
                    batches, told>>
    BY <1>7 DEF CertificateChanges, Work!CertificateChanges, Cancel, vars, stream,
                world, channels, history
  <2>2. certs' \in {certs, certs + 1}
    BY <1>7 DEF CertificateChanges, Work!CertificateChanges, Cancel, vars, world
  <2>3. \/ cancelled' = cancelled /\ atCancel' = atCancel
        \/ ~cancelled /\ cancelled' /\ atCancel' = docker
    BY <1>7 DEF CertificateChanges, Work!CertificateChanges, Cancel, vars, history
  <2>4. LP!IInv'
    BY <2>1, LP!OthersKeep DEF IInv
  <2>5. DP!IInv'
    BY <2>1, DP!OthersKeep DEF IInv
  <2>6. World' /\ Known'
    BY <2>1, <2>2, <2>3 DEF IInv, World, Known, Workers
  <2>7. LastRun' /\ ShutdownSeesEverything' /\ NothingLost'
    BY <2>1, <2>3 DEF IInv, LastRun, ShutdownSeesEverything, NothingLost, Underway,
                      Final
  <2> QED
    BY <2>4, <2>5, <2>6, <2>7 DEF IInv
<1> QED
  BY <1>1, <1>2, <1>3, <1>4, <1>5, <1>6, <1>7 DEF Next

LEMMA Invariant == Spec => []IInv
BY InitIInv, NextIInv, PTL DEF Spec

LEMMA FlagsHold == Spec => [](eventsOpen \in BOOLEAN /\ cancelled \in BOOLEAN)
<1> DEFINE F == eventsOpen \in BOOLEAN /\ cancelled \in BOOLEAN
<1>1. Init => F
  BY Zenon DEF Init
<1>2. F /\ [Next]_vars => F'
  <2> SUFFICES ASSUME F, [Next]_vars PROVE F'
      OBVIOUS
  <2>1. CASE Listening \/ Debouncing \/ Working
    BY <2>1, Zenon DEF Listening, Listen!Step, Listen!Leave, Debouncing,
                       Debounce!Step, Working, Work!Step
  <2>2. CASE ResyncTicks \/ PollTicks \/ Tick
    BY <2>2, Zenon DEF ResyncTicks, Work!ResyncTicks, PollTicks, Work!PollTicks, Tick,
                       channels
  <2>3. CASE \/ \E own \in BOOLEAN : ContainerChanges(own)
             \/ DaemonChanges \/ CertificateChanges \/ Cancel \/ UNCHANGED vars
    BY <2>3, Zenon DEF ContainerChanges, DaemonChanges, CertificateChanges,
                       Work!CertificateChanges, Cancel, vars, channels
  <2> QED
    BY <2>1, <2>2, <2>3, Zenon DEF Next
<1> QED
  BY <1>1, <1>2, PTL DEF Spec

\* The type invariant of the composition: the channels keep within their
\* capacity, and nobody knows more than there is.
THEOREM TypesHold == Spec => []TypeOK
<1> DEFINE F == eventsOpen \in BOOLEAN /\ cancelled \in BOOLEAN
<1>1. IInv /\ F => Listen!TypeOK
  BY DEF IInv, LP!IInv, LP!LisTypes, LP!StreamTypes, LP!HealthTypes, LP!Listeners,
         LP!Daemons, LP!Subscriptions, LP!Healths, LP!Off, Listen!TypeOK, Listen!Off
<1>2. IInv /\ F => Debounce!TypeOK
  BY DEF IInv, DP!IInv, DP!Counts, DP!Records, DP!Phases, DP!Off, Debounce!TypeOK,
         Debounce!Phases, Debounce!Off
<1>3. ASSUME World, Known
      PROVE  wk \in [phase: {"start", "apply", "select", "flush", "last", "done"},
                     tried: 0..docker, seen: 0..docker, hash: 0..certs,
                     done: 0..docker, hosts: 0..certs, resync: BOOLEAN, poll: BOOLEAN]
  BY <1>3 DEF World, Known, Workers, Final
<1>4. IInv /\ F => TypeOK
  BY <1>1, <1>2, <1>3 DEF IInv, World, Known, TypeOK
<1> QED
  BY <1>4, Invariant, FlagsHold, PTL

\* No received event is forgotten, whatever the capacities of the channels, the
\* timers and the speed of the worker (main.go, run).
THEOREM NoEventIsLost == Spec => []NothingLost
<1>1. IInv => NothingLost
  BY DEF IInv
<1> QED
  BY <1>1, Invariant, PTL

\* A shutdown without a failing call leaves NPM in line with all that Docker was
\* when the signal came (Worker.flush).
THEOREM ShutdownsSeeEverything == Spec => []ShutdownSeesEverything
<1>1. IInv => ShutdownSeesEverything
  BY DEF IInv
<1> QED
  BY <1>1, Invariant, PTL

---------------------------------------------------------------------------
(* Refinement: the pipeline is one flag.                                   *)

\* What a step does as far as the flag is concerned.
Quiet == /\ UNCHANGED <<docker, told, cancelled>> /\ wk'.tried = wk.tried
         /\ Underway => Underway' \/ cancelled
Reported == UNCHANGED <<docker, cancelled>> /\ told' = docker /\ Underway'
            /\ wk'.tried = wk.tried
Looked == UNCHANGED <<docker, told, cancelled>> /\ wk'.tried = docker
          /\ (Underway \/ cancelled)
Changed == /\ docker' \in {docker, docker + 1} /\ UNCHANGED <<told, cancelled>>
           /\ wk'.tried = wk.tried /\ (Underway' <=> Underway)
Ended == cancelled' /\ UNCHANGED <<docker, told>> /\ wk'.tried = wk.tried
         /\ (Underway' <=> Underway)

LEMMA StepsOfTheFlag ==
  ASSUME IInv, [Next]_vars PROVE Quiet \/ Reported \/ Looked \/ Changed \/ Ended
<1> USE Assumptions, Counters
<1>1. CASE Listening
  <2>1. UNCHANGED <<docker, deb, wk, batches, cancelled>>
    BY <1>1 DEF Listening, world, Listen!Step
  <2>2. told' = IF lis.phase = "stream" /\ lis'.phase = "send" THEN docker ELSE told
    BY <1>1 DEF Listening
  <2>3. CASE lis.phase = "stream" /\ lis'.phase = "send"
    BY <2>1, <2>2, <2>3 DEF Reported, Underway
  <2>4. CASE ~(lis.phase = "stream" /\ lis'.phase = "send")
    BY <1>1, <2>1, <2>2, <2>4, ListenerSteps DEF Listening, Quiet, Underway, IInv
  <2> QED
    BY <2>3, <2>4
<1>2. CASE Debouncing
  <2>1. UNCHANGED <<docker, lis, wk, told, cancelled>>
    BY <1>2 DEF Debouncing, world, history, Debounce!Step
  <2> QED
    BY <1>2, <2>1, DebouncerSteps DEF Debouncing, Quiet, Underway, IInv
<1>3. CASE Working
  <2>1. UNCHANGED <<docker, lis, deb, events, told, atCancel, cancelled>>
    BY <1>3 DEF Working, history, Work!Step
  <2> QED
    BY <1>3, <2>1, WorkerSteps DEF Working, Quiet, Looked, Underway, IInv
<1>4. CASE ResyncTicks \/ PollTicks
  <2>1. UNCHANGED <<docker, lis, deb, events, batches, told, cancelled>>
    BY <1>4 DEF ResyncTicks, PollTicks, Work!ResyncTicks, Work!PollTicks, history,
                Work!world
  <2>2. wk'.phase = wk.phase /\ wk'.tried = wk.tried
    BY <1>4 DEF ResyncTicks, PollTicks, Work!ResyncTicks, Work!PollTicks, IInv, Known,
                Workers
  <2> QED
    BY <2>1, <2>2 DEF Quiet, Underway
<1>5. CASE Tick
  <2>1. UNCHANGED <<docker, wk, events, batches, told, cancelled>>
    BY <1>5 DEF Tick, world, channels, history
  <2>2. lis'.phase = lis.phase /\ deb'.pending = deb.pending
    BY <1>5 DEF Tick, Listen!Age, Debounce!Age, IInv, LP!IInv, LP!LisTypes,
                LP!Listeners, DP!IInv, DP!Counts, DP!Records
  <2> QED
    BY <2>1, <2>2 DEF Quiet, Underway
<1>6. CASE (\E own \in BOOLEAN : ContainerChanges(own)) \/ DaemonChanges
  <2>1. UNCHANGED <<lis, deb, wk, events, batches, cancelled, told>>
    BY <1>6 DEF ContainerChanges, DaemonChanges, channels, history
  <2>2. docker' \in {docker, docker + 1}
    BY <1>6 DEF ContainerChanges, DaemonChanges, world
  <2> QED
    BY <2>1, <2>2 DEF Changed, Underway
<1>7. CASE CertificateChanges \/ Cancel \/ UNCHANGED vars
  <2>1. UNCHANGED <<docker, lis, deb, wk, events, batches, told>>
    BY <1>7 DEF CertificateChanges, Work!CertificateChanges, Cancel, vars, world,
                channels, history
  <2>2. cancelled' = cancelled \/ cancelled'
    BY <1>7 DEF CertificateChanges, Work!CertificateChanges, Cancel, vars
  <2> QED
    BY <2>1, <2>2 DEF Quiet, Ended, Underway
<1> QED
  BY <1>1, <1>2, <1>3, <1>4, <1>5, <1>6, <1>7 DEF Next

\* Listener, debouncer and worker implement the notifier: what is reported is
\* followed by a look at Docker, and nothing but a look or a shutdown lowers the
\* flag (main.go, run; ARCHITECTURE.md: "Events are only a trigger").
THEOREM PipelineIsANotifier == Spec => ImplementsNotifier
<1>1. Init => Flag!Init
  BY DEF Init, Flag!Init, Underway, Work!NewWorker
<1>2. IInv /\ [Next]_vars => [Flag!Next]_Flag!vars
  <2> SUFFICES ASSUME IInv, [Next]_vars PROVE Flag!Next \/ UNCHANGED Flag!vars
      OBVIOUS
  <2>1. CASE Quiet
    <3>1. CASE Underway' <=> Underway
      BY <2>1, <3>1 DEF Quiet, Flag!vars
    <3>2. CASE Underway' /\ ~Underway
      BY <2>1, <3>2 DEF Quiet, Flag!Next, Flag!Raise
    <3>3. CASE ~Underway' /\ Underway
      BY <2>1, <3>3 DEF Quiet, Flag!Next, Flag!Drop
    <3> QED
      BY <3>1, <3>2, <3>3
  <2>2. CASE Reported
    BY <2>2 DEF Reported, Flag!Next, Flag!Tell
  <2>3. CASE Looked
    <3>1. Underway' \in BOOLEAN
      BY Zenon DEF Underway
    <3>2. Flag!Look
      BY <2>3, <3>1, Zenon DEF Looked, Flag!Look
    <3> QED
      BY <3>2 DEF Flag!Next
  <2>4. CASE Changed
    <3>1. UNCHANGED <<told, wk.tried, Underway, ~cancelled>>
      BY <2>4, Zenon DEF Changed, Underway
    <3>2. CASE docker' = docker
      BY <3>1, <3>2 DEF Flag!vars
    <3>3. CASE docker' = docker + 1
      BY <3>1, <3>3 DEF Flag!Next, Flag!Change
    <3> QED
      BY <2>4, <3>2, <3>3 DEF Changed
  <2>5. CASE Ended
    <3>1. UNCHANGED <<docker, told, wk.tried, Underway>>
      BY <2>5, Zenon DEF Ended, Underway
    <3>2. (~cancelled)' = FALSE
      BY <2>5, Zenon DEF Ended
    <3> QED
      BY <3>1, <3>2 DEF Flag!Next, Flag!Stop
  <2> QED
    BY <2>1, <2>2, <2>3, <2>4, <2>5, StepsOfTheFlag
<1> QED
  BY <1>1, <1>2, Invariant, PTL DEF Spec, ImplementsNotifier, Flag!Spec

\* The flag alone guarantees that what was reported and not looked at yet keeps it up:
\* what is reported is at most the present, and a look is at the present.
THEOREM ReportsAreFollowedUp == Flag!Spec => []Flag!NothingForgotten
<1> DEFINE Inv == /\ docker \in Nat /\ told \in 0..docker /\ wk.tried \in 0..docker
                  /\ Flag!NothingForgotten
<1>1. Flag!Init => Inv
  BY DEF Flag!Init, Flag!NothingForgotten
<1>2. Inv /\ [Flag!Next]_Flag!vars => Inv'
  BY DEF Flag!Next, Flag!Change, Flag!Tell, Flag!Raise, Flag!Look, Flag!Stop, Flag!Drop,
         Flag!vars, Flag!NothingForgotten
<1> QED
  BY <1>1, <1>2, PTL DEF Flag!Spec

=============================================================================
