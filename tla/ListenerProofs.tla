-------------------------- MODULE ListenerProofs --------------------------
(***************************************************************************)
(* Proofs about the event listener, for every delay, grace and capacity:   *)
(* the type invariant, the health it reports, and the delay after which a  *)
(* working stream is subscribed again.                                     *)
(***************************************************************************)
EXTENDS Listener, TLAPS

\* The type invariant in parts, with the number of messages under way.
Flags == eventsOpen \in BOOLEAN /\ cancelled \in BOOLEAN
Listeners == [phase: {"subscribe", "stream", "send", "wait", "done"},
              backoff: ReconnectMin..ReconnectMax,
              timer: {Off} \cup 0..ReconnectMax, heard: BOOLEAN, refused: BOOLEAN]
Daemons == [state: {"up", "refuses", "silent"}, events: 0..MaxEvents,
            outages: 0..MaxOutages]
Subscriptions == [open: BOOLEAN, other: 0..MaxEvents, own: 0..MaxEvents]
Healths == [up: BOOLEAN, since: {Off} \cup 0..(StreamGrace + 1)]

LisTypes == lis \in Listeners /\ (lis.timer # Off <=> lis.phase = "wait")
StreamTypes ==
  /\ daemon \in Daemons /\ sub \in Subscriptions
  /\ daemon.events + sub.other + sub.own <= MaxEvents
HealthTypes ==
  health \in Healths /\ outage \in 0..(StreamGrace + 1) /\ events \in 0..EventCap

\* The health follows the phase, nothing is subscribed between two streams, and
\* a stream that delivered something has reset the delay.
Up == lis.phase \in {"stream", "send"}
HealthFollows == lis.phase # "done" => (health.up <=> Up)
OneStream == sub.open => Up
HeardResets == lis.heard /\ Up => lis.backoff = ReconnectMin

IInv == LisTypes /\ StreamTypes /\ HealthTypes /\ HealthFollows /\ OneStream
        /\ HeardResets

LEMMA FlagsHold == Spec => []Flags
<1>1. Init => Flags
  BY Zenon DEF Init, Flags
<1>2. Flags /\ [Next]_vars => Flags'
  BY Zenon DEF Flags, vars, channel, Next, Step, Subscribe, SkipOwn, Receive, Send,
               StreamFails, Retry, Leave, Consume, Cancel, Tick
<1> QED
  BY <1>1, <1>2, PTL DEF Spec

LEMMA InitIInv == Init => IInv
<1> SUFFICES ASSUME Init PROVE IInv
    OBVIOUS
<1> USE ListenerAssumption DEF Off
<1>1. LisTypes
  BY DEF Init, LisTypes, Listeners, NewListener
<1>2. StreamTypes
  BY DEF Init, StreamTypes, Daemons, Subscriptions, NoSubscription
<1>3. HealthTypes
  BY DEF Init, HealthTypes, Healths, HealthUnknown
<1>4. HealthFollows /\ OneStream /\ HeardResets
  BY DEF Init, HealthFollows, OneStream, HeardResets, Up, NewListener,
         NoSubscription, HealthUnknown
<1> QED
  BY <1>1, <1>2, <1>3, <1>4 DEF IInv

\* The daemon's steps, and those of whoever reads the events.
LEMMA DaemonKeeps ==
  ASSUME IInv, Daemon, UNCHANGED listener, UNCHANGED events PROVE IInv'
<1> USE ListenerAssumption DEF IInv
<1>1. StreamTypes'
  <2>1. CASE \E own \in BOOLEAN : Happens(own)
    BY <2>1 DEF StreamTypes, Daemons, Subscriptions, Happens
  <2>2. CASE \E to \in Outages : Breaks(to)
    <3>1. PICK to \in Outages : Breaks(to)
      BY <2>2
    <3>2. daemon' \in Daemons /\ daemon'.events = daemon.events
      <4>1. daemon' = [daemon EXCEPT !.state = to, !.outages = @ - 1]
        BY <3>1 DEF Breaks
      <4>2. daemon.outages - 1 \in 0..MaxOutages /\ to \in {"up", "refuses", "silent"}
        BY <3>1 DEF Breaks, StreamTypes, Daemons
      <4> QED
        BY <4>1, <4>2 DEF StreamTypes, Daemons
    <3>3. sub' \in Subscriptions /\ sub'.other + sub'.own <= sub.other + sub.own
      <4>1. CASE sub' = NoSubscription
        BY <4>1 DEF StreamTypes, Subscriptions, NoSubscription
      <4>2. CASE sub' = [sub EXCEPT !.open = FALSE]
        <5>1. sub' \in Subscriptions
          BY <4>2 DEF StreamTypes, Subscriptions
        <5>2. sub'.other = sub.other /\ sub'.own = sub.own
          BY <4>2 DEF StreamTypes, Subscriptions
        <5> QED
          BY <5>1, <5>2 DEF StreamTypes, Subscriptions
      <4> QED
        BY <3>1, <4>1, <4>2 DEF Breaks
    <3> QED
      BY <3>2, <3>3 DEF StreamTypes, Daemons, Subscriptions
  <2>3. CASE Recovers
    BY <2>3 DEF StreamTypes, Daemons, Subscriptions, Recovers
  <2> QED
    BY <2>1, <2>2, <2>3 DEF Daemon
<1>2. outage' = outage /\ (sub'.open => sub.open)
  <2>1. ASSUME NEW own \in BOOLEAN, Happens(own) PROVE sub'.open = sub.open
    BY <2>1 DEF Happens, StreamTypes, Subscriptions
  <2>2. ASSUME NEW to \in Outages, Breaks(to) PROVE ~sub'.open
    BY <2>2 DEF Breaks, StreamTypes, Subscriptions, NoSubscription
  <2> QED
    BY <2>1, <2>2 DEF Daemon, Happens, Breaks, Recovers
<1>3. lis' = lis /\ health' = health /\ events' = events
  BY DEF listener
<1> QED
  BY <1>1, <1>2, <1>3 DEF LisTypes, HealthTypes, HealthFollows, OneStream, HeardResets, Up

\* What setStreamStatus leaves.
LEMMA SetHealthTypes ==
  ASSUME NEW up \in BOOLEAN, HealthTypes, SetHealth(up)
  PROVE  health' \in Healths /\ health'.up = up
BY ListenerAssumption DEF HealthTypes, Healths, SetHealth, Off

\* The listener's own steps.
LEMMA StepKeeps == ASSUME IInv, Step PROVE IInv'
<1> USE ListenerAssumption DEF IInv, Off
<1>1. daemon' = daemon /\ outage' \in 0..(StreamGrace + 1)
  BY DEF Step, HealthTypes
<1>2. CASE Subscribe
  <2> DEFINE refused == daemon.state = "refuses"
  <2>1. /\ lis.phase = "subscribe" /\ refused \in BOOLEAN
        /\ lis' = [lis EXCEPT !.phase = "stream", !.heard = FALSE, !.refused = refused]
    BY <1>2 DEF Subscribe
  <2> HIDE DEF refused
  <2>2. LisTypes' /\ HeardResets' /\ lis'.phase = "stream"
    BY <2>1 DEF LisTypes, Listeners, HeardResets
  <2>3. StreamTypes'
    <3>1. sub' \in Subscriptions /\ sub'.other = 0 /\ sub'.own = 0
      <4> DEFINE up == daemon.state = "up"
      <4>1. sub' = [NoSubscription EXCEPT !.open = up] /\ up \in BOOLEAN
        BY <1>2 DEF Subscribe
      <4> HIDE DEF up
      <4> QED
        BY <4>1 DEF Subscriptions, NoSubscription
    <3> QED
      BY <1>1, <3>1 DEF StreamTypes, Daemons
  <2>4. health' \in Healths /\ health'.up = TRUE
    BY <1>2, SetHealthTypes DEF Subscribe
  <2>5. HealthTypes'
    BY <1>1, <1>2, <2>4 DEF HealthTypes, Subscribe
  <2> QED
    BY <2>2, <2>3, <2>4, <2>5 DEF HealthFollows, OneStream, Up
<1>3. CASE SkipOwn \/ Receive
  <2>1. PICK ph \in {"stream", "send"} :
          lis' = [lis EXCEPT !.phase = ph, !.backoff = ReconnectMin, !.heard = TRUE]
    <3>1. CASE SkipOwn
      <4>1. /\ lis.phase = "stream" /\ lis \in Listeners
            /\ lis' = [lis EXCEPT !.backoff = ReconnectMin, !.heard = TRUE]
        BY <3>1 DEF SkipOwn, LisTypes
      <4>2. lis' = [lis EXCEPT !.phase = "stream", !.backoff = ReconnectMin, !.heard = TRUE]
        BY <4>1 DEF Listeners
      <4> QED
        BY <4>2
    <3>2. CASE Receive
      BY <3>2 DEF Receive
    <3> QED
      BY <1>3, <3>1, <3>2
  <2>2. lis.phase = "stream"
    BY <1>3 DEF SkipOwn, Receive
  <2>3. LisTypes' /\ HeardResets'
    <3>1. ReconnectMin \in ReconnectMin..ReconnectMax
      OBVIOUS
    <3>2. /\ lis' \in Listeners /\ lis'.phase = ph /\ lis'.timer = lis.timer
          /\ lis'.backoff = ReconnectMin
      BY <2>1, <3>1 DEF LisTypes, Listeners
    <3> QED
      BY <2>2, <3>2 DEF LisTypes, HeardResets
  <2>4. StreamTypes' /\ sub'.open = sub.open
    BY <1>1, <1>3 DEF SkipOwn, Receive, StreamTypes, Daemons, Subscriptions
  <2>5. HealthTypes' /\ health' = health
    BY <1>1, <1>3 DEF SkipOwn, Receive, HealthTypes
  <2>6. lis'.phase \in {"stream", "send"}
    BY <2>1 DEF LisTypes, Listeners
  <2> QED
    BY <2>2, <2>3, <2>4, <2>5, <2>6 DEF HealthFollows, OneStream, Up
<1>4. CASE Send
  <2>1. lis.phase = "send" /\ lis' = [lis EXCEPT !.phase = "stream"]
    BY <1>4 DEF Send
  <2>2. LisTypes' /\ lis'.phase = "stream" /\ lis'.heard = lis.heard
        /\ lis'.backoff = lis.backoff
    BY <2>1 DEF LisTypes, Listeners
  <2>3. HealthTypes' /\ health' = health /\ sub' = sub
    BY <1>1, <1>4 DEF Send, HealthTypes
  <2> QED
    BY <1>1, <2>1, <2>2, <2>3 DEF StreamTypes, HealthFollows, OneStream, HeardResets, Up
<1>5. CASE StreamFails
  <2>1. lis.phase = "stream" /\ lis' = [lis EXCEPT !.phase = "wait", !.timer = lis.backoff]
    BY <1>5 DEF StreamFails
  <2>2. LisTypes' /\ lis'.phase = "wait"
    <3>1. lis.backoff \in {Off} \cup 0..ReconnectMax /\ lis.backoff # Off
      BY DEF LisTypes, Listeners
    <3> QED
      BY <2>1, <3>1 DEF LisTypes, Listeners
  <2>3. health' \in Healths /\ health'.up = FALSE
    BY <1>5, SetHealthTypes DEF StreamFails
  <2>4. HealthTypes' /\ StreamTypes' /\ ~sub'.open
    BY <1>1, <1>5, <2>3 DEF StreamFails, HealthTypes, StreamTypes, NoSubscription
  <2> QED
    BY <2>2, <2>3, <2>4 DEF HealthFollows, OneStream, HeardResets, Up
<1>6. CASE Retry
  <2> DEFINE b == Least(2 * lis.backoff, ReconnectMax)
  <2>1. lis.phase = "wait"
        /\ lis' = [lis EXCEPT !.phase = "subscribe", !.timer = Off, !.backoff = b]
    BY <1>6 DEF Retry
  <2>2. b \in ReconnectMin..ReconnectMax
    BY DEF LisTypes, Listeners, Least
  <2> HIDE DEF b
  <2>3. LisTypes' /\ lis'.phase = "subscribe"
    BY <2>1, <2>2 DEF LisTypes, Listeners
  <2>4. health' = health /\ sub' = sub /\ events' = events
    BY <1>6 DEF Retry
  <2> QED
    BY <1>1, <2>1, <2>3, <2>4
       DEF HealthTypes, StreamTypes, HealthFollows, OneStream, HeardResets, Up
<1>7. CASE Leave
  <2>1. lis' = [lis EXCEPT !.phase = "done", !.timer = Off]
    BY <1>7 DEF Leave
  <2>2. LisTypes' /\ lis'.phase = "done"
    BY <2>1 DEF LisTypes, Listeners
  <2>3. HealthTypes' /\ StreamTypes' /\ ~sub'.open
    BY <1>1, <1>7 DEF Leave, HealthTypes, StreamTypes, Daemons, Subscriptions, NoSubscription
  <2> QED
    BY <2>2, <2>3 DEF HealthFollows, OneStream, HeardResets, Up
<1> QED
  BY <1>2, <1>3, <1>4, <1>5, <1>6, <1>7 DEF Step

LEMMA TickKeeps == ASSUME IInv, Age, UNCHANGED <<daemon, sub, events>> PROVE IInv'
<1> USE ListenerAssumption DEF IInv, Off
<1>1. /\ lis' \in Listeners /\ lis'.phase = lis.phase /\ lis'.heard = lis.heard
      /\ lis'.backoff = lis.backoff /\ (lis'.timer # Off <=> lis.timer # Off)
  <2>1. CASE lis.timer > 0
    BY <2>1 DEF Age, LisTypes, Listeners
  <2>2. CASE ~(lis.timer > 0)
    BY <2>2 DEF Age, LisTypes
  <2> QED
    BY <2>1, <2>2
<1>2. health' \in Healths /\ health'.up = health.up
  <2>1. CASE health.since = Off
    BY <2>1 DEF Age, HealthTypes
  <2>2. CASE health.since # Off
    BY <2>2 DEF Age, HealthTypes, Healths, Saturated, Least
  <2> QED
    BY <2>1, <2>2
<1>3. outage' \in 0..(StreamGrace + 1)
  BY DEF Age, HealthTypes, Saturated, Least
<1> QED
  BY <1>1, <1>2, <1>3
     DEF LisTypes, HealthTypes, StreamTypes, HealthFollows, OneStream, HeardResets, Up

\* What others do to its channel and the context.
LEMMA OthersKeep ==
  ASSUME IInv, UNCHANGED <<daemon, sub, outage, lis, health>>, events' \in 0..EventCap
  PROVE  IInv'
BY DEF IInv, LisTypes, StreamTypes, HealthTypes, HealthFollows, OneStream, HeardResets, Up

LEMMA NextIInv == IInv /\ [Next]_vars => IInv'
<1> SUFFICES ASSUME IInv, [Next]_vars PROVE IInv'
    OBVIOUS
<1>1. CASE Step
  BY <1>1, StepKeeps
<1>2. CASE Daemon /\ UNCHANGED <<listener, channel, cancelled>>
  BY <1>2, DaemonKeeps DEF channel
<1>3. CASE Tick
  BY <1>3, TickKeeps DEF Tick, channel
<1>4. CASE Consume \/ Cancel \/ UNCHANGED vars
  <2>1. UNCHANGED <<daemon, sub, outage, lis, health>>
    BY <1>4 DEF Consume, Cancel, vars, stream, listener
  <2>2. events' \in 0..EventCap
    BY <1>4, ListenerAssumption
       DEF Consume, Cancel, vars, channel, IInv, HealthTypes
  <2> QED
    BY <2>1, <2>2, OthersKeep
<1> QED
  BY <1>1, <1>2, <1>3, <1>4 DEF Next

LEMMA Invariant == Spec => []IInv
BY InitIInv, NextIInv, PTL DEF Spec

\* The type invariant: delays stay within reconnectMin and reconnectMax however
\* many attempts fail (Watch).
THEOREM TypesHold == Spec => []TypeOK
<1>1. IInv /\ Flags => TypeOK
  BY DEF IInv, Flags, TypeOK, LisTypes, StreamTypes, HealthTypes, Listeners, Daemons,
         Subscriptions, Healths
<1> QED
  BY <1>1, Invariant, FlagsHold, PTL

\* Whenever the listener waits, the health it reports is that of its
\* subscription (setStreamStatus).
THEOREM HealthIsThatOfTheStream == Spec => []HealthIsCurrent
<1>1. IInv => HealthIsCurrent
  BY DEF IInv, HealthIsCurrent, HealthFollows, OneStream, Up, Busy, LisTypes, Listeners
<1> QED
  BY <1>1, Invariant, PTL

\* The listener starts to wait only when its stream has failed.
LEMMA OnlyFailuresWait ==
  ASSUME lis \in Listeners, Next, lis.phase = "stream", lis'.phase = "wait"
  PROVE  StreamFails
<1>1. ~Subscribe /\ ~Send /\ ~Retry
  BY Zenon DEF Subscribe, Send, Retry
<1>2. ~SkipOwn
  BY DEF Listeners, SkipOwn
<1>3. ~Receive
  BY DEF Listeners, Receive
<1>4. ~Leave
  BY DEF Listeners, Leave
<1>5. ~(Consume \/ Cancel \/ Tick \/ UNCHANGED listener)
  BY DEF Listeners, Consume, Cancel, Tick, Age, listener
<1> QED
  BY <1>1, <1>2, <1>3, <1>4, <1>5 DEF Next, Step

\* After a stream that worked, the next attempt follows after reconnectMin, no
\* matter how many attempts failed before it (Watch).
THEOREM DelaysAreReset == Spec => WorkingStreamsReturnSoon
<1> DEFINE Soon == lis.phase = "stream" /\ lis'.phase = "wait" /\ lis.heard =>
                     lis'.timer = ReconnectMin
<1>1. IInv /\ [Next]_vars => [Soon]_vars
  <2> SUFFICES ASSUME IInv, Next, lis.phase = "stream", lis'.phase = "wait", lis.heard
               PROVE  lis'.timer = ReconnectMin
      OBVIOUS
  <2>1. StreamFails
    BY OnlyFailuresWait DEF IInv, LisTypes
  <2> QED
    BY <2>1 DEF StreamFails, IInv, HeardResets, Up, LisTypes, Listeners
<1> QED
  BY <1>1, Invariant, PTL DEF Spec, WorkingStreamsReturnSoon

---------------------------------------------------------------------------
(* Outages without refused connections.                                    *)

\* Unless the last attempt was refused: while the stream is up no outage is
\* counted, and while it is down the age of the health is at least that of the
\* outage.
AgesAgree ==
  lis.phase # "done" /\ ~lis.refused =>
    IF health.up THEN outage = 0 ELSE health.since # Off => health.since >= outage

\* An outage that lasts longer than StreamDownGrace makes the readiness probe
\* fail, if connections hang since the stream was lost (Status.Ready).  The run
\* "readiness" shows that it does not if they are refused.
THEOREM LostStreamsAreReported == Spec => []LostStreamIsReported
<1>1. Init => AgesAgree
  BY DEF Init, AgesAgree, HealthUnknown
<1>2. IInv /\ AgesAgree /\ [Next]_vars => AgesAgree'
  <2> SUFFICES ASSUME IInv, AgesAgree, [Next]_vars PROVE AgesAgree'
      OBVIOUS
  <2> USE ListenerAssumption DEF IInv, Off
  <2>1. CASE Step
    <3>1. CASE Subscribe
      <4>1. CASE daemon.state = "refuses"
        <5>1. lis'.refused
          BY <3>1, <4>1 DEF Subscribe, LisTypes, Listeners
        <5> QED
          BY <5>1 DEF AgesAgree
      <4>2. CASE daemon.state # "refuses"
        <5>1. sub'.open
          BY <3>1, <4>2 DEF Subscribe, StreamTypes, Daemons, NoSubscription
        <5>2. outage' = 0 /\ health'.up
          BY <2>1, <3>1, <5>1, SetHealthTypes DEF Step, Subscribe
        <5> QED
          BY <5>2 DEF AgesAgree
      <4> QED
        BY <4>1, <4>2
    <3>2. CASE SkipOwn \/ Receive \/ Send \/ Retry
      <4>1. health' = health /\ lis.phase # "done"
        BY <3>2 DEF SkipOwn, Receive, Send, Retry
      <4>2. outage' = 0 \/ outage' = outage
        BY <2>1 DEF Step
      <4>3. lis'.refused = lis.refused
        BY <3>2 DEF SkipOwn, Receive, Send, Retry, LisTypes, Listeners
      <4> QED
        BY <4>1, <4>2, <4>3 DEF AgesAgree, HealthTypes, Healths
    <3>3. CASE StreamFails
      <4>1. lis'.refused = lis.refused
        BY <3>3 DEF StreamFails, LisTypes, Listeners
      <4>2. ~lis.refused => outage = 0
        BY <3>3 DEF StreamFails, HealthFollows, Up, AgesAgree
      <4>3. ~lis.refused => outage' = 0
        BY <2>1, <4>2 DEF Step
      <4>4. health' \in Healths /\ health'.up = FALSE
        BY <3>3, SetHealthTypes DEF StreamFails
      <4> QED
        BY <4>1, <4>3, <4>4 DEF AgesAgree, Healths
    <3>4. CASE Leave
      <4>1. lis'.phase = "done"
        BY <3>4 DEF Leave, LisTypes, Listeners
      <4> QED
        BY <4>1 DEF AgesAgree
    <3> QED
      BY <2>1, <3>1, <3>2, <3>3, <3>4 DEF Step
  <2>2. CASE Tick
    <3>1. lis'.phase = lis.phase /\ lis'.refused = lis.refused
      BY <2>2 DEF Tick, Age, LisTypes, Listeners
    <3>2. CASE lis.phase = "done"
      BY <3>1, <3>2 DEF AgesAgree
    <3>3. CASE lis.phase # "done" /\ health.up
      <4>1. sub.open \/ lis.phase = "send"
        BY <2>2, <3>3 DEF Tick, Busy, HealthFollows, Up
      <4>2. outage' = 0
        BY <2>2, <4>1 DEF Tick, Age
      <4>3. health'.up
        BY <2>2, <3>3 DEF Tick, Age, HealthTypes, Healths
      <4> QED
        BY <4>2, <4>3 DEF AgesAgree
    <3>4. CASE lis.phase # "done" /\ ~health.up
      <4>1. ~health'.up
        BY <2>2, <3>4 DEF Tick, Age, HealthTypes, Healths
      <4>2. outage' = 0 \/ outage' = Saturated(outage)
        BY <2>2 DEF Tick, Age
      <4>3. CASE health.since = Off
        BY <2>2, <4>1, <4>3 DEF Tick, Age, AgesAgree
      <4>4. CASE health.since # Off
        <5>1. health'.since = Saturated(health.since)
          BY <2>2, <4>4 DEF Tick, Age, HealthTypes, Healths
        <5>2. ~lis.refused => /\ Saturated(health.since) >= Saturated(outage)
                              /\ Saturated(health.since) >= 0
          BY <3>4, <4>4 DEF AgesAgree, HealthTypes, Healths, Saturated, Least
        <5> QED
          BY <3>1, <4>1, <4>2, <5>1, <5>2 DEF AgesAgree
      <4> QED
        BY <4>3, <4>4
    <3> QED
      BY <3>2, <3>3, <3>4
  <2>3. CASE Consume \/ Cancel \/ UNCHANGED vars
            \/ (Daemon /\ UNCHANGED <<listener, channel, cancelled>>)
    <3>1. lis' = lis /\ health' = health /\ outage' = outage
      BY <2>3 DEF Consume, Cancel, vars, stream, listener, Daemon, Happens, Breaks,
                  Recovers
    <3> QED
      BY <3>1 DEF AgesAgree
  <2> QED
    BY <2>1, <2>2, <2>3 DEF Next
<1>3. IInv /\ AgesAgree => LostStreamIsReported
  BY ListenerAssumption
     DEF IInv, AgesAgree, HealthTypes, Healths, LostStreamIsReported, StreamReady,
         Down, Off
<1> QED
  BY <1>1, <1>2, <1>3, Invariant, PTL DEF Spec

=============================================================================
