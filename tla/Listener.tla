----------------------------- MODULE Listener -----------------------------
(***************************************************************************)
(* The event listener (internal/docker/listener.go, Watch): a goroutine    *)
(* that subscribes to the Docker event stream, passes every event of       *)
(* another container on into a bounded channel, and subscribes again with  *)
(* a growing delay when the stream breaks.  It keeps the health of the     *)
(* stream, which the readiness probe reports (Status.Ready).               *)
(*                                                                         *)
(* The stream itself is external: a daemon (or socket proxy) that is up,   *)
(* refuses connections, or accepts them and stays silent.  Messages that   *)
(* nobody is subscribed for are not sent again.                            *)
(***************************************************************************)
EXTENDS Integers

CONSTANTS
  ReconnectMin, ReconnectMax,  \* reconnectMin, reconnectMax, in ticks
  EventCap,     \* eventBuffer: capacity of the event channel
  StreamGrace,  \* StreamDownGrace, in ticks
  Outages,      \* what a broken daemon does: "refuses", "silent"
  MaxEvents, MaxOutages  \* bounds of the model

ASSUME ListenerAssumption ==
  /\ ReconnectMin \in Nat \ {0} /\ ReconnectMax \in Nat
  /\ ReconnectMin <= ReconnectMax
  /\ EventCap \in Nat \ {0} /\ StreamGrace \in Nat
  /\ Outages \subseteq {"refuses", "silent"}
  /\ MaxEvents \in Nat /\ MaxOutages \in Nat

VARIABLES
  daemon,     \* the Docker daemon, with the events and outages it has left
  sub,        \* the subscription: open or not, and the messages in it
  lis,        \* the listener itself
  health,     \* streamUp, and the age of streamSince
  outage,     \* history: how long the listener had no stream to read
  events,     \* events in the channel the listener writes
  eventsOpen, \* FALSE once the listener closed it
  cancelled   \* the context is done

stream == <<daemon, sub, outage>>
listener == <<lis, health>>
channel == <<events, eventsOpen>>
vars == <<stream, listener, channel, cancelled>>

Off == -1
Least(m, n) == IF m < n THEN m ELSE n

\* "heard" and "refused" are history: the last subscription has delivered
\* something, or was refused.
NewListener == [phase |-> "subscribe", backoff |-> ReconnectMin, timer |-> Off,
                heard |-> FALSE, refused |-> FALSE]
NoSubscription == [open |-> FALSE, other |-> 0, own |-> 0]
HealthUnknown == [up |-> FALSE, since |-> Off]

\* (slip: a stream that was healthy once is healthy)
SetHealthUp(up) ==
  health' = [up |-> up \/ health.up, since |-> IF health.since = Off THEN 0 ELSE health.since]
\* setStreamStatus: the age starts anew only when the state changes.
SetHealth(up) ==
  health' = [up |-> up,
             since |-> IF health.up # up \/ health.since = Off THEN 0
                       ELSE health.since]

\* StreamStatus.Down and the check of Status.Ready.
Down == IF health.up \/ health.since = Off THEN 0 ELSE health.since
StreamReady == Down <= StreamGrace

---------------------------------------------------------------------------
(* The goroutine.                                                          *)

\* Events returns once the daemon has answered the request or refused it; the
\* health is "up" in both cases, until the error is read.
Subscribe ==
  /\ lis.phase = "subscribe" /\ ~cancelled
  /\ daemon.state # "silent"
  /\ sub' = [NoSubscription EXCEPT !.open = (daemon.state = "up")]
  /\ lis' = [lis EXCEPT !.phase = "stream", !.heard = FALSE,
                        !.refused = (daemon.state = "refuses")]
  /\ SetHealth(TRUE)
  /\ UNCHANGED events

\* An event of this process's own container is dropped.
SkipOwn ==
  /\ lis.phase = "stream" /\ sub.own > 0
  /\ sub' = [sub EXCEPT !.own = @ - 1]
  /\ lis' = [lis EXCEPT !.backoff = ReconnectMin, !.heard = TRUE]
  /\ UNCHANGED <<health, events>>

\* Any message proves the stream works, and resets the delay.
Receive ==
  /\ lis.phase = "stream" /\ sub.other > 0
  /\ sub' = [sub EXCEPT !.other = @ - 1]
  /\ lis' = [lis EXCEPT !.phase = "send", !.backoff = ReconnectMin, !.heard = TRUE]
  /\ UNCHANGED <<health, events>>

\* The listener waits for room in the channel.
Send ==
  /\ lis.phase = "send" /\ events < EventCap
  /\ events' = events + 1
  /\ lis' = [lis EXCEPT !.phase = "stream"]
  /\ UNCHANGED <<sub, health>>

\* (slip: a stream that ends is taken for a shutdown)
StreamEnds ==
  /\ lis.phase = "stream"
  /\ sub = NoSubscription
  /\ lis' = [lis EXCEPT !.phase = "done"]
  /\ SetHealth(FALSE)
  /\ UNCHANGED <<sub, events>>
\* The error comes after the messages that arrived before it.
StreamFails ==
  /\ lis.phase = "stream"
  /\ sub = NoSubscription
  /\ lis' = [lis EXCEPT !.phase = "wait", !.timer = lis.backoff]
  /\ SetHealth(FALSE)
  /\ UNCHANGED <<sub, events>>

\* The delay is over, the next one is twice as long.
Retry ==
  /\ lis.phase = "wait" /\ lis.timer = 0
  /\ lis' = [lis EXCEPT !.phase = "subscribe", !.timer = Off,
                        !.backoff = Least(2 * @, ReconnectMax)]
  /\ UNCHANGED <<sub, health, events>>

\* (slip: a quiet stream is read without a look at the context)
LeaveOutsideStream ==
  /\ cancelled /\ lis.phase \notin {"stream", "done"}
  /\ lis' = [lis EXCEPT !.phase = "done", !.timer = Off]
  /\ sub' = NoSubscription
  /\ eventsOpen' = FALSE
  /\ UNCHANGED <<health, events>>
\* The context is done, wherever it waits; the channel is closed.
Leave ==
  /\ cancelled /\ lis.phase # "done"
  /\ lis' = [lis EXCEPT !.phase = "done", !.timer = Off]
  /\ sub' = NoSubscription
  /\ eventsOpen' = FALSE
  /\ UNCHANGED <<health, events>>

Step ==
  /\ \/ (Subscribe \/ SkipOwn \/ Receive \/ Send \/ StreamFails \/ Retry)
        /\ UNCHANGED eventsOpen
     \/ Leave
  /\ outage' = IF sub'.open THEN 0 ELSE outage
  /\ UNCHANGED <<daemon, cancelled>>

\* What keeps the clock from ticking: a goroutine that can go on does.
Busy ==
  \/ lis.phase = "subscribe" /\ (daemon.state # "silent" \/ cancelled)
  \/ lis.phase = "stream" /\ (sub.other > 0 \/ sub.own > 0 \/ ~sub.open)
  \/ lis.phase = "send" /\ events < EventCap
  \/ lis.phase = "wait" /\ lis.timer = 0
  \/ cancelled /\ lis.phase # "done"

\* The ages that matter are those up to the grace.
Saturated(n) == Least(n + 1, StreamGrace + 1)
Age ==
  /\ lis' = IF lis.timer > 0 THEN [lis EXCEPT !.timer = @ - 1] ELSE lis
  /\ health' = IF health.since = Off THEN health
               ELSE [health EXCEPT !.since = Saturated(@)]
  /\ outage' = IF sub.open \/ lis.phase = "send" THEN 0 ELSE Saturated(outage)

---------------------------------------------------------------------------
(* The daemon, as the listener sees it.                                    *)

\* Something happens to a container: whoever is subscribed is told.
Happens(own) ==
  /\ daemon.events > 0
  /\ daemon' = [daemon EXCEPT !.events = @ - 1]
  /\ sub' = IF ~sub.open THEN sub
            ELSE IF own THEN [sub EXCEPT !.own = @ + 1]
            ELSE [sub EXCEPT !.other = @ + 1]
  /\ UNCHANGED outage

\* The daemon stops answering; what was under way arrives or is lost.
Breaks(to) ==
  /\ daemon.state = "up" /\ daemon.outages > 0
  /\ daemon' = [daemon EXCEPT !.state = to, !.outages = @ - 1]
  /\ sub' \in {NoSubscription, [sub EXCEPT !.open = FALSE]}
  /\ UNCHANGED outage

Recovers ==
  /\ daemon.state # "up"
  /\ daemon' = [daemon EXCEPT !.state = "up"]
  /\ UNCHANGED <<sub, outage>>

Daemon == \/ \E own \in BOOLEAN : Happens(own)
          \/ \E to \in Outages : Breaks(to)
          \/ Recovers

---------------------------------------------------------------------------
(* The listener on its own, with a consumer of its events.                 *)

Consume ==
  /\ events > 0 /\ events' = events - 1
  /\ UNCHANGED <<stream, listener, eventsOpen, cancelled>>

Cancel ==
  /\ ~cancelled /\ cancelled' = TRUE
  /\ UNCHANGED <<stream, listener, channel>>

Tick ==
  /\ ~Busy /\ Age
  /\ UNCHANGED <<daemon, sub, channel, cancelled>>

Init ==
  /\ daemon = [state |-> "up", events |-> MaxEvents, outages |-> MaxOutages]
  /\ sub = NoSubscription /\ lis = NewListener /\ health = HealthUnknown
  /\ outage = 0 /\ events = 0 /\ eventsOpen = TRUE /\ cancelled = FALSE

Next == Step \/ Consume \/ Cancel \/ Tick
        \/ (Daemon /\ UNCHANGED <<listener, channel, cancelled>>)

\* The goroutine runs, time passes, the debouncer reads.  Nothing is asked of
\* the daemon.
Spec == Init /\ [][Next]_vars
FairSpec == Spec /\ WF_vars(Step) /\ WF_vars(Tick) /\ WF_vars(Consume)

---------------------------------------------------------------------------

\* The type invariant: delays and waiting times stay within reconnectMax, the
\* channel within its capacity, and the timer runs exactly while waiting.
TypeOK ==
  /\ daemon \in [state: {"up", "refuses", "silent"}, events: 0..MaxEvents,
                 outages: 0..MaxOutages]
  /\ sub \in [open: BOOLEAN, other: 0..MaxEvents, own: 0..MaxEvents]
  /\ lis \in [phase: {"subscribe", "stream", "send", "wait", "done"},
              backoff: ReconnectMin..ReconnectMax,
              timer: {Off} \cup 0..ReconnectMax, heard: BOOLEAN, refused: BOOLEAN]
  /\ lis.timer # Off <=> lis.phase = "wait"
  /\ health \in [up: BOOLEAN, since: {Off} \cup 0..(StreamGrace + 1)]
  /\ outage \in 0..(StreamGrace + 1)
  /\ events \in 0..EventCap /\ eventsOpen \in BOOLEAN /\ cancelled \in BOOLEAN

\* A stream that worked is subscribed again after the shortest delay, however
\* long earlier outages were.  (Watch: backoff = reconnectMin)
WorkingStreamsReturnSoon ==
  [][lis.phase = "stream" /\ lis'.phase = "wait" /\ lis.heard =>
       lis'.timer = ReconnectMin]_vars

\* Whenever the listener waits for something, the health it reports is that of
\* the subscription: "up" if there is one, or if it has a message of it left to
\* pass on, and "down" otherwise.  (setStreamStatus)
HealthIsCurrent ==
  ~Busy /\ lis.phase # "done" => (health.up <=> sub.open \/ lis.phase = "send")

\* A stream that has been down for longer than the grace makes the readiness
\* probe fail.  (main.go, healthMux: a stream that has been down for minutes
\* "is a readiness problem")
OutageIsReported == outage > StreamGrace /\ lis.phase # "done" => ~StreamReady

\* It does when the stream was lost and connections hang since then, however
\* outages of both kinds follow each other.
LostStreamIsReported ==
  outage > StreamGrace /\ lis.phase # "done" /\ health.since # Off /\ ~lis.refused =>
    ~StreamReady

\* When the daemon stays up, the listener stays subscribed.  (Watch)
StaysSubscribed ==
  <>[](daemon.state = "up") => <>[](sub.open \/ cancelled)

=============================================================================
