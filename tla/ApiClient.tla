----------------------------- MODULE ApiClient -----------------------------
(***************************************************************************)
(* The API client (internal/npm/client.go, flavor.go) and the start of the *)
(* process that logs it in (main.go, loginWithRetry and DetectFlavour).    *)
(*                                                                         *)
(* Every request goes through Client.do: make sure there is a session,     *)
(* send, and on a 401 log in and send once more.  On top of do, an         *)
(* operation is one request (a list, create, update, delete, enable), and  *)
(* the detection of the server's dialect is a chain of them: version,      *)
(* proxy hosts, version again, schema, proxy hosts again.                  *)
(*                                                                         *)
(* The server is external: it can be upgraded, drop its sessions, and the  *)
(* network can lose a request or an answer.                                *)
(***************************************************************************)
EXTENDS Integers, Dialects

CONSTANTS
  Callers,      \* goroutines that use the client; the program has one
  Served,       \* the releases this server runs, one after the other
  Written,      \* the kinds of host the callers write
  Schemas,      \* those of them that serve a usable GET /api/schema
  Pins,         \* NPM_FLAVOUR, where "auto" asks for detection
  Lifetime,     \* ticks a token of NPM lives; NPMplus reports no expiry
  Window,       \* refreshWindow, in ticks
  RequestTime,  \* NPM_TIMEOUT in ticks, which nothing bounds
  Cooldown,     \* probeCooldown, in ticks
  MaxAttempts,  \* logins tried at the start
  MaxUpgrades, MaxRevokes, MaxFaults  \* bounds of the model

Free == "free"

ASSUME ClientAssumption ==
  /\ Free \notin Callers
  /\ Served \subseteq Releases /\ Schemas \subseteq Releases
  /\ Written \subseteq Kinds /\ "proxy" \in Written
  /\ Pins \subseteq {"auto", "npm", "npmplus"}
  /\ {Lifetime, Window, RequestTime, Cooldown} \subseteq Nat
  /\ Window < Lifetime
  /\ MaxAttempts \in Nat \ {0}
  /\ {MaxUpgrades, MaxRevokes, MaxFaults} \subseteq Nat

VARIABLES
  server,    \* release, whether it has proxy hosts, the valid session
  session,   \* the client's mode, token, expiry and cookie
  dialect,   \* flavour, apiVersion, schema and metaRetired
  cooldown,  \* ticks until reprobeFlavour may run again
  loginMu,   \* the caller that holds it
  call,      \* what every caller does
  proc,      \* the process: starting, running or ended; and its flavour pin
  left       \* upgrades, revocations and faults the model has left

vars == <<server, session, dialect, cooldown, loginMu, call, proc, left>>
probing == <<dialect, cooldown>>
environment == <<server, proc, left>>

NoToken == [id |-> 0, ttl |-> 0]
NoSession == [mode |-> "unknown", token |-> NoToken, cookie |-> 0]

Writes == {"create", "update"}
\* The operations net/http may send again by itself: newRequest marks PUT and
\* DELETE as idempotent.
\* (slip: the POST of a create is marked too)
IdempotentAll == {"create", "update", "delete"}
Idempotent == {"update", "delete"}

\* An operation and the request it is at.  "shown" is what the answer says of
\* the server: its release or, for a list of no hosts, nothing; "hosts" is the
\* list a probe keeps.  "applied" and "login" are history: how often the server
\* carried the request out, and the session the call logged in to.
Idle == [op |-> None, kind |-> "proxy", body |-> {}, hosts |-> None,
         stage |-> None, phase |-> "idle", try |-> 0, token |-> NoToken, cookie |-> 0,
         age |-> 0, reply |-> None, shown |-> None, applied |-> 0, login |-> 0]

\* A call of Client.do begins with ensureAuth.
Do(k, stage) == [k EXCEPT !.stage = stage, !.phase = "ensure", !.try = 0, !.login = 0,
                          !.reply = None, !.shown = None]
Done(k, reply) == [k EXCEPT !.phase = "done", !.reply = reply, !.age = 0,
                            !.token = NoToken, !.cookie = 0]

\* ensureAuth needs no login: the token outlives the refresh window, or the
\* server reported no expiry.
\* (slip: a token is used until it expires)
UsedToTheEnd ==
  /\ session.mode # "unknown"
  /\ session.mode = "bearer" => session.token.ttl > 0
Fresh ==
  /\ session.mode # "unknown"
  /\ session.mode = "bearer" => session.token.ttl > Window

---------------------------------------------------------------------------
(* Client.do.                                                              *)

EnsureAuth(c) ==
  /\ call[c].phase = "ensure"
  /\ call' = [call EXCEPT ![c].phase = IF Fresh THEN "ready" ELSE "queue"]
  /\ UNCHANGED <<session, loginMu, probing, environment>>

\* Another goroutine may have logged in while this one waited.
EnterLogin(c) ==
  /\ call[c].phase = "queue" /\ loginMu = Free
  /\ IF Fresh
     THEN call' = [call EXCEPT ![c].phase = "ready"] /\ UNCHANGED loginMu
     ELSE call' = [call EXCEPT ![c].phase = "login"] /\ loginMu' = c
  /\ UNCHANGED <<session, probing, environment>>

\* The login after a 401, and those of the start, do not look again.
EnterRelogin(c) ==
  /\ call[c].phase = "requeue" /\ loginMu = Free
  /\ call' = [call EXCEPT ![c].phase = "login", ![c].try = @ + 1]
  /\ loginMu' = c
  /\ UNCHANGED <<session, probing, environment>>

\* NPM answers with a token and its expiry, NPMplus sets a cookie.
NewSession ==
  IF FlavourOf(server.release) = "npm"
  THEN [session EXCEPT !.mode = "bearer", !.token = [id |-> server.epoch, ttl |-> Lifetime]]
  ELSE [session EXCEPT !.mode = "cookie", !.token = NoToken, !.cookie = server.epoch]

LoginAnswered(c) ==
  /\ call[c].phase = "login"
  /\ session' = NewSession
  /\ loginMu' = Free
  /\ call' = [call EXCEPT ![c] = IF @.stage = "login" THEN Done(@, "ok")
                                 ELSE [@ EXCEPT !.phase = "ready", !.login = server.epoch]]
  /\ UNCHANGED <<probing, environment>>

LoginFails(c) ==
  /\ call[c].phase = "login" /\ left.faults > 0
  /\ loginMu' = Free
  /\ call' = [call EXCEPT ![c] = Done(@, "failed")]
  /\ left' = [left EXCEPT !.faults = @ - 1]
  /\ UNCHANGED <<server, session, probing, proc>>

\* applyAuth: a token only in bearer mode; the jar adds its cookie always.
Send(c) ==
  /\ call[c].phase = "ready"
  /\ call' = [call EXCEPT ![c].phase = "sent", ![c].age = 0,
                          ![c].token = IF session.mode = "bearer" THEN session.token ELSE NoToken,
                          ![c].cookie = session.cookie]
  /\ UNCHANGED <<session, loginMu, probing, environment>>

Authorised(k) ==
  IF FlavourOf(server.release) = "npm"
  THEN k.token.id = server.epoch /\ k.token.ttl > 0
  ELSE k.cookie = server.epoch

\* What the server answers, and what it has become then.
Answers(k) ==
  IF ~Authorised(k) THEN {"unauthorized"}
  ELSE CASE k.stage = "schema" -> {IF server.release \in Schemas THEN "ok" ELSE "failed"}
         [] k.stage = "main" /\ k.op \in Writes ->
              {IF k.body \subseteq Takes(server.release, k.kind) THEN "ok" ELSE "rejected"}
         [] k.stage = "main" /\ k.op = "enable" -> {"ok", "already"}
         [] k.stage = "main" /\ k.op = "delete" -> {IF k.applied > 0 THEN "gone" ELSE "ok"}
         [] OTHER -> {"ok"}

Applies(k, reply) == k.stage = "main" /\ k.op \in Writes \cup {"delete"} /\ reply = "ok"

Serve(c) ==
  \E reply \in Answers(call[c]) :
    /\ call[c].phase = "sent"
    /\ call' = [call EXCEPT ![c].phase = "answered", ![c].reply = reply,
                  ![c].applied = IF Applies(call[c], reply) THEN @ + 1 ELSE @,
                  ![c].shown = IF call[c].stage \in {"list", "hosts"} /\ ~server.hosts
                               THEN "empty" ELSE server.release]
    /\ server' = [server EXCEPT !.hosts = @ \/ (Applies(call[c], reply) /\ call[c].op = "create")]
    /\ UNCHANGED <<session, loginMu, probing, proc, left>>

\* The request or its answer is lost, or takes longer than the timeout.
Lost(c) ==
  /\ call[c].phase \in {"sent", "answered"} /\ left.faults > 0
  /\ call' = [call EXCEPT ![c] = Done(@, "failed")]
  /\ left' = [left EXCEPT !.faults = @ - 1]
  /\ UNCHANGED <<server, session, loginMu, probing, proc>>

\* The connection breaks and net/http sends the request again.
Replay(c) ==
  /\ call[c].phase \in {"sent", "answered"} /\ left.faults > 0
  /\ call[c].stage # "main" \/ call[c].op \in Idempotent \cup {"get"}
  /\ call' = [call EXCEPT ![c].phase = "sent"]
  /\ left' = [left EXCEPT !.faults = @ - 1]
  /\ UNCHANGED <<server, session, loginMu, probing, proc>>

Receive(c) ==
  /\ call[c].phase = "answered" /\ call[c].reply # "unauthorized"
  /\ call' = [call EXCEPT ![c] = Done(@, @.reply)]
  /\ UNCHANGED <<session, loginMu, probing, environment>>

\* (slip: the request is sent again until it is accepted)
ResendAlways(c) ==
  /\ call[c].phase = "answered" /\ call[c].reply = "unauthorized"
  /\ call' = [call EXCEPT ![c].phase = "ready", ![c].try = 1]
  /\ UNCHANGED <<session, loginMu, probing, environment>>
\* (slip: the session is kept, and with it the token)
InvalidateNothing(c) ==
  /\ call[c].phase = "answered" /\ call[c].reply = "unauthorized"
  /\ call' = [call EXCEPT ![c] = IF @.try = 0 THEN [@ EXCEPT !.phase = "ready", !.try = 1]
                                 ELSE Done(@, "unauthorized")]
  /\ UNCHANGED <<session, loginMu, probing, environment>>
\* A 401: the session is dropped and the call logs in, once.  The cookie jar
\* is not emptied.
Stale(c) ==
  /\ call[c].phase = "answered" /\ call[c].reply = "unauthorized"
  /\ IF call[c].try = 0
     THEN /\ session' = [session EXCEPT !.mode = "unknown", !.token = NoToken]
          /\ call' = [call EXCEPT ![c].phase = "requeue"]
     ELSE /\ call' = [call EXCEPT ![c] = Done(@, "unauthorized")]
          /\ UNCHANGED session
  /\ UNCHANGED <<loginMu, probing, environment>>

DoStep(c) ==
  \/ EnsureAuth(c) \/ EnterLogin(c) \/ EnterRelogin(c) \/ LoginAnswered(c) \/ LoginFails(c)
  \/ Send(c) \/ Serve(c) \/ Lost(c) \/ Replay(c) \/ Receive(c) \/ Stale(c)

---------------------------------------------------------------------------
(* The operations, and what follows an answer.                             *)

\* The payload is built for the dialect of this moment.
Begin(c, op, kind) ==
  /\ proc.state = "running" /\ call[c].phase = "idle"
  /\ call' = [call EXCEPT ![c] =
       Do([Idle EXCEPT !.op = op, !.kind = kind,
                       !.body = IF op \in Writes THEN Body(dialect, kind) ELSE {}],
          IF op = "recheck" THEN "version" ELSE "main")]
  /\ UNCHANGED <<session, loginMu, probing, environment>>

\* reprobeFlavour, unless it ran a moment ago.
Reprobe(c) ==
  IF cooldown > 0
  THEN call' = [call EXCEPT ![c] = Idle] /\ UNCHANGED cooldown
  ELSE /\ call' = [call EXCEPT ![c] = Do(@, IF proc.pin # "auto" THEN "schema" ELSE "list")]
       /\ cooldown' = Cooldown

\* A body the server refuses is the sign of another dialect; the request is not
\* sent again.
OperationReturns(c) ==
  /\ call[c].phase = "done" /\ call[c].stage = "main"
  /\ IF call[c].reply = "rejected" THEN Reprobe(c)
     ELSE call' = [call EXCEPT ![c] = Idle] /\ UNCHANGED cooldown
  /\ UNCHANGED <<dialect, session, loginMu, environment>>

\* loginWithRetry: the delay between two attempts is left out.
StartLogin(c) ==
  /\ call[c].phase = "done" /\ call[c].stage = "login"
  /\ \/ /\ call[c].reply = "ok"
        /\ call' = [call EXCEPT ![c] = Do(@, "version")]
        /\ UNCHANGED proc
     \/ /\ call[c].reply # "ok" /\ call[c].try < MaxAttempts
        /\ call' = [call EXCEPT ![c].phase = "requeue"]
        /\ UNCHANGED proc
     \/ /\ call[c].reply # "ok" /\ call[c].try >= MaxAttempts
        /\ call' = [call EXCEPT ![c] = Idle]
        /\ proc' = [proc EXCEPT !.state = "ended"]
  /\ UNCHANGED <<session, loginMu, probing, server, left>>

\* readVersion at the start: an error is ignored.
VersionRead(c) ==
  /\ call[c].phase = "done" /\ call[c].stage = "version" /\ call[c].op = "start"
  /\ dialect' = IF call[c].reply = "ok" THEN [dialect EXCEPT !.version = Reports(call[c].shown)]
                ELSE dialect
  /\ call' = [call EXCEPT ![c] = Do(@, IF dialect.flavour # "auto" THEN "schema" ELSE "list")]
  /\ UNCHANGED <<cooldown, session, loginMu, environment>>

\* Recheck: the version is remembered before the dialect is probed.
VersionRechecked(c) ==
  /\ call[c].phase = "done" /\ call[c].stage = "version" /\ call[c].op = "recheck"
  /\ LET version == Reports(call[c].shown)
     IN  IF call[c].reply # "ok"
         THEN call' = [call EXCEPT ![c] = Idle] /\ UNCHANGED probing
         ELSE /\ dialect' = [dialect EXCEPT !.version = version]
              /\ IF dialect.version \in {"", version}
                 THEN call' = [call EXCEPT ![c] = Idle] /\ UNCHANGED cooldown
                 ELSE Reprobe(c)
  /\ UNCHANGED <<session, loginMu, environment>>

\* probeFlavour: a failing list ends the start, and a later probe changes
\* nothing.
HostsListed(c) ==
  /\ call[c].phase = "done" /\ call[c].stage = "list"
  /\ \/ /\ call[c].reply # "ok"
        /\ call' = [call EXCEPT ![c] = Idle]
        /\ proc' = [proc EXCEPT !.state = IF call[c].op = "start" THEN "ended" ELSE @]
        /\ UNCHANGED dialect
     \/ /\ call[c].reply = "ok" /\ call[c].shown # "empty"
        /\ dialect' = [dialect EXCEPT !.flavour = ShapeFlavour(call[c].shown)]
        /\ call' = [call EXCEPT ![c] = Do([@ EXCEPT !.hosts = call[c].shown], "schema")]
        /\ UNCHANGED proc
     \/ /\ call[c].reply = "ok" /\ call[c].shown = "empty"
        /\ call' = [call EXCEPT ![c] = Do([@ EXCEPT !.hosts = "empty"], "health")]
        /\ UNCHANGED <<dialect, proc>>
  /\ UNCHANGED <<cooldown, session, loginMu, server, left>>

\* flavourOf without a host: the shape of the version, or the default.
HealthRead(c) ==
  /\ call[c].phase = "done" /\ call[c].stage = "health"
  /\ dialect' = [dialect EXCEPT !.flavour =
       IF call[c].reply = "ok" THEN VersionFlavour(Reports(call[c].shown)) ELSE "npmplus"]
  /\ call' = [call EXCEPT ![c] = Do(@, "schema")]
  /\ UNCHANGED <<cooldown, session, loginMu, environment>>

\* The end of readCapabilities, and with it of the probe.
Learned(c, schema, shape) ==
  /\ dialect' = [dialect EXCEPT !.schema = schema,
                   !.retired = /\ schema = None
                                 /\ IF shape \in Releases THEN ShapeRetired(shape) ELSE @]
  /\ call' = [call EXCEPT ![c] = Idle]
  /\ proc' = [proc EXCEPT !.state = "running"]

\* (slip: the schema is read once)
SchemaKept(c) ==
  /\ call[c].phase = "done" /\ call[c].stage = "schema"
  /\ Learned(c, IF dialect.schema # None THEN dialect.schema
                ELSE IF call[c].reply = "ok" THEN call[c].shown ELSE None, call[c].hosts)
  /\ UNCHANGED <<cooldown, session, loginMu, server, left>>
\* readCapabilities: the hosts are listed only when the caller has not.
SchemaRead(c) ==
  /\ call[c].phase = "done" /\ call[c].stage = "schema"
  /\ \/ /\ call[c].reply = "ok"
        /\ Learned(c, call[c].shown, None)
     \/ /\ call[c].reply # "ok" /\ call[c].hosts # None
        /\ Learned(c, None, call[c].hosts)
     \/ /\ call[c].reply # "ok" /\ call[c].hosts = None
        /\ call' = [call EXCEPT ![c] = Do(@, "hosts")]
        /\ UNCHANGED <<dialect, proc>>
  /\ UNCHANGED <<cooldown, session, loginMu, server, left>>

HostsReread(c) ==
  /\ call[c].phase = "done" /\ call[c].stage = "hosts"
  /\ Learned(c, None, IF call[c].reply = "ok" THEN call[c].shown ELSE "empty")
  /\ UNCHANGED <<cooldown, session, loginMu, server, left>>

FollowUp(c) ==
  \/ OperationReturns(c) \/ StartLogin(c) \/ VersionRead(c) \/ VersionRechecked(c)
  \/ HostsListed(c) \/ HealthRead(c) \/ SchemaRead(c) \/ HostsReread(c)

---------------------------------------------------------------------------
(* The process, the server and the clock.                                  *)

Main == CHOOSE c \in Callers : TRUE

\* A new process with a new client: run in main.go, up to the worker.
Start ==
  /\ proc.state = "ended"
  /\ proc' = [proc EXCEPT !.state = "starting"]
  /\ session' = NoSession
  /\ dialect' = [Unread EXCEPT !.flavour = proc.pin]
  /\ cooldown' = 0 /\ loginMu' = Free
  /\ call' = [c \in Callers |->
       IF c = Main THEN [Idle EXCEPT !.op = "start", !.stage = "login", !.phase = "requeue"]
       ELSE Idle]
  /\ UNCHANGED <<server, left>>

\* The server comes back as another release, without its sessions.
Upgrade ==
  /\ left.upgrades > 0
  /\ \E release \in Served \ {server.release} :
       server' = [server EXCEPT !.release = release, !.epoch = @ + 1]
  /\ left' = [left EXCEPT !.upgrades = @ - 1]
  /\ UNCHANGED <<session, loginMu, call, proc, probing>>

\* The server drops its sessions: it restarts, or a cookie expires.
Revoke ==
  /\ left.revokes > 0
  /\ server' = [server EXCEPT !.epoch = @ + 1]
  /\ left' = [left EXCEPT !.revokes = @ - 1]
  /\ UNCHANGED <<session, loginMu, call, proc, probing>>

Less(n) == IF n > 0 THEN n - 1 ELSE 0

\* Time passes while callers wait; a request takes at most RequestTime.
Tick ==
  /\ \A c \in Callers : /\ call[c].phase \in {"idle", "queue", "requeue", "login", "sent"}
                        /\ call[c].age < RequestTime
  /\ session' = [session EXCEPT !.token.ttl = Less(@)]
  /\ cooldown' = Less(cooldown)
  /\ call' = [c \in Callers |->
       [call[c] EXCEPT !.token.ttl = Less(@),
                       !.age = IF call[c].phase \in {"login", "sent"} THEN @ + 1 ELSE 0]]
  /\ <<session', cooldown', call'>> # <<session, cooldown, call>>
  /\ UNCHANGED <<loginMu, dialect, environment>>

Init ==
  /\ server \in [release: Served, hosts: BOOLEAN, epoch: {1}]
  /\ proc \in [state: {"ended"}, pin: Pins]
  /\ session = NoSession
  /\ dialect = [Unread EXCEPT !.flavour = proc.pin]
  /\ cooldown = 0 /\ loginMu = Free
  /\ call = [c \in Callers |-> Idle]
  /\ left = [upgrades |-> MaxUpgrades, revokes |-> MaxRevokes, faults |-> MaxFaults]

Operations == {"get", "create", "update", "delete", "enable", "recheck"}

Step(c) == DoStep(c) \/ FollowUp(c)

Next ==
  \/ Start \/ Upgrade \/ Revoke \/ Tick
  \/ \E c \in Callers : DoStep(c)
  \/ \E c \in Callers : FollowUp(c)
  \/ \E c \in Callers, op \in Writes, kind \in Written : Begin(c, op, kind)
  \/ \E c \in Callers, op \in Operations \ Writes : Begin(c, op, "proxy")

Spec == Init /\ [][Next]_vars

\* The process is started again when it ends, time passes between calls, a call goes on (the
\* server answers, or the request times out).  The worker checks the version
\* and tries what it could not write again and again.
Fairness ==
  /\ WF_vars(Start) /\ SF_vars(Tick)
  /\ \A c \in Callers :
       /\ WF_vars(Step(c))
       /\ SF_vars(Begin(c, "recheck", "proxy"))
       /\ \A kind \in Written : SF_vars(Begin(c, "update", kind))

FairSpec == Spec /\ Fairness

---------------------------------------------------------------------------

Tokens == [id: 0..(1 + MaxUpgrades + MaxRevokes), ttl: 0..Lifetime]
Replies == {None, "ok", "failed", "rejected", "already", "gone", "unauthorized"}
Calls == [op: Operations \cup {None, "start"}, kind: Kinds, body: SUBSET UNION {Takes(r, k) : r \in Releases, k \in Kinds},
          hosts: Releases \cup {None, "empty"},
          stage: {None, "login", "main", "version", "list", "health", "schema", "hosts"},
          phase: {"idle", "ensure", "queue", "requeue", "login", "ready", "sent", "answered", "done"},
          try: 0..MaxAttempts, token: Tokens, cookie: 0..(1 + MaxUpgrades + MaxRevokes),
          age: 0..RequestTime, reply: Replies, shown: Releases \cup {None, "empty"},
          applied: 0..(1 + MaxFaults), login: 0..(1 + MaxUpgrades + MaxRevokes)]

\* The type invariant.  A request logs in again at most once, however often the
\* server refuses the session, and the login mutex is held by who logs in.
TypeOK ==
  /\ server \in [release: Releases, hosts: BOOLEAN, epoch: 1..(1 + MaxUpgrades + MaxRevokes)]
  /\ session \in [mode: {"unknown", "bearer", "cookie"}, token: Tokens,
                  cookie: 0..(1 + MaxUpgrades + MaxRevokes)]
  /\ dialect \in Dialect
  /\ cooldown \in 0..Cooldown
  /\ proc \in [state: {"ended", "starting", "running"}, pin: Pins]
  /\ left \in [upgrades: 0..MaxUpgrades, revokes: 0..MaxRevokes, faults: 0..MaxFaults]
  /\ \A c \in Callers : /\ call[c] \in Calls
                        /\ call[c].stage # "login" => call[c].try <= 1
                        /\ loginMu = c <=> call[c].phase = "login"

\* A create is carried out at most once by each call: neither the login after a
\* 401 nor a connection that breaks after the server has acted sends it twice.
CreatedOnce ==
  \A c \in Callers : call[c].op = "create" => call[c].applied <= 1

\* The second 401 of a call, on which it gives up (Client.do), means that the
\* session it logged in to itself has been revoked since, or that the server
\* took longer than the refresh window: any other stale session is renewed
\* without the caller noticing it.
RefusedOnlyWhenRevoked ==
  \A c \in Callers :
    call[c].phase = "answered" /\ call[c].reply = "unauthorized" /\ call[c].try # 0
      => call[c].login \in 1..(server.epoch - 1) \/ call[c].age > Window

\* A token whose expiry the server reported does not expire under way: it is
\* renewed early enough (ensureAuth) for every request that is not older than
\* the refresh window, however long NPM_TIMEOUT lets a request take and however
\* often others drop or renew the session meanwhile.
RenewedInTime ==
  \A c \in Callers :
    call[c].phase = "sent" /\ call[c].token.id # 0 /\ call[c].age <= Window
      => call[c].token.ttl > 0

\* Every operation returns, whatever the network and the server do, and the
\* login mutex is no reason to wait for ever.
EveryCallReturns ==
  \A c \in Callers : call[c].phase # "idle" ~> call[c].phase = "idle"

Writable(kind) == Body(dialect, kind) \subseteq Takes(server.release, kind)

\* After the last upgrade of the server, with detection or a right pin, what
\* the client writes is accepted for good: the dialect follows the server,
\* whatever probe failed or was throttled on the way.
EventuallyAccepted ==
  <>[](proc.pin \in {"auto", FlavourOf(server.release)}
         => \A kind \in Written : Writable(kind))

\* The comment of Recheck: a server upgrade is noticed, and the dialect probed
\* again.  So the client ends up with what the server it talks to accepts.
DialectFollowsUpgrades ==
  <>[](\A kind \in Written : \A f \in Optional(WrittenAs(dialect), kind) :
         Accepts(dialect, kind, f) <=> f \in Takes(server.release, kind))

===========================================================================
