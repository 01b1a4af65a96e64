-------------------------- MODULE ApiClientProofs --------------------------
(***************************************************************************)
(* Proofs about the API client, for every number of callers, every         *)
(* release the server may run and every number of upgrades, revocations    *)
(* and faults: a create is carried out at most once, and no token expires  *)
(* under way before its request is older than the refresh window, for      *)
(* every timeout.  For one caller, as the program has: a call that gives   *)
(* up on a 401 was logged in to a revoked session, or took longer.         *)
(* At the end the exact bounds of the types, with the login mutex.         *)
(***************************************************************************)
EXTENDS ApiClient, TLAPS

Token == [id: Nat, ttl: Nat]
Modes == {"unknown", "bearer", "cookie"}
Session == [mode: Modes, token: Token, cookie: Nat]
Server == [release: Releases, hosts: BOOLEAN, epoch: Nat]
Ops == Operations \cup {None, "start"}
Carried(k) == Fixed("npm", k) \cup Optional("npm", k) \cup Fixed("npmplus", k)
              \cup Optional("npmplus", k)
Properties == UNION {Carried(k) : k \in Kinds}
Shown == Releases \cup {None, "empty"}
Stages == {None, "login", "main", "version", "list", "health", "schema", "hosts"}
Phases == {"idle", "ensure", "queue", "requeue", "login", "ready", "sent", "answered", "done"}
Call == [op: Ops, kind: Kinds, body: SUBSET Properties, hosts: Shown, stage: Stages,
         phase: Phases, try: Nat, token: Token, cookie: Nat, age: Nat, reply: Replies,
         shown: Shown, applied: Nat, login: Nat]

\* Once the server has carried out a create, its request is not sent again.
Created(k) ==
  k.op = "create" =>
    /\ k.applied <= 1
    /\ k.stage = "main" /\ k.applied = 1 =>
         \/ k.phase = "answered" /\ k.reply = "ok"
         \/ k.phase = "done"

\* A request was sent with a token that had more than the refresh window left.
Timely(k) ==
  k.phase \in {"sent", "answered"} =>
    /\ k.age <= RequestTime
    /\ k.token.id # 0 => k.token.ttl + k.age > Window

\* A session whose token outlives the refresh window; a call that is ready to
\* send has one, however many others renew or drop it meanwhile.
Lasting(s) == s.mode = "bearer" => s.token.ttl > Window
Ready(k, s) == k.phase = "ready" => Lasting(s)

Good(k, s) == Created(k) /\ Timely(k) /\ Ready(k, s)

IInv ==
  /\ server \in Server /\ session \in Session
  /\ call \in [Callers -> Call]
  /\ \A c \in Callers : Good(call[c], session)

---------------------------------------------------------------------------

\* What a request carries.
LEMMA BodyType == ASSUME NEW d, NEW kind \in Kinds PROVE Body(d, kind) \in SUBSET Properties
<1>1. WrittenAs(d) \in {"npm", "npmplus"}
  BY DEF WrittenAs
<1>2. Fixed(WrittenAs(d), kind) \cup Optional(WrittenAs(d), kind) \subseteq Properties
  <2>1. Fixed(WrittenAs(d), kind) \cup Optional(WrittenAs(d), kind) \subseteq Carried(kind)
    BY <1>1 DEF Carried
  <2> QED
    BY <2>1 DEF Properties
<1>3. Body(d, kind) \subseteq Fixed(WrittenAs(d), kind) \cup Optional(WrittenAs(d), kind)
  BY DEF Body
<1> QED
  BY <1>2, <1>3

LEMMA IdleType == Idle \in Call /\ \A s : Good(Idle, s)
<1>1. Idle \in Call
  BY DEF Idle, Call, Token, NoToken, Ops, Kinds, Shown, Stages, Phases, Replies, None
<1>2. ASSUME NEW s PROVE Good(Idle, s)
  BY DEF Idle, Good, Created, Timely, Ready, None
<1> QED
  BY <1>1, <1>2

\* The start of a request and its end, as parts of a call.
LEMMA DoType ==
  ASSUME NEW k \in Call, NEW stage \in Stages, stage # "main", Created(k), NEW s
  PROVE  Do(k, stage) \in Call /\ Good(Do(k, stage), s)
BY DEF Do, Call, Good, Created, Timely, Ready, Shown, Replies, Phases, None

LEMMA DoneType ==
  ASSUME NEW k \in Call, NEW reply \in Replies, Created(k), k.phase # "ready", NEW s
  PROVE  Done(k, reply) \in Call /\ Good(Done(k, reply), s)
BY DEF Done, Call, Token, NoToken, Good, Created, Timely, Ready, Phases

\* A step that changes one call, and the session at most to a lasting one.
LEMMA OneCall ==
  ASSUME IInv, NEW c \in Callers, NEW k \in Call, Good(k, session'),
         call' = [call EXCEPT ![c] = k], server' \in Server, session' \in Session,
         session' = session \/ Lasting(session')
  PROVE  IInv'
<1>1. call' \in [Callers -> Call]
  BY DEF IInv
<1>2. ASSUME NEW d \in Callers PROVE Good(call'[d], session')
  <2>1. CASE d = c
    BY <2>1 DEF IInv
  <2>2. CASE d # c
    <3>1. call'[d] = call[d] /\ Good(call[d], session)
      BY <2>2 DEF IInv
    <3> QED
      BY <3>1 DEF Good, Ready
  <2> QED
    BY <2>1, <2>2
<1> QED
  BY <1>1, <1>2 DEF IInv, Good, Created, Timely, Ready, Lasting
---------------------------------------------------------------------------
(* Client.do.                                                              *)

\* What a step may change of the call: all but its phase stays.
LEMMA OnlyPhase ==
  ASSUME NEW k \in Call, NEW phase \in Phases \ {"sent", "answered"}, NEW s,
         Created(k), phase = "ready" => Lasting(s),
         k.phase \notin {"done"}, k.phase = "answered" => k.reply # "ok"
  PROVE  [k EXCEPT !.phase = phase] \in Call /\ Good([k EXCEPT !.phase = phase], s)
BY DEF Call, Good, Created, Timely, Ready

LEMMA FreshLasts == ASSUME Fresh PROVE Lasting(session)
BY DEF Fresh, Lasting

LEMMA NewSessionLasts ==
  ASSUME server \in Server, session \in Session
  PROVE  NewSession \in Session /\ Lasting(NewSession)
BY ClientAssumption
   DEF NewSession, Lasting, Server, Session, Token, NoToken, Modes

LEMMA EnsureAuthKeeps == ASSUME IInv, NEW c \in Callers, EnsureAuth(c) PROVE IInv'
<1> DEFINE k == [call[c] EXCEPT !.phase = IF Fresh THEN "ready" ELSE "queue"]
<1>1. call' = [call EXCEPT ![c] = k] /\ server' = server /\ session' = session
  BY DEF EnsureAuth, IInv, environment
<1>2. call[c] \in Call /\ Created(call[c]) /\ call[c].phase = "ensure"
  BY DEF IInv, Good, EnsureAuth
<1>3. k \in Call /\ Good(k, session)
  BY <1>2, FreshLasts, OnlyPhase DEF Phases
<1> QED
  BY <1>1, <1>3, OneCall DEF IInv

LEMMA EnterLoginKeeps == ASSUME IInv, NEW c \in Callers, EnterLogin(c) PROVE IInv'
<1> DEFINE k == [call[c] EXCEPT !.phase = IF Fresh THEN "ready" ELSE "login"]
<1>1. call' = [call EXCEPT ![c] = k] /\ server' = server /\ session' = session
  BY DEF EnterLogin, IInv, environment
<1>2. call[c] \in Call /\ Created(call[c]) /\ call[c].phase = "queue"
  BY DEF IInv, Good, EnterLogin
<1>3. k \in Call /\ Good(k, session)
  BY <1>2, FreshLasts, OnlyPhase DEF Phases
<1> QED
  BY <1>1, <1>3, OneCall DEF IInv

LEMMA EnterReloginKeeps == ASSUME IInv, NEW c \in Callers, EnterRelogin(c) PROVE IInv'
<1> DEFINE k == [call[c] EXCEPT !.phase = "login", !.try = @ + 1]
<1>1. call' = [call EXCEPT ![c] = k] /\ server' = server /\ session' = session
  BY DEF EnterRelogin, IInv, environment
<1>2. call[c] \in Call /\ Created(call[c]) /\ call[c].phase = "requeue"
  BY DEF IInv, Good, EnterRelogin
<1>3. k \in Call /\ Good(k, session)
  <2>1. [call[c] EXCEPT !.phase = "login"] \in Call /\ Good([call[c] EXCEPT !.phase = "login"], session)
    BY <1>2, OnlyPhase DEF Phases
  <2>2. call[c].try + 1 \in Nat
    BY <1>2 DEF Call
  <2>3. k \in Call
    BY <1>2, <2>2 DEF Phases, Call
  <2>4. Good(k, session)
    BY <1>2, <2>1 DEF Call, Good, Created, Timely, Ready
  <2> QED
    BY <2>3, <2>4
<1> QED
  BY <1>1, <1>3, OneCall DEF IInv

LEMMA LoginAnsweredKeeps == ASSUME IInv, NEW c \in Callers, LoginAnswered(c) PROVE IInv'
<1> DEFINE k == IF call[c].stage = "login" THEN Done(call[c], "ok")
                ELSE [call[c] EXCEPT !.phase = "ready", !.login = server.epoch]
<1>1. call' = [call EXCEPT ![c] = k] /\ server' = server /\ session' = NewSession
  BY DEF LoginAnswered, IInv, environment
<1>2. call[c] \in Call /\ Created(call[c]) /\ call[c].phase = "login"
  BY DEF IInv, Good, LoginAnswered
<1>3. session' \in Session /\ Lasting(session')
  BY <1>1, NewSessionLasts DEF IInv
<1>4. CASE call[c].stage = "login"
  <2>1. "ok" \in Replies
    BY DEF Replies
  <2>2. k \in Call /\ Good(k, session')
    BY <1>2, <1>4, <2>1, DoneType
  <2> QED
    BY <1>1, <1>3, <2>2, OneCall DEF IInv
<1>5. CASE call[c].stage # "login"
  <2>1. server.epoch \in Nat
    BY DEF IInv, Server
  <2>2. k \in Call
    BY <1>2, <1>5, <2>1 DEF Call, Phases
  <2>3. Good(k, session')
    BY <1>2, <1>3, <1>5 DEF Call, Good, Created, Timely, Ready
  <2> QED
    BY <1>1, <1>3, <2>2, <2>3, OneCall DEF IInv
<1> QED
  BY <1>4, <1>5

LEMMA LoginFailsKeeps == ASSUME IInv, NEW c \in Callers, LoginFails(c) PROVE IInv'
<1>1. /\ call' = [call EXCEPT ![c] = Done(call[c], "failed")]
      /\ server' = server /\ session' = session
  BY DEF LoginFails, IInv
<1>2. call[c] \in Call /\ Created(call[c]) /\ call[c].phase = "login" /\ "failed" \in Replies
  BY DEF IInv, Good, LoginFails, Replies
<1> QED
  BY <1>1, <1>2, DoneType, OneCall DEF IInv

LEMMA SendKeeps == ASSUME IInv, NEW c \in Callers, Send(c) PROVE IInv'
<1> DEFINE t == IF session.mode = "bearer" THEN session.token ELSE NoToken
           k == [call[c] EXCEPT !.phase = "sent", !.age = 0, !.token = t,
                                !.cookie = session.cookie]
<1>1. call' = [call EXCEPT ![c] = k] /\ server' = server /\ session' = session
  BY DEF Send, IInv, environment
<1>2. call[c] \in Call /\ Created(call[c]) /\ call[c].phase = "ready" /\ Lasting(session)
  BY DEF IInv, Good, Ready, Send
<1>3. t \in Token /\ session.cookie \in Nat
  BY DEF IInv, Session, Token, NoToken
<1>4. t.id # 0 => t.ttl > Window
  BY <1>2 DEF Lasting, NoToken
<1>5. k \in Call
  BY <1>2, <1>3 DEF Call, Phases
<1>6. Created(k) /\ Ready(k, session)
  BY <1>2, <1>5 DEF Call, Created, Ready
<1>7. Timely(k)
  BY <1>2, <1>3, <1>4, ClientAssumption DEF Call, Token, Timely
<1> QED
  BY <1>1, <1>5, <1>6, <1>7, OneCall DEF IInv, Good

LEMMA ReceiveKeeps == ASSUME IInv, NEW c \in Callers, Receive(c) PROVE IInv'
<1>1. /\ call' = [call EXCEPT ![c] = Done(call[c], call[c].reply)]
      /\ server' = server /\ session' = session
  BY DEF Receive, IInv, environment
<1>2. call[c] \in Call /\ Created(call[c]) /\ call[c].phase = "answered" /\ call[c].reply \in Replies
  BY DEF IInv, Good, Receive, Call
<1> QED
  BY <1>1, <1>2, DoneType, OneCall DEF IInv

LEMMA StaleKeeps == ASSUME IInv, NEW c \in Callers, Stale(c) PROVE IInv'
<1>1. /\ call[c] \in Call /\ Created(call[c]) /\ call[c].phase = "answered"
      /\ call[c].reply = "unauthorized" /\ server' = server
  BY DEF IInv, Good, Stale, environment
<1>2. CASE call[c].try = 0
  <2> DEFINE s == [session EXCEPT !.mode = "unknown", !.token = NoToken]
             k == [call[c] EXCEPT !.phase = "requeue"]
  <2>1. call' = [call EXCEPT ![c] = k] /\ session' = s
    BY <1>2 DEF Stale, IInv
  <2>2. s \in Session /\ Lasting(s)
    BY DEF IInv, Session, Modes, Token, NoToken, Lasting
  <2>3. k \in Call /\ Good(k, s)
    BY <1>1, OnlyPhase DEF Phases
  <2> QED
    BY <1>1, <2>1, <2>2, <2>3, OneCall DEF IInv
<1>3. CASE call[c].try # 0
  <2>1. call' = [call EXCEPT ![c] = Done(call[c], "unauthorized")] /\ session' = session
    BY <1>3 DEF Stale, IInv
  <2>2. "unauthorized" \in Replies
    BY DEF Replies
  <2> QED
    BY <1>1, <2>1, <2>2, DoneType, OneCall DEF IInv
<1> QED
  BY <1>2, <1>3

---------------------------------------------------------------------------
(* The server and the network.                                             *)

LEMMA AnswersType == ASSUME NEW k, NEW reply \in Answers(k) PROVE reply \in Replies
BY DEF Answers, Replies

LEMMA ServeKeeps == ASSUME IInv, NEW c \in Callers, Serve(c) PROVE IInv'
<1>1. PICK reply \in Answers(call[c]) :
        /\ call[c].phase = "sent"
        /\ call' = [call EXCEPT ![c].phase = "answered", ![c].reply = reply,
                      ![c].applied = IF Applies(call[c], reply) THEN @ + 1 ELSE @,
                      ![c].shown = IF call[c].stage \in {"list", "hosts"} /\ ~server.hosts
                                   THEN "empty" ELSE server.release]
        /\ server' = [server EXCEPT !.hosts = @ \/ (Applies(call[c], reply) /\ call[c].op = "create")]
        /\ session' = session
  BY DEF Serve
<1> DEFINE n == IF Applies(call[c], reply) THEN call[c].applied + 1 ELSE call[c].applied
           w == IF call[c].stage \in {"list", "hosts"} /\ ~server.hosts
                THEN "empty" ELSE server.release
           k == [call[c] EXCEPT !.phase = "answered", !.reply = reply, !.applied = n, !.shown = w]
<1>2. call[c] \in Call /\ Created(call[c]) /\ Timely(call[c]) /\ reply \in Replies
  BY AnswersType DEF IInv, Good
<1>3. call' = [call EXCEPT ![c] = k]
  BY <1>1 DEF IInv
<1>4. n \in Nat /\ w \in Shown
  BY <1>2 DEF Call, IInv, Server, Shown
<1>5. k \in Call
  BY <1>2, <1>4 DEF Call, Phases
<1>6. Timely(k) /\ Ready(k, session)
  BY <1>1, <1>2 DEF Call, Timely, Ready
<1>7. Created(k)
  <2>1. SUFFICES ASSUME call[c].op = "create" PROVE Created(k)
    BY <1>2 DEF Call, Created
  <2>2. CASE call[c].stage = "main"
    <3>1. call[c].applied = 0
      BY <1>1, <1>2, <2>1, <2>2 DEF Call, Created
    <3>2. n <= 1 /\ (n = 1 => reply = "ok")
      BY <3>1 DEF Applies
    <3> QED
      BY <1>2, <3>2 DEF Call, Created
  <2>3. CASE call[c].stage # "main"
    BY <1>2, <2>1, <2>3 DEF Call, Created, Applies
  <2> QED
    BY <2>2, <2>3
<1>8. server' \in Server
  BY <1>1 DEF IInv, Server
<1> QED
  BY <1>1, <1>3, <1>5, <1>6, <1>7, <1>8, OneCall DEF IInv, Good

LEMMA LostKeeps == ASSUME IInv, NEW c \in Callers, Lost(c) PROVE IInv'
<1>1. /\ call' = [call EXCEPT ![c] = Done(call[c], "failed")]
      /\ server' = server /\ session' = session
  BY DEF Lost, IInv
<1>2. call[c] \in Call /\ Created(call[c]) /\ call[c].phase # "ready" /\ "failed" \in Replies
  BY DEF IInv, Good, Lost, Replies
<1> QED
  BY <1>1, <1>2, DoneType, OneCall DEF IInv

\* The one step that sends again without the client: not for a create.
LEMMA ReplayKeeps == ASSUME IInv, NEW c \in Callers, Replay(c) PROVE IInv'
<1> DEFINE k == [call[c] EXCEPT !.phase = "sent"]
<1>1. call' = [call EXCEPT ![c] = k] /\ server' = server /\ session' = session
  BY DEF Replay, IInv
<1>2. call[c] \in Call /\ Created(call[c]) /\ Timely(call[c])
  BY DEF IInv, Good
<1>3. call[c].phase \in {"sent", "answered"}
      /\ (call[c].stage = "main" => call[c].op # "create")
  BY DEF Replay, Idempotent
<1>4. k \in Call
  BY <1>2 DEF Call, Phases
<1>5. Good(k, session)
  BY <1>2, <1>3 DEF Call, Good, Created, Timely, Ready
<1> QED
  BY <1>1, <1>4, <1>5, OneCall DEF IInv

---------------------------------------------------------------------------
(* The operations.                                                         *)

\* A call ends, or goes on with another request.
LEMMA ToIdle ==
  ASSUME IInv, NEW c \in Callers, call' = [call EXCEPT ![c] = Idle],
         server' = server, session' = session
  PROVE  IInv'
BY IdleType, OneCall DEF IInv

LEMMA ToDo ==
  ASSUME IInv, NEW c \in Callers, NEW stage \in Stages, stage # "main",
         call' = [call EXCEPT ![c] = Do(call[c], stage)],
         server' = server, session' = session
  PROVE  IInv'
<1>1. call[c] \in Call /\ Created(call[c])
  BY DEF IInv, Good
<1> QED
  BY <1>1, DoType, OneCall DEF IInv

LEMMA ReprobeKeeps ==
  ASSUME IInv, NEW c \in Callers, Reprobe(c), server' = server, session' = session
  PROVE  IInv'
<1> DEFINE stage == IF proc.pin # "auto" THEN "schema" ELSE "list"
<1>1. stage \in Stages /\ stage # "main"
  BY DEF Stages
<1>2. call' = [call EXCEPT ![c] = Idle] \/ call' = [call EXCEPT ![c] = Do(call[c], stage)]
  BY DEF Reprobe, IInv
<1> QED
  BY <1>1, <1>2, ToIdle, ToDo

LEMMA DoCall ==
  ASSUME NEW k \in Call, NEW stage \in Stages
  PROVE  /\ Do(k, stage) \in Call
         /\ Do(k, stage).applied = k.applied /\ Do(k, stage).phase = "ensure"
BY DEF Do, Call, Shown, Replies, Phases, None

LEMMA BeginKeeps ==
  ASSUME IInv, NEW c \in Callers, NEW op \in Operations, NEW kind \in Kinds, Begin(c, op, kind)
  PROVE  IInv'
<1> DEFINE i == [Idle EXCEPT !.op = op, !.kind = kind,
                             !.body = IF op \in Writes THEN Body(dialect, kind) ELSE {}]
           stage == IF op = "recheck" THEN "version" ELSE "main"
           k == Do(i, stage)
<1>1. call' = [call EXCEPT ![c] = k] /\ server' = server /\ session' = session
  BY DEF Begin, environment
<1>2. (IF op \in Writes THEN Body(dialect, kind) ELSE {}) \in SUBSET Properties
  BY BodyType
<1>3. i \in Call /\ i.applied = 0
  BY <1>2, IdleType DEF Call, Ops, Idle
<1>4. stage \in Stages
  BY DEF Stages
<1> HIDE DEF i, stage
<1>5. k \in Call /\ k.applied = 0 /\ k.phase = "ensure"
  BY <1>3, <1>4, DoCall
<1>6. Good(k, session)
  BY <1>5 DEF Good, Created, Timely, Ready
<1> QED
  BY <1>1, <1>5, <1>6, OneCall DEF IInv

LEMMA OperationReturnsKeeps == ASSUME IInv, NEW c \in Callers, OperationReturns(c) PROVE IInv'
<1>1. server' = server /\ session' = session
  BY DEF OperationReturns, environment
<1>2. Reprobe(c) \/ call' = [call EXCEPT ![c] = Idle]
  BY DEF OperationReturns
<1> QED
  BY <1>1, <1>2, ReprobeKeeps, ToIdle

LEMMA StartLoginKeeps == ASSUME IInv, NEW c \in Callers, StartLogin(c) PROVE IInv'
<1>1. server' = server /\ session' = session
  BY DEF StartLogin
<1>2. CASE call' = [call EXCEPT ![c] = Do(call[c], "version")]
  BY <1>1, <1>2, ToDo DEF Stages
<1>3. CASE call' = [call EXCEPT ![c] = Idle]
  BY <1>1, <1>3, ToIdle
<1>4. CASE call' = [call EXCEPT ![c].phase = "requeue"] /\ call[c].stage = "login"
  <2> DEFINE k == [call[c] EXCEPT !.phase = "requeue"]
  <2>1. call[c] \in Call /\ Created(call[c])
    BY DEF IInv, Good
  <2>2. k \in Call /\ Good(k, session)
    BY <1>4, <2>1 DEF Call, Phases, Good, Created, Timely, Ready
  <2>3. call' = [call EXCEPT ![c] = k]
    BY <1>4 DEF IInv
  <2> QED
    BY <1>1, <2>2, <2>3, OneCall DEF IInv
<1> QED
  BY <1>2, <1>3, <1>4 DEF StartLogin, IInv

LEMMA VersionReadKeeps == ASSUME IInv, NEW c \in Callers, VersionRead(c) PROVE IInv'
<1> DEFINE stage == IF dialect.flavour # "auto" THEN "schema" ELSE "list"
<1>1. stage \in Stages /\ stage # "main"
  BY DEF Stages
<1>2. call' = [call EXCEPT ![c] = Do(call[c], stage)] /\ server' = server /\ session' = session
  BY DEF VersionRead, environment, IInv
<1> QED
  BY <1>1, <1>2, ToDo

LEMMA VersionRecheckedKeeps == ASSUME IInv, NEW c \in Callers, VersionRechecked(c) PROVE IInv'
<1>1. server' = server /\ session' = session
  BY DEF VersionRechecked, environment
<1>2. Reprobe(c) \/ call' = [call EXCEPT ![c] = Idle]
  BY DEF VersionRechecked
<1> QED
  BY <1>1, <1>2, ReprobeKeeps, ToIdle

\* The probe keeps what a list showed.
LEMMA ToDoWith ==
  ASSUME IInv, NEW c \in Callers, NEW hosts \in Shown, NEW stage \in Stages, stage # "main",
         call' = [call EXCEPT ![c] = Do([call[c] EXCEPT !.hosts = hosts], stage)],
         server' = server, session' = session
  PROVE  IInv'
<1> DEFINE i == [call[c] EXCEPT !.hosts = hosts]
<1>1. call[c] \in Call /\ Created(call[c])
  BY DEF IInv, Good
<1>2. i \in Call /\ Created(i)
  BY <1>1 DEF Call, Created
<1> QED
  BY <1>2, DoType, OneCall DEF IInv

LEMMA HostsListedKeeps == ASSUME IInv, NEW c \in Callers, HostsListed(c) PROVE IInv'
<1>1. server' = server /\ session' = session
  BY DEF HostsListed
<1>2. CASE call' = [call EXCEPT ![c] = Idle]
  BY <1>1, <1>2, ToIdle
<1>3. CASE call' = [call EXCEPT ![c] = Do([call[c] EXCEPT !.hosts = call[c].shown], "schema")]
  <2>1. call[c].shown \in Shown
    BY DEF IInv, Call
  <2> QED
    BY <1>1, <1>3, <2>1, ToDoWith DEF Stages
<1>4. CASE call' = [call EXCEPT ![c] = Do([call[c] EXCEPT !.hosts = "empty"], "health")]
  BY <1>1, <1>4, ToDoWith DEF Stages, Shown
<1> QED
  BY <1>2, <1>3, <1>4 DEF HostsListed, IInv

LEMMA HealthReadKeeps == ASSUME IInv, NEW c \in Callers, HealthRead(c) PROVE IInv'
<1>1. /\ call' = [call EXCEPT ![c] = Do(call[c], "schema")]
      /\ server' = server /\ session' = session
  BY DEF HealthRead, environment, IInv
<1> QED
  BY <1>1, ToDo DEF Stages

LEMMA SchemaReadKeeps == ASSUME IInv, NEW c \in Callers, SchemaRead(c) PROVE IInv'
<1>1. server' = server /\ session' = session
  BY DEF SchemaRead
<1>2. \/ call' = [call EXCEPT ![c] = Idle]
      \/ call' = [call EXCEPT ![c] = Do(call[c], "hosts")]
  BY DEF SchemaRead, Learned, IInv
<1> QED
  BY <1>1, <1>2, ToIdle, ToDo DEF Stages

LEMMA HostsRereadKeeps == ASSUME IInv, NEW c \in Callers, HostsReread(c) PROVE IInv'
BY ToIdle DEF HostsReread, Learned

---------------------------------------------------------------------------
(* The process, the server and the clock.                                  *)

LEMMA InitIInv == Init => IInv
<1> SUFFICES ASSUME Init PROVE IInv
  OBVIOUS
<1>1. server \in Server
  BY ClientAssumption DEF Init, Server
<1>2. session \in Session
  BY DEF Init, NoSession, NoToken, Session, Modes, Token
<1>3. call \in [Callers -> Call] /\ \A c \in Callers : call[c] = Idle
  BY IdleType DEF Init
<1> QED
  BY <1>1, <1>2, <1>3, IdleType DEF IInv

LEMMA StartKeeps == ASSUME IInv, Start PROVE IInv'
<1> DEFINE first == [Idle EXCEPT !.op = "start", !.stage = "login", !.phase = "requeue"]
<1>1. first \in Call
  BY IdleType DEF Call, Ops, Stages, Phases
<1>2. first.op = "start" /\ first.phase = "requeue"
  BY IdleType DEF Call
<1>3. \A s : Good(first, s)
  BY <1>2 DEF Good, Created, Timely, Ready
<1>4. call' = [c \in Callers |-> IF c = Main THEN first ELSE Idle]
  BY DEF Start
<1> HIDE DEF first
<1>5. call' \in [Callers -> Call]
  BY <1>1, <1>4, IdleType
<1>6. \A c \in Callers : Good(call'[c], session')
  BY <1>3, <1>4, IdleType
<1>7. server' \in Server /\ session' \in Session
  BY DEF Start, IInv, NoSession, NoToken, Session, Modes, Token
<1> QED
  BY <1>5, <1>6, <1>7 DEF IInv, Good, Created, Timely, Ready, Lasting

\* A change of the server alone.
LEMMA ServerKeeps == ASSUME IInv, Upgrade \/ Revoke PROVE IInv'
<1>1. call' = call /\ session' = session
  BY DEF Upgrade, Revoke
<1>2. server' \in Server
  <2>1. server \in Server /\ server.epoch + 1 \in Nat
    BY DEF IInv, Server
  <2>2. CASE Upgrade
    <3>1. PICK release \in Served : server' = [server EXCEPT !.release = release, !.epoch = @ + 1]
      BY <2>2 DEF Upgrade
    <3>2. release \in Releases
      BY ClientAssumption
    <3> QED
      BY <2>1, <3>1, <3>2 DEF Server
  <2>3. CASE Revoke
    BY <2>1, <2>3 DEF Revoke, Server
  <2> QED
    BY <2>2, <2>3
<1> QED
  BY <1>1, <1>2 DEF IInv, Good, Created, Timely, Ready, Lasting

LEMMA TickKeeps == ASSUME IInv, Tick PROVE IInv'
<1> DEFINE Older(k) == [k EXCEPT !.token.ttl = Less(@),
                                 !.age = IF k.phase \in {"login", "sent"} THEN @ + 1 ELSE 0]
<1>1. \A n \in Nat : Less(n) \in Nat /\ Less(n) + 1 >= n
  BY DEF Less
<1>2. session' \in Session /\ server' \in Server
  <2>1. session.token.ttl \in Nat
    BY DEF IInv, Session, Token
  <2> QED
    BY <1>1, <2>1 DEF Tick, IInv, Session, Token, environment
<1>3. call' = [c \in Callers |-> Older(call[c])]
  BY DEF Tick
<1>4. ASSUME NEW c \in Callers PROVE Older(call[c]) \in Call /\ Good(Older(call[c]), session')
  <2> DEFINE k == call[c]
             l == Less(k.token.ttl)
             a == IF k.phase \in {"login", "sent"} THEN k.age + 1 ELSE 0
             t == [k.token EXCEPT !.ttl = l]
             o == [k EXCEPT !.token = t, !.age = a]
  <2>1. k \in Call /\ Good(k, session) /\ k.token \in Token
    BY DEF IInv, Call
  <2>2. l \in Nat /\ l + 1 >= k.token.ttl /\ a \in Nat /\ k.token.id \in Nat
    BY <1>1, <2>1 DEF Call, Token
  <2>3. Older(k) = o /\ t \in Token /\ t.id = k.token.id /\ t.ttl = l
    BY <2>1, <2>2 DEF Token
  <2>4. o \in Call
    BY <2>1, <2>2, <2>3 DEF Call
  <2>5. Created(o)
    BY <2>1 DEF Call, Good, Created
  <2>6. k.phase \in {"idle", "queue", "requeue", "login", "sent"} /\ k.age < RequestTime
    BY DEF Tick
  <2>7. Ready(o, session')
    BY <2>1, <2>6 DEF Call, Ready
  <2>8. Timely(o)
    <3>1. SUFFICES ASSUME k.phase = "sent" PROVE Timely(o)
      BY <2>1, <2>6 DEF Call, Timely
    <3>2. a <= RequestTime /\ (k.token.id # 0 => l + a > Window)
      BY <2>1, <2>2, <2>6, <3>1, ClientAssumption DEF Call, Token, Good, Timely
    <3> QED
      BY <2>1, <2>2, <2>3, <3>2 DEF Call, Timely
  <2> QED
    BY <2>3, <2>4, <2>5, <2>7, <2>8 DEF Good
<1> HIDE DEF Older
<1> QED
  BY <1>2, <1>3, <1>4 DEF IInv, Good, Created, Timely, Ready, Lasting

LEMMA NextKeeps == IInv /\ [Next]_vars => IInv'
<1> SUFFICES ASSUME IInv, [Next]_vars PROVE IInv'
  OBVIOUS
<1>1. ASSUME NEW c \in Callers, DoStep(c) PROVE IInv'
  BY <1>1, EnsureAuthKeeps, EnterLoginKeeps, EnterReloginKeeps, LoginAnsweredKeeps,
     LoginFailsKeeps, SendKeeps, ServeKeeps, LostKeeps, ReplayKeeps, ReceiveKeeps, StaleKeeps
     DEF DoStep
<1>2. ASSUME NEW c \in Callers, FollowUp(c) PROVE IInv'
  BY <1>2, OperationReturnsKeeps, StartLoginKeeps, VersionReadKeeps, VersionRecheckedKeeps,
     HostsListedKeeps, HealthReadKeeps, SchemaReadKeeps, HostsRereadKeeps
     DEF FollowUp
<1>3. ASSUME NEW c \in Callers, NEW op \in Writes, NEW kind \in Written, Begin(c, op, kind)
      PROVE  IInv'
  BY <1>3, BeginKeeps, ClientAssumption DEF Writes, Operations
<1>4. ASSUME NEW c \in Callers, NEW op \in Operations \ Writes, Begin(c, op, "proxy")
      PROVE  IInv'
  BY <1>4, BeginKeeps DEF Kinds
<1>5. CASE UNCHANGED vars
  BY <1>5 DEF vars, IInv, Good, Created, Timely, Ready, Lasting
<1> QED
  BY <1>1, <1>2, <1>3, <1>4, <1>5, StartKeeps, ServerKeeps, TickKeeps DEF Next

LEMMA IInvHolds == Spec => []IInv
BY InitIInv, NextKeeps, PTL DEF Spec

\* A create is carried out at most once by each call (Client.do, newRequest):
\* once the server has acted, neither the retry after a 401 nor net/http sends
\* the request again.
THEOREM CreatesHappenOnce == Spec => []CreatedOnce
<1>1. IInv => CreatedOnce
  BY DEF IInv, Good, Created, CreatedOnce
<1> QED
  BY <1>1, IInvHolds, PTL

\* No token expires under way (ensureAuth): a request has more than the refresh
\* window left when it is sent, whatever refused, renewed or dropped the session
\* before, so one that is not older than that window is never late.  Nothing is
\* assumed of how long NPM_TIMEOUT lets a request take.
THEOREM TokensOutliveRequests == Spec => []RenewedInTime
<1>1. IInv => RenewedInTime
  <2> SUFFICES ASSUME IInv, NEW c \in Callers, call[c].phase = "sent", call[c].token.id # 0,
                      call[c].age <= Window
               PROVE  call[c].token.ttl > 0
    BY DEF RenewedInTime
  <2>1. call[c] \in Call /\ Timely(call[c])
    BY DEF IInv, Good
  <2> QED
    BY <2>1, ClientAssumption DEF Call, Token, Timely
<1> QED
  BY <1>1, IInvHolds, PTL

---------------------------------------------------------------------------
(* One goroutine uses the client: the worker, which also runs the start.   *)
(* Nobody else drops the session between its login and its request, so a   *)
(* 401 after a login of the call itself is the server's doing.             *)

OneCaller == \A c, d \in Callers : c = d

\* What a request has to show, and the token a request would carry.
Shows(v, id, cookie) == IF FlavourOf(v.release) = "npm" THEN id = v.epoch ELSE cookie = v.epoch
Bearer(s) == IF s.mode = "bearer" THEN s.token.id ELSE 0

\* The last login of a call, as long as the server has not dropped it, is what
\* the call is about to send and what it has sent.
Renewed(k, s, v) ==
  /\ k.login <= v.epoch
  /\ k.phase \in {"ensure", "queue"} => k.try = 0 /\ k.login = 0
  /\ k.stage = "login" => k.phase \in {"requeue", "login", "done"} /\ k.reply # "unauthorized"
  /\ k.phase \in {"ready", "sent", "answered"} /\ k.try # 0 => k.login # 0
  /\ k.phase = "ready" /\ k.login = v.epoch => Shows(v, Bearer(s), s.cookie)
  /\ k.phase \in {"sent", "answered"} /\ k.login = v.epoch => Shows(v, k.token.id, k.cookie)
  /\ k.phase = "answered" /\ k.reply = "unauthorized" => k.login < v.epoch \/ k.age > Window

RInv == server.epoch >= 1 /\ \A c \in Callers : Renewed(call[c], session, server)

\* A step of the one call.
LEMMA RenewedCall ==
  ASSUME OneCaller, IInv, NEW c \in Callers, NEW k, call' = [call EXCEPT ![c] = k],
         Renewed(k, session', server'), server'.epoch >= 1
  PROVE  RInv'
<1>1. \A d \in Callers : d = c
  BY DEF OneCaller
<1>2. call'[c] = k
  BY DEF IInv
<1> QED
  BY <1>1, <1>2 DEF RInv

\* What a call keeps of itself when it is not at a request.
LEMMA RenewedType ==
  ASSUME IInv, RInv, NEW c \in Callers
  PROVE  /\ call[c] \in Call /\ Renewed(call[c], session, server)
         /\ server.epoch \in Nat /\ server.epoch >= 1
         /\ call[c].login \in Nat /\ call[c].login <= server.epoch
BY DEF IInv, RInv, Renewed, Call, Server

LEMMA RenewedIdle == ASSUME NEW s, NEW v, v.epoch \in Nat, v.epoch >= 1 PROVE Renewed(Idle, s, v)
BY DEF Renewed, Idle, None

LEMMA RenewedDo ==
  ASSUME NEW k \in Call, NEW stage \in Stages \ {"login"}, NEW s, NEW v, v.epoch \in Nat, v.epoch >= 1
  PROVE  Renewed(Do(k, stage), s, v)
<1>1. /\ Do(k, stage).phase = "ensure" /\ Do(k, stage).stage # "login"
      /\ Do(k, stage).login = 0 /\ Do(k, stage).try = 0
  BY DEF Do, Call
<1> QED
  BY <1>1 DEF Renewed

LEMMA RenewedDone ==
  ASSUME NEW k \in Call, NEW reply, reply # "unauthorized", NEW s, NEW v,
         v.epoch \in Nat, k.login <= v.epoch
  PROVE  Renewed(Done(k, reply), s, v)
<1>1. /\ Done(k, reply).phase = "done" /\ Done(k, reply).reply = reply
      /\ Done(k, reply).login = k.login
  BY DEF Done, Call
<1> QED
  BY <1>1 DEF Renewed

\* A call that waits for a login.
LEMMA RenewedWait ==
  ASSUME NEW k, NEW s, NEW v, v.epoch \in Nat, k.login <= v.epoch,
         k.phase \in {"requeue", "login"}, k.reply # "unauthorized"
  PROVE  Renewed(k, s, v)
BY DEF Renewed


LEMMA EnsureAuthRenews == ASSUME OneCaller, IInv, RInv, NEW c \in Callers, EnsureAuth(c) PROVE RInv'
<1> DEFINE phase == IF Fresh THEN "ready" ELSE "queue"
           k == [call[c] EXCEPT !.phase = phase]
<1>1. call' = [call EXCEPT ![c] = k] /\ server' = server /\ session' = session
  BY DEF EnsureAuth, IInv, environment
<1>2. call[c].phase = "ensure" /\ call[c] \in Call /\ Renewed(call[c], session, server)
  BY RenewedType DEF EnsureAuth
<1>3. /\ k.phase \in {"ready", "queue"} /\ k.stage = call[c].stage
      /\ k.login = call[c].login /\ k.try = call[c].try
  BY <1>2 DEF Call
<1>4. Renewed(k, session, server)
  BY <1>2, <1>3, RenewedType DEF Renewed
<1> QED
  BY <1>1, <1>4, RenewedType, RenewedCall

LEMMA EnterLoginRenews == ASSUME OneCaller, IInv, RInv, NEW c \in Callers, EnterLogin(c) PROVE RInv'
<1> DEFINE phase == IF Fresh THEN "ready" ELSE "login"
           k == [call[c] EXCEPT !.phase = phase]
<1>1. call' = [call EXCEPT ![c] = k] /\ server' = server /\ session' = session
  BY DEF EnterLogin, IInv, environment
<1>2. call[c].phase = "queue" /\ call[c] \in Call /\ Renewed(call[c], session, server)
  BY RenewedType DEF EnterLogin
<1>3. /\ k.phase \in {"ready", "login"} /\ k.stage = call[c].stage
      /\ k.login = call[c].login /\ k.try = call[c].try
  BY <1>2 DEF Call
<1>4. Renewed(k, session, server)
  BY <1>2, <1>3, RenewedType DEF Renewed
<1> QED
  BY <1>1, <1>4, RenewedType, RenewedCall

LEMMA EnterReloginRenews == ASSUME OneCaller, IInv, RInv, NEW c \in Callers, EnterRelogin(c) PROVE RInv'
<1> DEFINE k == [call[c] EXCEPT !.phase = "login", !.try = @ + 1]
<1>1. call' = [call EXCEPT ![c] = k] /\ server' = server /\ session' = session
  BY DEF EnterRelogin, IInv, environment
<1>2. call[c].phase = "requeue" /\ call[c] \in Call /\ Renewed(call[c], session, server)
  BY RenewedType DEF EnterRelogin
<1>3. /\ k.phase = "login" /\ k.stage = call[c].stage
      /\ k.login = call[c].login /\ k.reply = call[c].reply
  BY <1>2 DEF Call
<1>4. Renewed(k, session, server)
  BY <1>2, <1>3, RenewedType DEF Renewed
<1> QED
  BY <1>1, <1>4, RenewedType, RenewedCall

\* The session a login leaves is the one the server accepts now.
LEMMA NewSessionShows ==
  ASSUME session \in Session
  PROVE  Shows(server, Bearer(NewSession), NewSession.cookie)
BY DEF NewSession, Shows, Bearer, Session, Token

LEMMA LoginAnsweredRenews ==
  ASSUME OneCaller, IInv, RInv, NEW c \in Callers, LoginAnswered(c) PROVE RInv'
<1> DEFINE k == IF call[c].stage = "login" THEN Done(call[c], "ok")
                ELSE [call[c] EXCEPT !.phase = "ready", !.login = server.epoch]
<1>1. call' = [call EXCEPT ![c] = k] /\ server' = server /\ session' = NewSession
  BY DEF LoginAnswered, IInv, environment
<1>2. call[c] \in Call /\ Renewed(call[c], session, server)
  BY RenewedType
<1>3. CASE call[c].stage = "login"
  <2>1. Renewed(k, NewSession, server)
    BY <1>2, <1>3, RenewedType, RenewedDone
  <2> QED
    BY <1>1, <2>1, RenewedType, RenewedCall
<1>4. CASE call[c].stage # "login"
  <2>1. k.phase = "ready" /\ k.stage # "login" /\ k.login = server.epoch
    BY <1>2, <1>4 DEF Call
  <2>2. Shows(server, Bearer(NewSession), NewSession.cookie)
    BY NewSessionShows DEF IInv
  <2>3. Renewed(k, NewSession, server)
    BY <2>1, <2>2, RenewedType DEF Renewed
  <2> QED
    BY <1>1, <2>3, RenewedType, RenewedCall
<1> QED
  BY <1>3, <1>4

LEMMA LoginFailsRenews == ASSUME OneCaller, IInv, RInv, NEW c \in Callers, LoginFails(c) PROVE RInv'
<1>1. /\ call' = [call EXCEPT ![c] = Done(call[c], "failed")]
      /\ server' = server /\ session' = session
  BY DEF LoginFails, IInv
<1> QED
  BY <1>1, RenewedType, RenewedDone, RenewedCall

LEMMA SendRenews == ASSUME OneCaller, IInv, RInv, NEW c \in Callers, Send(c) PROVE RInv'
<1> DEFINE t == IF session.mode = "bearer" THEN session.token ELSE NoToken
           k == [call[c] EXCEPT !.phase = "sent", !.age = 0, !.token = t,
                                !.cookie = session.cookie]
<1>1. call' = [call EXCEPT ![c] = k] /\ server' = server /\ session' = session
  BY DEF Send, IInv, environment
<1>2. call[c].phase = "ready" /\ call[c] \in Call /\ Renewed(call[c], session, server)
  BY RenewedType DEF Send
<1>3. t.id = Bearer(session)
  BY DEF Bearer, NoToken
<1>4. /\ k.phase = "sent" /\ k.stage = call[c].stage /\ k.login = call[c].login
      /\ k.try = call[c].try /\ k.token = t /\ k.cookie = session.cookie
  BY <1>2 DEF Call
<1>5. Renewed(k, session, server)
  BY <1>2, <1>3, <1>4, RenewedType DEF Renewed
<1> QED
  BY <1>1, <1>5, RenewedType, RenewedCall

\* What shows the session the server has now is not refused within the refresh
\* window: the token has not run out under way.
LEMMA ShownIsTaken ==
  ASSUME NEW k \in Call, Timely(k), k.phase = "sent", k.age <= Window, server \in Server, server.epoch >= 1,
         Shows(server, k.token.id, k.cookie), NEW reply \in Answers(k)
  PROVE  reply # "unauthorized"
<1>1. Authorised(k)
  BY ClientAssumption DEF Authorised, Shows, Timely, Call, Token, Server
<1> QED
  BY <1>1 DEF Answers

LEMMA ServeRenews == ASSUME OneCaller, IInv, RInv, NEW c \in Callers, Serve(c) PROVE RInv'
<1>1. PICK reply \in Answers(call[c]) :
        /\ call[c].phase = "sent"
        /\ call' = [call EXCEPT ![c].phase = "answered", ![c].reply = reply,
                      ![c].applied = IF Applies(call[c], reply) THEN @ + 1 ELSE @,
                      ![c].shown = IF call[c].stage \in {"list", "hosts"} /\ ~server.hosts
                                   THEN "empty" ELSE server.release]
        /\ server' = [server EXCEPT !.hosts = @ \/ (Applies(call[c], reply) /\ call[c].op = "create")]
        /\ session' = session
  BY DEF Serve
<1> DEFINE n == IF Applies(call[c], reply) THEN call[c].applied + 1 ELSE call[c].applied
           w == IF call[c].stage \in {"list", "hosts"} /\ ~server.hosts
                THEN "empty" ELSE server.release
           k == [call[c] EXCEPT !.phase = "answered", !.reply = reply, !.applied = n, !.shown = w]
<1>2. call[c] \in Call /\ Timely(call[c]) /\ Renewed(call[c], session, server)
  BY RenewedType DEF IInv, Good
<1>3. call' = [call EXCEPT ![c] = k]
  BY <1>1 DEF IInv
<1>4. server'.release = server.release /\ server'.epoch = server.epoch
  BY <1>1 DEF IInv, Server
<1>5. /\ k.phase = "answered" /\ k.stage = call[c].stage /\ k.login = call[c].login
      /\ k.try = call[c].try /\ k.token = call[c].token /\ k.cookie = call[c].cookie
      /\ k.reply = reply /\ k.age = call[c].age /\ call[c].age \in Nat
  BY <1>2 DEF Call
<1>6. reply = "unauthorized" => call[c].login # server.epoch \/ call[c].age > Window
  BY <1>1, <1>2, <1>5, RenewedType, ShownIsTaken, ClientAssumption DEF Renewed, IInv
<1>7. Renewed(k, session', server')
  BY <1>1, <1>2, <1>4, <1>5, <1>6, RenewedType DEF Renewed, Shows
<1> QED
  BY <1>3, <1>4, <1>7, RenewedType, RenewedCall

LEMMA LostRenews == ASSUME OneCaller, IInv, RInv, NEW c \in Callers, Lost(c) PROVE RInv'
<1>1. /\ call' = [call EXCEPT ![c] = Done(call[c], "failed")]
      /\ server' = server /\ session' = session
  BY DEF Lost, IInv
<1> QED
  BY <1>1, RenewedType, RenewedDone, RenewedCall

LEMMA ReplayRenews == ASSUME OneCaller, IInv, RInv, NEW c \in Callers, Replay(c) PROVE RInv'
<1> DEFINE k == [call[c] EXCEPT !.phase = "sent"]
<1>1. call' = [call EXCEPT ![c] = k] /\ server' = server /\ session' = session
  BY DEF Replay, IInv
<1>2. /\ call[c].phase \in {"sent", "answered"}
      /\ call[c] \in Call /\ Renewed(call[c], session, server)
  BY RenewedType DEF Replay
<1>3. /\ k.phase = "sent" /\ k.stage = call[c].stage /\ k.login = call[c].login
      /\ k.try = call[c].try /\ k.token = call[c].token /\ k.cookie = call[c].cookie
  BY <1>2 DEF Call
<1>4. Renewed(k, session, server)
  BY <1>2, <1>3, RenewedType DEF Renewed
<1> QED
  BY <1>1, <1>4, RenewedType, RenewedCall

LEMMA ReceiveRenews == ASSUME OneCaller, IInv, RInv, NEW c \in Callers, Receive(c) PROVE RInv'
<1>1. /\ call' = [call EXCEPT ![c] = Done(call[c], call[c].reply)]
      /\ server' = server /\ session' = session /\ call[c].reply # "unauthorized"
  BY DEF Receive, IInv, environment
<1> QED
  BY <1>1, RenewedType, RenewedDone, RenewedCall

\* The first 401 of a call asks for a login, the second one ends it.
LEMMA StaleRenews == ASSUME OneCaller, IInv, RInv, NEW c \in Callers, Stale(c) PROVE RInv'
<1>1. /\ call[c] \in Call /\ call[c].phase = "answered" /\ call[c].reply = "unauthorized"
      /\ server' = server /\ Renewed(call[c], session, server)
  BY RenewedType DEF Stale, environment
<1>2. CASE call[c].try = 0
  <2> DEFINE k == [call[c] EXCEPT !.phase = "requeue"]
  <2>1. call' = [call EXCEPT ![c] = k]
    BY <1>2 DEF Stale, IInv
  <2>2. k.phase = "requeue" /\ k.stage = call[c].stage /\ k.login = call[c].login
    BY <1>1 DEF Call
  <2>3. k.stage # "login"
    BY <1>1, <2>2 DEF Renewed
  <2>4. Renewed(k, session', server')
    BY <1>1, <2>2, <2>3, RenewedType DEF Renewed
  <2> QED
    BY <1>1, <2>1, <2>4, RenewedType, RenewedCall
<1>3. CASE call[c].try # 0
  <2> DEFINE k == Done(call[c], "unauthorized")
  <2>1. call' = [call EXCEPT ![c] = k]
    BY <1>3 DEF Stale, IInv
  <2>2. /\ k.phase = "done" /\ k.stage = call[c].stage /\ k.login = call[c].login
    BY <1>1 DEF Call, Done
  <2>3. k.stage # "login"
    BY <1>1, <2>2 DEF Renewed
  <2>4. Renewed(k, session', server')
    BY <1>1, <2>2, <2>3, RenewedType DEF Renewed
  <2> QED
    BY <1>1, <2>1, <2>4, RenewedType, RenewedCall
<1> QED
  BY <1>2, <1>3

\* The operations: a call ends, or goes on with another request.
LEMMA RenewedToIdle ==
  ASSUME OneCaller, IInv, RInv, NEW c \in Callers, call' = [call EXCEPT ![c] = Idle],
         server' = server
  PROVE  RInv'
BY RenewedType, RenewedIdle, RenewedCall

LEMMA RenewedToDo ==
  ASSUME OneCaller, IInv, RInv, NEW c \in Callers, NEW k \in Call, NEW stage \in Stages \ {"login"},
         call' = [call EXCEPT ![c] = Do(k, stage)], server' = server
  PROVE  RInv'
BY RenewedType, RenewedDo, RenewedCall

LEMMA ReprobeRenews ==
  ASSUME OneCaller, IInv, RInv, NEW c \in Callers, Reprobe(c), server' = server
  PROVE  RInv'
<1> DEFINE stage == IF proc.pin # "auto" THEN "schema" ELSE "list"
<1>1. stage \in Stages \ {"login"}
  BY DEF Stages
<1>2. call' = [call EXCEPT ![c] = Idle] \/ call' = [call EXCEPT ![c] = Do(call[c], stage)]
  BY DEF Reprobe, IInv
<1> QED
  BY <1>1, <1>2, RenewedType, RenewedToIdle, RenewedToDo

LEMMA BeginRenews ==
  ASSUME OneCaller, IInv, RInv, NEW c \in Callers, NEW op \in Operations, NEW kind \in Kinds,
         Begin(c, op, kind)
  PROVE  RInv'
<1> DEFINE i == [Idle EXCEPT !.op = op, !.kind = kind,
                             !.body = IF op \in Writes THEN Body(dialect, kind) ELSE {}]
           stage == IF op = "recheck" THEN "version" ELSE "main"
<1>1. call' = [call EXCEPT ![c] = Do(i, stage)] /\ server' = server
  BY DEF Begin, environment
<1>2. (IF op \in Writes THEN Body(dialect, kind) ELSE {}) \in SUBSET Properties
  BY BodyType
<1>3. i \in Call
  BY <1>2, IdleType DEF Call, Ops, Idle
<1>4. stage \in Stages \ {"login"}
  BY DEF Stages
<1> HIDE DEF i, stage
<1> QED
  BY <1>1, <1>3, <1>4, RenewedToDo

LEMMA OperationReturnsRenews ==
  ASSUME OneCaller, IInv, RInv, NEW c \in Callers, OperationReturns(c) PROVE RInv'
<1>1. server' = server
  BY DEF OperationReturns, environment
<1>2. Reprobe(c) \/ call' = [call EXCEPT ![c] = Idle]
  BY DEF OperationReturns
<1> QED
  BY <1>1, <1>2, ReprobeRenews, RenewedToIdle

LEMMA StartLoginRenews == ASSUME OneCaller, IInv, RInv, NEW c \in Callers, StartLogin(c) PROVE RInv'
<1>1. server' = server /\ call[c].phase = "done" /\ call[c].stage = "login"
  BY DEF StartLogin
<1>2. CASE call' = [call EXCEPT ![c] = Do(call[c], "version")]
  BY <1>1, <1>2, RenewedType, RenewedToDo DEF Stages
<1>3. CASE call' = [call EXCEPT ![c] = Idle]
  BY <1>1, <1>3, RenewedToIdle
<1>4. CASE call' = [call EXCEPT ![c].phase = "requeue"]
  <2> DEFINE k == [call[c] EXCEPT !.phase = "requeue"]
  <2>1. call[c] \in Call /\ Renewed(call[c], session, server)
    BY RenewedType
  <2>2. /\ k.phase = "requeue" /\ k.stage = "login" /\ k.login = call[c].login
        /\ k.reply = call[c].reply
    BY <1>1, <2>1 DEF Call
  <2>3. Renewed(k, session', server')
    BY <1>1, <2>1, <2>2, RenewedType DEF Renewed
  <2>4. call' = [call EXCEPT ![c] = k]
    BY <1>4 DEF IInv
  <2> QED
    BY <1>1, <2>3, <2>4, RenewedType, RenewedCall
<1> QED
  BY <1>2, <1>3, <1>4 DEF StartLogin, IInv

LEMMA ProbeRenews ==
  ASSUME OneCaller, IInv, RInv, NEW c \in Callers,
         \/ VersionRead(c) \/ VersionRechecked(c) \/ HostsListed(c) \/ HealthRead(c)
         \/ SchemaRead(c) \/ HostsReread(c)
  PROVE  RInv'
<1>1. server' = server
  BY DEF VersionRead, VersionRechecked, HostsListed, HealthRead, SchemaRead, HostsReread, environment
<1>2. call[c] \in Call
  BY RenewedType
<1>3. CASE VersionRead(c)
  <2>1. \E stage \in {"schema", "list"} : call' = [call EXCEPT ![c] = Do(call[c], stage)]
    BY <1>3 DEF VersionRead, IInv
  <2> QED
    BY <1>1, <1>2, <2>1, RenewedToDo DEF Stages
<1>4. CASE VersionRechecked(c)
  <2>1. Reprobe(c) \/ call' = [call EXCEPT ![c] = Idle]
    BY <1>4 DEF VersionRechecked
  <2> QED
    BY <1>1, <2>1, ReprobeRenews, RenewedToIdle
<1>5. CASE HostsListed(c)
  <2>1. \/ call' = [call EXCEPT ![c] = Idle]
        \/ call' = [call EXCEPT ![c] = Do([call[c] EXCEPT !.hosts = call[c].shown], "schema")]
        \/ call' = [call EXCEPT ![c] = Do([call[c] EXCEPT !.hosts = "empty"], "health")]
    BY <1>5 DEF HostsListed, IInv
  <2>2. [call[c] EXCEPT !.hosts = call[c].shown] \in Call /\ [call[c] EXCEPT !.hosts = "empty"] \in Call
    BY <1>2 DEF Call, Shown
  <2> QED
    BY <1>1, <2>1, <2>2, RenewedToIdle, RenewedToDo DEF Stages
<1>6. CASE HealthRead(c)
  <2>1. call' = [call EXCEPT ![c] = Do(call[c], "schema")]
    BY <1>6 DEF HealthRead, IInv
  <2> QED
    BY <1>1, <1>2, <2>1, RenewedToDo DEF Stages
<1>7. CASE SchemaRead(c)
  <2>1. call' = [call EXCEPT ![c] = Idle] \/ call' = [call EXCEPT ![c] = Do(call[c], "hosts")]
    BY <1>7 DEF SchemaRead, Learned, IInv
  <2> QED
    BY <1>1, <1>2, <2>1, RenewedToIdle, RenewedToDo DEF Stages
<1>8. CASE HostsReread(c)
  BY <1>1, <1>8, RenewedToIdle DEF HostsReread, Learned
<1> QED
  BY <1>3, <1>4, <1>5, <1>6, <1>7, <1>8

\* The process, the server and the clock.
LEMMA RenewedInit == Init => RInv
<1> SUFFICES ASSUME Init PROVE RInv
  OBVIOUS
<1>1. server.epoch = 1 /\ \A c \in Callers : call[c] = Idle
  BY DEF Init
<1> QED
  BY <1>1, RenewedIdle DEF RInv

LEMMA StartRenews == ASSUME IInv, RInv, Start PROVE RInv'
<1> DEFINE first == [Idle EXCEPT !.op = "start", !.stage = "login", !.phase = "requeue"]
<1>1. server' = server /\ call' = [c \in Callers |-> IF c = Main THEN first ELSE Idle]
  BY DEF Start
<1>2. server.epoch \in Nat /\ server.epoch >= 1
  BY DEF IInv, RInv, Server
<1>3. first.phase = "requeue" /\ first.login = 0 /\ first.reply # "unauthorized"
  BY DEF Idle, None
<1> HIDE DEF first
<1>4. Renewed(first, session', server) /\ Renewed(Idle, session', server)
  BY <1>2, <1>3, RenewedWait, RenewedIdle
<1> QED
  BY <1>1, <1>2, <1>4 DEF RInv

\* No login is of the session that begins with the next epoch.
LEMMA ServerRenews == ASSUME IInv, RInv, Upgrade \/ Revoke PROVE RInv'
<1>1. call' = call /\ session' = session /\ server'.epoch = server.epoch + 1
  BY DEF Upgrade, Revoke, IInv, Server
<1>2. ASSUME NEW c \in Callers PROVE Renewed(call[c], session, server')
  BY <1>1, RenewedType DEF Renewed
<1>3. server.epoch + 1 >= 1
  BY DEF RInv, IInv, Server
<1> QED
  BY <1>1, <1>2, <1>3 DEF RInv

LEMMA TickRenews == ASSUME IInv, RInv, Tick PROVE RInv'
<1> DEFINE Older(k) == [k EXCEPT !.token.ttl = Less(@),
                                 !.age = IF k.phase \in {"login", "sent"} THEN @ + 1 ELSE 0]
<1>1. server' = server /\ call' = [c \in Callers |-> Older(call[c])]
  BY DEF Tick, environment
<1>2. ASSUME NEW c \in Callers PROVE Renewed(Older(call[c]), session', server)
  <2> DEFINE k == call[c]
             o == Older(k)
  <2>1. k \in Call /\ k.phase # "ready" /\ Renewed(k, session, server)
    BY RenewedType DEF Tick
  <2>2. /\ o.phase = k.phase /\ o.stage = k.stage /\ o.login = k.login /\ o.try = k.try
        /\ o.reply = k.reply /\ o.token.id = k.token.id /\ o.cookie = k.cookie
        /\ o.phase # "answered"
    BY <2>1 DEF Call, Token, Tick
  <2> HIDE DEF o
  <2>3. Renewed(o, session', server)
    BY <2>1, <2>2 DEF Renewed
  <2> QED
    BY <2>3 DEF o
<1> HIDE DEF Older
<1> QED
  BY <1>1, <1>2 DEF RInv

LEMMA RenewedNext == OneCaller /\ IInv /\ RInv /\ [Next]_vars => RInv'
<1> SUFFICES ASSUME OneCaller, IInv, RInv, [Next]_vars PROVE RInv'
  OBVIOUS
<1>1. ASSUME NEW c \in Callers, DoStep(c) PROVE RInv'
  BY <1>1, EnsureAuthRenews, EnterLoginRenews, EnterReloginRenews, LoginAnsweredRenews,
     LoginFailsRenews, SendRenews, ServeRenews, LostRenews, ReplayRenews, ReceiveRenews,
     StaleRenews DEF DoStep
<1>2. ASSUME NEW c \in Callers, FollowUp(c) PROVE RInv'
  BY <1>2, OperationReturnsRenews, StartLoginRenews, ProbeRenews DEF FollowUp
<1>3. ASSUME NEW c \in Callers, NEW op \in Writes, NEW kind \in Written, Begin(c, op, kind)
      PROVE  RInv'
  BY <1>3, BeginRenews, ClientAssumption DEF Writes, Operations
<1>4. ASSUME NEW c \in Callers, NEW op \in Operations \ Writes, Begin(c, op, "proxy")
      PROVE  RInv'
  BY <1>4, BeginRenews DEF Kinds
<1>5. CASE UNCHANGED vars
  BY <1>5 DEF vars, RInv
<1> QED
  BY <1>1, <1>2, <1>3, <1>4, <1>5, StartRenews, ServerRenews, TickRenews DEF Next

\* A call gives up on a 401 only when the session it logged in to itself has
\* been revoked since, or the answer took longer than the refresh window
\* (Client.do: the retry after a login).  The program has one
\* goroutine that uses the client; of two, one could drop the session the other
\* has just logged in to.
THEOREM RefusedForAReason == ASSUME OneCaller PROVE Spec => []RefusedOnlyWhenRevoked
<1>1. Init => RInv
  BY RenewedInit
<1>2. IInv /\ RInv /\ [Next]_vars => RInv'
  BY RenewedNext
<1>3. IInv /\ RInv => RefusedOnlyWhenRevoked
  BY RenewedType DEF RefusedOnlyWhenRevoked, Renewed
<1> QED
  BY <1>1, <1>2, <1>3, IInvHolds, PTL DEF Spec

---------------------------------------------------------------------------
(* The bounds: how often a request logs in, how often it is carried out,   *)
(* which sessions there are, and who holds the login mutex.                *)

Epochs == 0..(1 + MaxUpgrades + MaxRevokes)
Fields == UNION {Takes(r, k) : r \in Releases, k \in Kinds}
Faults == 0..MaxFaults

\* A request of the start logs in until MaxAttempts, any other one once more after a 401.
Tries(k) ==
  /\ k.try <= MaxAttempts
  /\ k.stage # "login" => k.try <= 1
  /\ k.phase = "requeue" => k.try < MaxAttempts /\ (k.stage # "login" => k.try = 0)
  /\ k.stage = "login" => k.phase \in {"requeue", "login", "done"}

\* What a request carries was given out by the server, and it has not taken too long yet.
Carries(k) ==
  /\ k.token \in Tokens /\ k.cookie \in Epochs /\ k.login \in Epochs
  /\ k.age <= RequestTime /\ k.body \subseteq Fields

\* The server may have carried out the request that was sent last.
MayHaveActed(k) == k.phase = "done" \/ (k.phase = "answered" /\ k.reply # "unauthorized")

\* A request is carried out once more only when net/http has sent it again, which takes a
\* fault; f faults are left.
Acts(k, f) ==
  /\ k.applied <= 1 + (MaxFaults - f)
  /\ k.stage = "main" /\ ~MayHaveActed(k) => k.applied <= MaxFaults - f

\* Of the server, only a list without hosts says nothing.
Says(k) ==
  k.phase \in {"answered", "done"} /\ k.reply = "ok" /\ k.stage \in {"version", "schema"}
    => k.shown \in Releases

Bounded(k, f) == Tries(k) /\ Carries(k) /\ Acts(k, f) /\ Says(k)

BInv == left.faults \in Faults /\ \A c \in Callers : Bounded(call[c], left.faults)

\* The login mutex is held by who logs in.
MInv == \A c \in Callers : loginMu = c <=> call[c].phase = "login"

\* What the callers share: every session was given out in an epoch of the server, and of
\* these there is one for every upgrade and revocation.
SInv ==
  /\ left.upgrades \in 0..MaxUpgrades /\ left.revokes \in 0..MaxRevokes
  /\ left \in [upgrades: Nat, revokes: Nat, faults: Nat]
  /\ server.epoch = 1 + (MaxUpgrades - left.upgrades) + (MaxRevokes - left.revokes)
  /\ session.token \in Tokens /\ session.cookie \in Epochs
  /\ dialect \in Dialect /\ cooldown \in 0..Cooldown
  /\ proc \in [state: {"ended", "starting", "running"}, pin: Pins]

\* Every property the client writes is one that some release takes.
LEMMA FieldsAreTaken == Properties \subseteq Fields
<1> DEFINE T(r, k) == Takes(r, k)
<1>1. \A r \in Releases, k \in Kinds : Takes(r, k) \subseteq Fields
  BY DEF Fields
<1>2. {"npm212", "plusMeta", "plusColumns"} \subseteq Releases /\ {"proxy", "stream"} \subseteq Kinds
  BY DEF Releases, Kinds
<1>3. {"meta", "advanced_config", "http2_support", "trust_forwarded_proto", "access_list_id"}
        \subseteq Takes("npm212", "proxy")
  BY DEF Takes, Upstream, LegacySwitches
<1>4. {"npmplus_access_list_ids", "npmplus_http3_support", "locations/npmplus_location_config"}
        \subseteq Takes("plusMeta", "proxy")
  BY DEF Takes, Upstream
<1>5. {"npmplus_directory", "npmplus_advanced_config", "certificate_id"}
        \subseteq Takes("plusColumns", "stream")
  BY DEF Takes, Upstream
<1>6. {"meta", "advanced_config", "http2_support", "trust_forwarded_proto", "access_list_id",
       "npmplus_access_list_ids", "npmplus_http3_support", "locations/npmplus_location_config",
       "npmplus_directory", "npmplus_advanced_config", "certificate_id"} \subseteq Fields
  BY <1>1, <1>2, <1>3, <1>4, <1>5
<1>7. ASSUME NEW k \in Kinds PROVE Carried(k) \subseteq Fields
  <2>1. Fixed("npm", k) \cup Fixed("npmplus", k) \subseteq Fields
    BY <1>6 DEF Fixed
  <2>2. Optional("npm", k) \cup Optional("npmplus", k) \subseteq Fields
    BY <1>6 DEF Optional
  <2> QED
    BY <2>1, <2>2 DEF Carried
<1> QED
  BY <1>7 DEF Properties

LEMMA BoundTypes ==
  /\ 0 \in Epochs /\ 0 \in 0..Lifetime /\ NoToken \in Tokens /\ None \notin Releases
  /\ MaxAttempts \in Nat /\ MaxAttempts >= 1 /\ MaxFaults \in Nat /\ RequestTime \in Nat
BY ClientAssumption DEF Epochs, NoToken, Tokens, None, Releases

LEMMA BoundedIdle == ASSUME NEW f \in Faults PROVE Bounded(Idle, f)
<1>1. f \in Nat /\ f <= MaxFaults
  BY BoundTypes DEF Faults
<1>2. Tries(Idle) /\ Carries(Idle)
  BY BoundTypes DEF Idle, Tries, Carries, None
<1>3. Acts(Idle, f) /\ Says(Idle)
  BY <1>1, BoundTypes DEF Idle, Acts, Says, None
<1> QED
  BY <1>2, <1>3 DEF Bounded

\* The start of another request: what the last one did is no matter any more.
LEMMA BoundedDo ==
  ASSUME NEW k \in Call, NEW f \in Faults, Bounded(k, f), NEW stage \in Stages \ {"main", "login"}
  PROVE  Bounded(Do(k, stage), f)
<1> DEFINE d == Do(k, stage)
<1>1. /\ d.stage = stage /\ d.phase = "ensure" /\ d.try = 0 /\ d.login = 0
      /\ d.token = k.token /\ d.cookie = k.cookie /\ d.age = k.age /\ d.body = k.body
      /\ d.applied = k.applied
  BY DEF Do, Call
<1> HIDE DEF d
<1>2. Tries(d) /\ Says(d)
  BY <1>1, BoundTypes DEF Tries, Says
<1>3. Carries(d)
  BY <1>1, BoundTypes DEF Carries, Bounded
<1>4. Acts(d, f)
  BY <1>1 DEF Acts, Bounded
<1>5. Bounded(d, f)
  BY <1>2, <1>3, <1>4 DEF Bounded
<1> QED
  BY <1>5 DEF d

\* The end of a request.
LEMMA BoundedDone ==
  ASSUME NEW k \in Call, NEW f \in Faults, Bounded(k, f), NEW reply \in Replies,
         \/ reply # "ok" \/ k.stage = "login"
         \/ k.phase = "answered" /\ k.reply = reply
  PROVE  Bounded(Done(k, reply), f)
<1> DEFINE d == Done(k, reply)
<1>1. /\ d.stage = k.stage /\ d.phase = "done" /\ d.try = k.try /\ d.login = k.login
      /\ d.token = NoToken /\ d.cookie = 0 /\ d.age = 0 /\ d.body = k.body
      /\ d.applied = k.applied /\ d.reply = reply /\ d.shown = k.shown
  BY DEF Done, Call
<1> HIDE DEF d
<1>2. Tries(d)
  BY <1>1 DEF Tries, Bounded
<1>3. Says(d)
  BY <1>1 DEF Says, Bounded
<1>4. Carries(d)
  BY <1>1, BoundTypes DEF Carries, Bounded
<1>5. Acts(d, f)
  BY <1>1 DEF Acts, Bounded, MayHaveActed
<1>6. Bounded(d, f)
  BY <1>2, <1>3, <1>4, <1>5 DEF Bounded
<1> QED
  BY <1>6 DEF d

\* A fault of another call takes nothing away.
LEMMA BoundedLater ==
  ASSUME NEW k \in Call, NEW f \in Faults, NEW g \in Faults, g <= f, Bounded(k, f)
  PROVE  Bounded(k, g)
<1>1. f \in Nat /\ g \in Nat /\ k.applied \in Nat
  BY BoundTypes DEF Faults, Call
<1>2. Acts(k, g)
  BY <1>1, BoundTypes DEF Acts, Bounded
<1> QED
  BY <1>2 DEF Bounded

\* A step that changes one call, and spends a fault at most.
LEMMA OneBounded ==
  ASSUME IInv, BInv, NEW c \in Callers, NEW k, call' = [call EXCEPT ![c] = k],
         left.faults' \in Faults, left.faults' <= left.faults, Bounded(k, left.faults')
  PROVE  BInv'
<1>1. ASSUME NEW d \in Callers PROVE Bounded(call'[d], left.faults')
  <2>1. CASE d = c
    BY <2>1 DEF IInv
  <2>2. CASE d # c
    <3>1. call'[d] = call[d] /\ call[d] \in Call /\ Bounded(call[d], left.faults)
      BY <2>2 DEF IInv, BInv
    <3> QED
      BY <3>1, BoundedLater DEF BInv
  <2> QED
    BY <2>1, <2>2
<1> QED
  BY <1>1 DEF BInv

LEMMA BoundedCall ==
  ASSUME IInv, BInv, NEW c \in Callers
  PROVE  /\ call[c] \in Call /\ left.faults \in Faults /\ Bounded(call[c], left.faults)
         /\ call[c].applied \in Nat /\ call[c].try \in Nat /\ left.faults \in Nat
BY BoundTypes DEF IInv, BInv, Call, Faults

\* A step of the session alone: the call waits, or is ready.
LEMMA WaitsBounded ==
  ASSUME NEW k \in Call, NEW f \in Faults, Bounded(k, f), k.stage # "login",
         ~MayHaveActed(k), NEW phase \in {"queue", "ready", "login"}
  PROVE  Bounded([k EXCEPT !.phase = phase], f)
<1> DEFINE d == [k EXCEPT !.phase = phase]
<1>1. /\ d.stage = k.stage /\ d.phase = phase /\ d.try = k.try /\ d.login = k.login
      /\ d.token = k.token /\ d.cookie = k.cookie /\ d.age = k.age /\ d.body = k.body
      /\ d.applied = k.applied
  BY DEF Call
<1> HIDE DEF d
<1>2. Tries(d)
  BY <1>1 DEF Tries, Bounded
<1>3. Says(d) /\ Carries(d)
  BY <1>1 DEF Says, Carries, Bounded
<1>4. Acts(d, f)
  BY <1>1 DEF Acts, Bounded
<1>5. Bounded(d, f)
  BY <1>2, <1>3, <1>4 DEF Bounded
<1> QED
  BY <1>5 DEF d

LEMMA EnsureAuthBounded ==
  ASSUME IInv, BInv, NEW c \in Callers, EnsureAuth(c) \/ EnterLogin(c)
  PROVE  BInv'
<1>1. call[c].phase \in {"ensure", "queue"} /\ left' = left
  BY DEF EnsureAuth, EnterLogin, environment
<1>2. call[c].stage # "login" /\ ~MayHaveActed(call[c])
  BY <1>1, BoundedCall DEF Bounded, Tries, MayHaveActed
<1>3. \E phase \in {"queue", "ready", "login"} :
        call' = [call EXCEPT ![c] = [call[c] EXCEPT !.phase = phase]]
  BY DEF EnsureAuth, EnterLogin, IInv
<1>4. PICK phase \in {"queue", "ready", "login"} :
        call' = [call EXCEPT ![c] = [call[c] EXCEPT !.phase = phase]]
  BY <1>3
<1>5. Bounded([call[c] EXCEPT !.phase = phase], left.faults)
  BY <1>2, BoundedCall, WaitsBounded
<1> DEFINE d == [call[c] EXCEPT !.phase = phase]
<1> HIDE DEF d
<1>6. call' = [call EXCEPT ![c] = d] /\ Bounded(d, left.faults)
  BY <1>4, <1>5 DEF d
<1>7. left.faults' \in Faults /\ left.faults' <= left.faults /\ Bounded(d, left.faults')
  BY <1>1, <1>6, BoundedCall
<1> QED
  BY <1>6, <1>7, OneBounded

\* A login after a 401 is the first of its request, one of the start counts.
LEMMA EnterReloginBounded ==
  ASSUME IInv, BInv, NEW c \in Callers, EnterRelogin(c)
  PROVE  BInv'
<1> DEFINE k == call[c]
           d == [call[c] EXCEPT !.phase = "login", !.try = @ + 1]
<1>1. k.phase = "requeue" /\ call' = [call EXCEPT ![c] = d] /\ left' = left
  BY DEF EnterRelogin, environment, IInv
<1>2. /\ d.stage = k.stage /\ d.phase = "login" /\ d.try = k.try + 1 /\ d.login = k.login
      /\ d.token = k.token /\ d.cookie = k.cookie /\ d.age = k.age /\ d.body = k.body
      /\ d.applied = k.applied
  BY BoundedCall DEF Call
<1>3. Bounded(k, left.faults) /\ k.try \in Nat
  BY BoundedCall
<1> HIDE DEF d, k
<1>4. Tries(d)
  BY <1>1, <1>2, <1>3, BoundTypes DEF Tries, Bounded
<1>5. Says(d) /\ Carries(d)
  BY <1>2, <1>3 DEF Says, Carries, Bounded
<1>6. Acts(d, left.faults)
  BY <1>1, <1>2, <1>3 DEF Acts, Bounded, MayHaveActed
<1>7. left.faults' \in Faults /\ left.faults' <= left.faults /\ Bounded(d, left.faults')
  BY <1>1, <1>4, <1>5, <1>6, BoundedCall DEF Bounded
<1> QED
  BY <1>1, <1>7, OneBounded

LEMMA LoginAnsweredBounded ==
  ASSUME IInv, BInv, server.epoch \in Epochs, NEW c \in Callers, LoginAnswered(c)
  PROVE  BInv'
<1> DEFINE k == call[c]
           d == [call[c] EXCEPT !.phase = "ready", !.login = server.epoch]
<1>1. k.phase = "login" /\ left' = left
  BY DEF LoginAnswered, environment
<1>2. left.faults' \in Faults /\ left.faults' <= left.faults
  BY <1>1, BoundedCall
<1>3. CASE k.stage = "login"
  <2>1. call' = [call EXCEPT ![c] = Done(k, "ok")]
    BY <1>3 DEF LoginAnswered, IInv
  <2>2. Bounded(Done(k, "ok"), left.faults')
    BY <1>1, <1>3, BoundedCall, BoundedDone DEF Replies
  <2> QED
    BY <1>2, <2>1, <2>2, OneBounded
<1>4. CASE k.stage # "login"
  <2>1. call' = [call EXCEPT ![c] = d]
    BY <1>4 DEF LoginAnswered, IInv
  <2>2. /\ d.stage = k.stage /\ d.phase = "ready" /\ d.try = k.try /\ d.login = server.epoch
        /\ d.token = k.token /\ d.cookie = k.cookie /\ d.age = k.age /\ d.body = k.body
        /\ d.applied = k.applied
    BY BoundedCall DEF Call
  <2>3. Bounded(k, left.faults)
    BY BoundedCall
  <2> HIDE DEF d, k
  <2>4. Tries(d)
    BY <1>4, <2>2, <2>3 DEF Tries, Bounded
  <2>5. Says(d) /\ Carries(d)
    BY <2>2, <2>3 DEF Says, Carries, Bounded
  <2>6. Acts(d, left.faults)
    BY <1>1, <2>2, <2>3 DEF Acts, Bounded, MayHaveActed
  <2>7. Bounded(d, left.faults')
    BY <1>1, <2>4, <2>5, <2>6 DEF Bounded
  <2> QED
    BY <1>2, <2>1, <2>7, OneBounded
<1> QED
  BY <1>3, <1>4

\* One fault less is left.
LEMMA SpentFault ==
  ASSUME IInv, BInv, left \in [upgrades: Nat, revokes: Nat, faults: Nat],
         left.faults > 0, left' = [left EXCEPT !.faults = @ - 1]
  PROVE  left.faults' = left.faults - 1 /\ left.faults' \in Faults /\ left.faults' <= left.faults
<1>1. left.faults \in Nat /\ left.faults <= MaxFaults /\ left.faults' = left.faults - 1
  BY BoundTypes DEF BInv, Faults
<1> QED
  BY <1>1, BoundTypes DEF Faults

LEMMA FailsBounded ==
  ASSUME IInv, BInv, left \in [upgrades: Nat, revokes: Nat, faults: Nat], NEW c \in Callers,
         LoginFails(c) \/ Lost(c)
  PROVE  BInv'
<1>1. /\ left.faults > 0 /\ left' = [left EXCEPT !.faults = @ - 1]
      /\ call' = [call EXCEPT ![c] = Done(call[c], "failed")]
  BY DEF LoginFails, Lost, IInv
<1>2. left.faults' \in Faults /\ left.faults' <= left.faults
  BY <1>1, SpentFault
<1>3. Bounded(call[c], left.faults')
  BY <1>2, BoundedCall, BoundedLater
<1>4. Bounded(Done(call[c], "failed"), left.faults')
  BY <1>2, <1>3, BoundedCall, BoundedDone DEF Replies
<1> QED
  BY <1>1, <1>2, <1>4, OneBounded

LEMMA SendBounded ==
  ASSUME IInv, BInv, session.token \in Tokens, session.cookie \in Epochs, NEW c \in Callers,
         Send(c)
  PROVE  BInv'
<1> DEFINE k == call[c]
           t == IF session.mode = "bearer" THEN session.token ELSE NoToken
           d == [call[c] EXCEPT !.phase = "sent", !.age = 0, !.token = t,
                                !.cookie = session.cookie]
<1>1. k.phase = "ready" /\ call' = [call EXCEPT ![c] = d] /\ left' = left
  BY DEF Send, environment, IInv
<1>2. /\ d.stage = k.stage /\ d.phase = "sent" /\ d.try = k.try /\ d.login = k.login
      /\ d.token = t /\ d.cookie = session.cookie /\ d.age = 0 /\ d.body = k.body
      /\ d.applied = k.applied
  BY BoundedCall DEF Call
<1>3. Bounded(k, left.faults) /\ t \in Tokens
  BY BoundedCall, BoundTypes
<1> HIDE DEF d, k, t
<1>4. Tries(d)
  BY <1>1, <1>2, <1>3 DEF Tries, Bounded
<1>5. Says(d) /\ Carries(d)
  BY <1>2, <1>3, BoundTypes DEF Says, Carries, Bounded
<1>6. Acts(d, left.faults)
  BY <1>1, <1>2, <1>3 DEF Acts, Bounded, MayHaveActed
<1>7. left.faults' \in Faults /\ left.faults' <= left.faults /\ Bounded(d, left.faults')
  BY <1>1, <1>4, <1>5, <1>6, BoundedCall DEF Bounded
<1> QED
  BY <1>1, <1>7, OneBounded

\* The server carries a request out once for every time it is sent.
LEMMA ServeBounded ==
  ASSUME IInv, BInv, NEW c \in Callers, Serve(c)
  PROVE  BInv'
<1> DEFINE k == call[c]
<1>1. PICK reply \in Answers(k) :
        /\ k.phase = "sent" /\ left' = left
        /\ call' = [call EXCEPT ![c].phase = "answered", ![c].reply = reply,
                      ![c].applied = IF Applies(call[c], reply) THEN @ + 1 ELSE @,
                      ![c].shown = IF call[c].stage \in {"list", "hosts"} /\ ~server.hosts
                                   THEN "empty" ELSE server.release]
  BY DEF Serve
<1> DEFINE n == IF Applies(k, reply) THEN k.applied + 1 ELSE k.applied
           w == IF k.stage \in {"list", "hosts"} /\ ~server.hosts
                THEN "empty" ELSE server.release
           d == [call[c] EXCEPT !.phase = "answered", !.reply = reply, !.applied = n, !.shown = w]
<1>2. call' = [call EXCEPT ![c] = d]
  BY <1>1 DEF IInv
<1>3. /\ d.stage = k.stage /\ d.phase = "answered" /\ d.try = k.try /\ d.login = k.login
      /\ d.token = k.token /\ d.cookie = k.cookie /\ d.age = k.age /\ d.body = k.body
      /\ d.applied = n /\ d.reply = reply /\ d.shown = w
  BY BoundedCall DEF Call
<1>4. /\ Bounded(k, left.faults) /\ k.applied \in Nat /\ left.faults \in Nat
      /\ left.faults <= MaxFaults
  BY BoundedCall, BoundTypes DEF Faults
<1>5. Applies(k, reply) => k.stage = "main" /\ reply = "ok"
  BY DEF Applies
<1>6. k.stage \in {"version", "schema"} => w \in Releases
  BY DEF IInv, Server
<1> HIDE DEF d, k, w
<1>7. Tries(d)
  BY <1>1, <1>3, <1>4 DEF Tries, Bounded
<1>8. Says(d) /\ Carries(d)
  BY <1>3, <1>4, <1>6 DEF Says, Carries, Bounded
<1>9. Acts(d, left.faults)
  <2>1. ~MayHaveActed(k)
    BY <1>1 DEF MayHaveActed
  <2>2. CASE Applies(k, reply)
    <3>1. d.stage = "main" /\ MayHaveActed(d) /\ n = k.applied + 1
      BY <1>3, <1>5, <2>2 DEF MayHaveActed
    <3>2. k.applied <= MaxFaults - left.faults
      BY <1>3, <1>4, <2>1, <3>1 DEF Acts, Bounded
    <3> QED
      BY <1>3, <1>4, <3>1, <3>2, BoundTypes DEF Acts
  <2>3. CASE ~Applies(k, reply)
    BY <1>3, <1>4, <2>1, <2>3 DEF Acts, Bounded
  <2> QED
    BY <2>2, <2>3
<1>10. left.faults' \in Faults /\ left.faults' <= left.faults /\ Bounded(d, left.faults')
  BY <1>1, <1>7, <1>8, <1>9, BoundedCall DEF Bounded
<1> QED
  BY <1>2, <1>10, OneBounded

\* A request that is sent again has cost a fault.
LEMMA ReplayBounded ==
  ASSUME IInv, BInv, left \in [upgrades: Nat, revokes: Nat, faults: Nat], NEW c \in Callers,
         Replay(c)
  PROVE  BInv'
<1> DEFINE k == call[c]
           d == [call[c] EXCEPT !.phase = "sent"]
<1>1. /\ k.phase \in {"sent", "answered"} /\ call' = [call EXCEPT ![c] = d]
      /\ left.faults > 0 /\ left' = [left EXCEPT !.faults = @ - 1]
  BY DEF Replay, IInv
<1>2. /\ d.stage = k.stage /\ d.phase = "sent" /\ d.try = k.try /\ d.login = k.login
      /\ d.token = k.token /\ d.cookie = k.cookie /\ d.age = k.age /\ d.body = k.body
      /\ d.applied = k.applied
  BY BoundedCall DEF Call
<1>3. Bounded(k, left.faults) /\ k.applied \in Nat /\ left.faults \in Nat
  BY BoundedCall
<1>4. /\ left.faults' = left.faults - 1 /\ left.faults' \in Faults
      /\ left.faults' <= left.faults
  BY <1>1, SpentFault
<1> HIDE DEF d, k
<1>5. Tries(d)
  BY <1>1, <1>2, <1>3 DEF Tries, Bounded
<1>6. Says(d) /\ Carries(d)
  BY <1>2, <1>3 DEF Says, Carries, Bounded
<1>7. d.applied <= MaxFaults - left.faults'
  <2>1. k.applied <= 1 + (MaxFaults - left.faults)
    BY <1>3 DEF Acts, Bounded
  <2> QED
    BY <1>2, <1>3, <1>4, <2>1, BoundTypes
<1>8. Acts(d, left.faults')
  BY <1>2, <1>3, <1>4, <1>7, BoundTypes DEF Acts
<1>9. Bounded(d, left.faults')
  BY <1>5, <1>6, <1>8 DEF Bounded
<1> QED
  BY <1>1, <1>4, <1>9, OneBounded

LEMMA ReceiveBounded ==
  ASSUME IInv, BInv, NEW c \in Callers, Receive(c)
  PROVE  BInv'
<1>1. /\ call[c].phase = "answered" /\ left' = left
      /\ call' = [call EXCEPT ![c] = Done(call[c], call[c].reply)]
  BY DEF Receive, environment, IInv
<1>2. call[c].reply \in Replies
  BY BoundedCall DEF Call
<1>3. Bounded(Done(call[c], call[c].reply), left.faults)
  BY <1>1, <1>2, BoundedCall, BoundedDone
<1>4. /\ left.faults' \in Faults /\ left.faults' <= left.faults
      /\ Bounded(Done(call[c], call[c].reply), left.faults')
  BY <1>1, <1>3, BoundedCall
<1> QED
  BY <1>1, <1>4, OneBounded

LEMMA StaleBounded ==
  ASSUME IInv, BInv, NEW c \in Callers, Stale(c)
  PROVE  BInv'
<1> DEFINE k == call[c]
           d == [call[c] EXCEPT !.phase = "requeue"]
<1>1. k.phase = "answered" /\ k.reply = "unauthorized" /\ left' = left
  BY DEF Stale, environment
<1>2. left.faults' \in Faults /\ left.faults' <= left.faults /\ Bounded(k, left.faults)
  BY <1>1, BoundedCall
<1>3. CASE k.try = 0
  <2>1. call' = [call EXCEPT ![c] = d]
    BY <1>3 DEF Stale, IInv
  <2>2. /\ d.stage = k.stage /\ d.phase = "requeue" /\ d.try = k.try /\ d.login = k.login
        /\ d.token = k.token /\ d.cookie = k.cookie /\ d.age = k.age /\ d.body = k.body
        /\ d.applied = k.applied
    BY BoundedCall DEF Call
  <2> HIDE DEF d, k
  <2>3. Tries(d)
    BY <1>1, <1>2, <1>3, <2>2, BoundTypes DEF Tries, Bounded
  <2>4. Says(d) /\ Carries(d)
    BY <1>2, <2>2 DEF Says, Carries, Bounded
  <2>5. Acts(d, left.faults)
    BY <1>1, <1>2, <2>2 DEF Acts, Bounded, MayHaveActed
  <2>6. Bounded(d, left.faults')
    BY <1>1, <2>3, <2>4, <2>5 DEF Bounded
  <2> QED
    BY <1>2, <2>1, <2>6, OneBounded
<1>4. CASE k.try # 0
  <2>1. call' = [call EXCEPT ![c] = Done(k, "unauthorized")]
    BY <1>4 DEF Stale, IInv
  <2>2. Bounded(Done(k, "unauthorized"), left.faults')
    BY <1>1, BoundedCall, BoundedDone DEF Replies
  <2> QED
    BY <1>2, <2>1, <2>2, OneBounded
<1> QED
  BY <1>3, <1>4

\* A call ends, or goes on with another request.
LEMMA IdleBounded ==
  ASSUME IInv, BInv, NEW c \in Callers, call' = [call EXCEPT ![c] = Idle], left' = left
  PROVE  BInv'
<1>1. left.faults' \in Faults /\ left.faults' <= left.faults
  BY BoundedCall
<1>2. Bounded(Idle, left.faults')
  BY <1>1, BoundedIdle
<1> QED
  BY <1>1, <1>2, OneBounded

LEMMA DoBounded ==
  ASSUME IInv, BInv, NEW c \in Callers, NEW hosts \in Shown, NEW stage \in Stages \ {"main", "login"},
         \/ call' = [call EXCEPT ![c] = Do(call[c], stage)]
         \/ call' = [call EXCEPT ![c] = Do([call[c] EXCEPT !.hosts = hosts], stage)],
         left' = left
  PROVE  BInv'
<1> DEFINE k == [call[c] EXCEPT !.hosts = hosts]
<1>1. left.faults' \in Faults /\ left.faults' <= left.faults /\ left.faults' = left.faults
  BY BoundedCall
<1>2. Bounded(Do(call[c], stage), left.faults')
  BY <1>1, BoundedCall, BoundedDo
<1>3. k \in Call /\ Bounded(k, left.faults)
  <2>1. /\ k \in Call /\ k.stage = call[c].stage /\ k.phase = call[c].phase /\ k.try = call[c].try
        /\ k.login = call[c].login /\ k.token = call[c].token /\ k.cookie = call[c].cookie
        /\ k.age = call[c].age /\ k.body = call[c].body /\ k.applied = call[c].applied
        /\ k.reply = call[c].reply /\ k.shown = call[c].shown
    BY BoundedCall DEF Call
  <2> HIDE DEF k
  <2>2. Tries(k) /\ Carries(k)
    BY <2>1, BoundedCall DEF Tries, Carries, Bounded
  <2>3. Acts(k, left.faults) /\ Says(k)
    BY <2>1, BoundedCall DEF Acts, Says, MayHaveActed, Bounded
  <2> QED
    BY <2>1, <2>2, <2>3 DEF Bounded
<1> HIDE DEF k
<1>4. Bounded(Do(k, stage), left.faults')
  BY <1>1, <1>3, BoundedCall, BoundedDo
<1>5. CASE call' = [call EXCEPT ![c] = Do(call[c], stage)]
  BY <1>1, <1>2, <1>5, OneBounded
<1>6. CASE call' = [call EXCEPT ![c] = Do(k, stage)]
  BY <1>1, <1>4, <1>6, OneBounded
<1> QED
  BY <1>5, <1>6 DEF k

LEMMA BeginBounded ==
  ASSUME IInv, BInv, NEW c \in Callers, NEW op \in Operations, NEW kind \in Kinds, Begin(c, op, kind)
  PROVE  BInv'
<1> DEFINE b == IF op \in Writes THEN Body(dialect, kind) ELSE {}
           i == [Idle EXCEPT !.op = op, !.kind = kind, !.body = b]
           stage == IF op = "recheck" THEN "version" ELSE "main"
           d == Do(i, stage)
<1>1. call' = [call EXCEPT ![c] = d] /\ left' = left
  BY DEF Begin, environment
<1>2. b \subseteq Fields
  BY BodyType, FieldsAreTaken
<1>3. /\ d.stage = stage /\ d.phase = "ensure" /\ d.try = 0 /\ d.login = 0 /\ d.token = NoToken
      /\ d.cookie = 0 /\ d.age = 0 /\ d.body = b /\ d.applied = 0
  BY DEF Do, Idle
<1>4. stage # "login"
  OBVIOUS
<1>5. left.faults \in Nat /\ left.faults <= MaxFaults
  BY BoundedCall, BoundTypes DEF Faults
<1> HIDE DEF d, b, stage
<1>6. Tries(d) /\ Says(d)
  BY <1>3, <1>4, BoundTypes DEF Tries, Says
<1>7. Carries(d)
  BY <1>2, <1>3, BoundTypes DEF Carries
<1>8. Acts(d, left.faults)
  BY <1>3, <1>5, BoundTypes DEF Acts
<1>9. left.faults' \in Faults /\ left.faults' <= left.faults /\ Bounded(d, left.faults')
  BY <1>1, <1>6, <1>7, <1>8, BoundedCall DEF Bounded
<1> QED
  BY <1>1, <1>9, OneBounded

\* What follows an answer: the call ends, goes on with the next request of a probe, or, at
\* the start, logs in again.
LEMMA Follows ==
  ASSUME IInv, NEW c \in Callers, FollowUp(c)
  PROVE  /\ left' = left /\ loginMu' = loginMu /\ session' = session /\ server' = server
         /\ call[c].phase = "done"
         /\ \/ call' = [call EXCEPT ![c] = Idle]
            \/ \E stage \in Stages \ {"main", "login"}, hosts \in Shown :
                 \/ call' = [call EXCEPT ![c] = Do(call[c], stage)]
                 \/ call' = [call EXCEPT ![c] = Do([call[c] EXCEPT !.hosts = hosts], stage)]
            \/ /\ call[c].stage = "login" /\ call[c].try < MaxAttempts
               /\ call' = [call EXCEPT ![c] = [call[c] EXCEPT !.phase = "requeue"]]
<1> DEFINE More == \E stage \in Stages \ {"main", "login"}, hosts \in Shown :
                     \/ call' = [call EXCEPT ![c] = Do(call[c], stage)]
                     \/ call' = [call EXCEPT ![c] = Do([call[c] EXCEPT !.hosts = hosts], stage)]
           Ends == call' = [call EXCEPT ![c] = Idle]
<1>1. ASSUME NEW stage \in {"version", "list", "health", "schema", "hosts"},
             call' = [call EXCEPT ![c] = Do(call[c], stage)]
      PROVE  More
  BY <1>1 DEF Stages, Shown
<1>2. ASSUME NEW hosts \in Shown, NEW stage \in {"health", "schema"},
             call' = [call EXCEPT ![c] = Do([call[c] EXCEPT !.hosts = hosts], stage)]
      PROVE  More
  BY <1>2 DEF Stages
<1>3. call[c].shown \in Shown /\ "empty" \in Shown
  BY DEF IInv, Call, Shown
<1> HIDE DEF More
<1>4. Reprobe(c) => Ends \/ More
  BY <1>1 DEF Reprobe, IInv
<1>5. CASE OperationReturns(c)
  BY <1>4, <1>5 DEF OperationReturns, environment, More
<1>6. CASE StartLogin(c)
  <2>1. /\ left' = left /\ loginMu' = loginMu /\ session' = session /\ server' = server
        /\ call[c].phase = "done" /\ call[c].stage = "login"
    BY <1>6 DEF StartLogin
  <2>2. \/ call' = [call EXCEPT ![c] = Do(call[c], "version")]
        \/ call[c].try < MaxAttempts /\ call' = [call EXCEPT ![c] = [call[c] EXCEPT !.phase = "requeue"]]
        \/ Ends
    BY <1>6 DEF StartLogin, IInv
  <2> QED
    BY <1>1, <2>1, <2>2 DEF More
<1>7. CASE VersionRead(c)
  <2>1. \E stage \in {"schema", "list"} : call' = [call EXCEPT ![c] = Do(call[c], stage)]
    BY <1>7 DEF VersionRead, IInv
  <2> QED
    BY <1>1, <1>7, <2>1 DEF VersionRead, environment, More
<1>8. CASE VersionRechecked(c)
  <2>1. Reprobe(c) \/ Ends
    BY <1>8 DEF VersionRechecked
  <2> QED
    BY <1>4, <1>8, <2>1 DEF VersionRechecked, environment, More
<1>9. CASE HostsListed(c)
  <2>1. /\ left' = left /\ loginMu' = loginMu /\ session' = session /\ server' = server
        /\ call[c].phase = "done"
    BY <1>9 DEF HostsListed
  <2>2. \/ Ends
        \/ call' = [call EXCEPT ![c] = Do([call[c] EXCEPT !.hosts = call[c].shown], "schema")]
        \/ call' = [call EXCEPT ![c] = Do([call[c] EXCEPT !.hosts = "empty"], "health")]
    BY <1>9 DEF HostsListed, IInv
  <2> QED
    BY <1>2, <1>3, <2>1, <2>2 DEF More
<1>10. CASE HealthRead(c)
  <2>1. call' = [call EXCEPT ![c] = Do(call[c], "schema")]
    BY <1>10 DEF HealthRead, IInv
  <2> QED
    BY <1>1, <1>10, <2>1 DEF HealthRead, environment, More
<1>11. CASE SchemaRead(c)
  <2>1. call' = [call EXCEPT ![c] = Do(call[c], "hosts")] \/ Ends
    BY <1>11 DEF SchemaRead, Learned, IInv
  <2> QED
    BY <1>1, <1>11, <2>1 DEF SchemaRead, More
<1>12. CASE HostsReread(c)
  BY <1>12 DEF HostsReread, Learned
<1> QED
  BY <1>5, <1>6, <1>7, <1>8, <1>9, <1>10, <1>11, <1>12 DEF FollowUp

LEMMA FollowUpBounded == ASSUME IInv, BInv, NEW c \in Callers, FollowUp(c) PROVE BInv'
<1>1. left' = left
  BY Follows
<1>2. CASE call' = [call EXCEPT ![c] = Idle]
  BY <1>1, <1>2, IdleBounded
<1>3. CASE \E stage \in Stages \ {"main", "login"}, hosts \in Shown :
             \/ call' = [call EXCEPT ![c] = Do(call[c], stage)]
             \/ call' = [call EXCEPT ![c] = Do([call[c] EXCEPT !.hosts = hosts], stage)]
  BY <1>1, <1>3, DoBounded
<1>4. CASE /\ call[c].stage = "login" /\ call[c].try < MaxAttempts
           /\ call' = [call EXCEPT ![c] = [call[c] EXCEPT !.phase = "requeue"]]
  <2> DEFINE k == call[c]
             d == [call[c] EXCEPT !.phase = "requeue"]
  <2>1. /\ d.stage = k.stage /\ d.phase = "requeue" /\ d.try = k.try /\ d.login = k.login
        /\ d.token = k.token /\ d.cookie = k.cookie /\ d.age = k.age /\ d.body = k.body
        /\ d.applied = k.applied
    BY BoundedCall DEF Call
  <2>2. Bounded(k, left.faults) /\ k.stage = "login" /\ k.try < MaxAttempts
    BY <1>4, BoundedCall
  <2>3. call' = [call EXCEPT ![c] = d]
    BY <1>4
  <2> HIDE DEF d, k
  <2>4. Tries(d) /\ Says(d)
    BY <2>1, <2>2 DEF Tries, Says, Bounded
  <2>5. Carries(d) /\ Acts(d, left.faults)
    BY <2>1, <2>2 DEF Carries, Acts, Bounded
  <2>6. left.faults' \in Faults /\ left.faults' <= left.faults /\ Bounded(d, left.faults')
    BY <1>1, <2>4, <2>5, BoundedCall DEF Bounded
  <2> QED
    BY <2>3, <2>6, OneBounded
<1> QED
  BY <1>2, <1>3, <1>4, Follows

LEMMA StartBounded == ASSUME IInv, BInv, Start PROVE BInv'
<1> DEFINE d == [Idle EXCEPT !.op = "start", !.stage = "login", !.phase = "requeue"]
<1>1. left' = left /\ call' = [c \in Callers |-> IF c = Main THEN d ELSE Idle]
  BY DEF Start
<1>2. left.faults \in Faults /\ left.faults \in Nat /\ left.faults <= MaxFaults
  BY BoundTypes DEF BInv, Faults
<1>3. /\ d.stage = "login" /\ d.phase = "requeue" /\ d.try = 0 /\ d.login = 0 /\ d.token = NoToken
      /\ d.cookie = 0 /\ d.age = 0 /\ d.body = {} /\ d.applied = 0
  BY DEF Idle
<1> HIDE DEF d
<1>4. Tries(d) /\ Says(d) /\ Carries(d)
  BY <1>3, BoundTypes DEF Tries, Says, Carries
<1>5. Acts(d, left.faults)
  BY <1>2, <1>3, BoundTypes DEF Acts
<1>6. Bounded(d, left.faults) /\ Bounded(Idle, left.faults)
  BY <1>2, <1>4, <1>5, BoundedIdle DEF Bounded
<1> QED
  BY <1>1, <1>2, <1>6 DEF BInv

LEMMA TickBounded == ASSUME IInv, BInv, Tick PROVE BInv'
<1> DEFINE Older(k) == [k EXCEPT !.token.ttl = Less(@),
                                 !.age = IF k.phase \in {"login", "sent"} THEN @ + 1 ELSE 0]
<1>1. left' = left /\ call' = [c \in Callers |-> Older(call[c])]
  BY DEF Tick, environment
<1>2. \A n \in 0..Lifetime : Less(n) \in 0..Lifetime
  BY ClientAssumption DEF Less
<1>3. ASSUME NEW c \in Callers PROVE Bounded(Older(call[c]), left.faults)
  <2> DEFINE k == call[c]
             a == IF k.phase \in {"login", "sent"} THEN k.age + 1 ELSE 0
             t == [k.token EXCEPT !.ttl = Less(k.token.ttl)]
             d == [k EXCEPT !.token = t, !.age = a]
  <2>1. k \in Call /\ Bounded(k, left.faults) /\ k.age < RequestTime
    BY BoundedCall DEF Tick
  <2>2. Older(k) = d
    BY <2>1 DEF Call, Token
  <2>3. t \in Tokens
    BY <1>2, <2>1 DEF Bounded, Carries, Tokens
  <2>4. a <= RequestTime
    BY <2>1, BoundTypes DEF Call
  <2>5. /\ d.stage = k.stage /\ d.phase = k.phase /\ d.try = k.try /\ d.login = k.login
        /\ d.token = t /\ d.cookie = k.cookie /\ d.age = a /\ d.body = k.body
        /\ d.applied = k.applied /\ d.reply = k.reply /\ d.shown = k.shown
    BY <2>1 DEF Call
  <2> HIDE DEF d, k, t, a
  <2>6. Tries(d) /\ Says(d)
    BY <2>1, <2>5 DEF Tries, Says, Bounded
  <2>7. Carries(d)
    BY <2>1, <2>3, <2>4, <2>5 DEF Carries, Bounded
  <2>8. Acts(d, left.faults)
    BY <2>1, <2>5 DEF Acts, MayHaveActed, Bounded
  <2>9. Bounded(d, left.faults)
    BY <2>6, <2>7, <2>8 DEF Bounded
  <2> QED
    BY <2>2, <2>9 DEF k
<1> HIDE DEF Older
<1> QED
  BY <1>1, <1>3 DEF BInv

---------------------------------------------------------------------------
(* The login mutex.                                                        *)

\* A step of a call that does not log in, before or after.
LEMMA MutexStays ==
  ASSUME IInv, MInv, NEW c \in Callers, NEW k, call' = [call EXCEPT ![c] = k],
         loginMu' = loginMu, call[c].phase # "login", k.phase # "login"
  PROVE  MInv'
BY DEF IInv, MInv

\* A step that takes the mutex.
LEMMA MutexTaken ==
  ASSUME IInv, MInv, NEW c \in Callers, NEW k, call' = [call EXCEPT ![c] = k],
         loginMu = Free, loginMu' = c, k.phase = "login"
  PROVE  MInv'
BY ClientAssumption DEF IInv, MInv

\* A step that releases it.
LEMMA MutexReleased ==
  ASSUME IInv, MInv, NEW c \in Callers, NEW k, call' = [call EXCEPT ![c] = k],
         loginMu' = Free, call[c].phase = "login", k.phase # "login"
  PROVE  MInv'
BY ClientAssumption DEF IInv, MInv

\* The phases a call starts and ends with.
LEMMA PhasesOf ==
  /\ Idle.phase = "idle"
  /\ \A k \in Call : \A stage : Do(k, stage).phase = "ensure"
  /\ \A k \in Call : \A reply : Done(k, reply).phase = "done"
  /\ \A k \in Call : \A hosts : \A stage : Do([k EXCEPT !.hosts = hosts], stage).phase = "ensure"
  /\ \A k \in Call : \A phase : [k EXCEPT !.phase = phase].phase = phase
BY DEF Idle, Do, Done, Call

\* Only the phase changes, or the request ends.
LEMMA MutexWaits ==
  ASSUME IInv, MInv, NEW c \in Callers, NEW phase, phase # "login", call[c].phase # "login",
         call' = [call EXCEPT ![c] = [call[c] EXCEPT !.phase = phase]], loginMu' = loginMu
  PROVE  MInv'
<1> DEFINE d == [call[c] EXCEPT !.phase = phase]
<1>1. d.phase = phase
  BY PhasesOf DEF IInv
<1> HIDE DEF d
<1>2. call' = [call EXCEPT ![c] = d]
  BY DEF d
<1> QED
  BY <1>1, <1>2, MutexStays

LEMMA MutexDone ==
  ASSUME IInv, MInv, NEW c \in Callers, NEW reply, call[c].phase # "login",
         call' = [call EXCEPT ![c] = Done(call[c], reply)], loginMu' = loginMu
  PROVE  MInv'
<1>1. Done(call[c], reply).phase = "done"
  BY PhasesOf DEF IInv
<1> QED
  BY <1>1, MutexStays

LEMMA DoStepMutex == ASSUME IInv, MInv, NEW c \in Callers, DoStep(c) PROVE MInv'
<1>1. call[c] \in Call
  BY DEF IInv
<1>2. CASE EnsureAuth(c)
  <2>1. PICK phase \in {"ready", "queue"} :
          call' = [call EXCEPT ![c] = [call[c] EXCEPT !.phase = phase]]
    BY <1>2 DEF EnsureAuth, IInv
  <2>2. call[c].phase # "login" /\ loginMu' = loginMu
    BY <1>2 DEF EnsureAuth
  <2> QED
    BY <2>1, <2>2, MutexWaits
<1>3. CASE EnterLogin(c)
  <2>1. CASE Fresh
    <3>1. call' = [call EXCEPT ![c] = [call[c] EXCEPT !.phase = "ready"]]
      BY <1>3, <2>1 DEF EnterLogin, IInv
    <3>2. call[c].phase # "login" /\ loginMu' = loginMu
      BY <1>3, <2>1 DEF EnterLogin
    <3> QED
      BY <3>1, <3>2, MutexWaits
  <2>2. CASE ~Fresh
    <3>1. call' = [call EXCEPT ![c] = [call[c] EXCEPT !.phase = "login"]]
      BY <1>3, <2>2 DEF EnterLogin, IInv
    <3> QED
      BY <1>1, <1>3, <2>2, <3>1, PhasesOf, MutexTaken DEF EnterLogin
  <2> QED
    BY <2>1, <2>2
<1>4. CASE EnterRelogin(c)
  <2>1. call' = [call EXCEPT ![c] = [call[c] EXCEPT !.phase = "login", !.try = @ + 1]]
    BY <1>4 DEF EnterRelogin, IInv
  <2>2. [call[c] EXCEPT !.phase = "login", !.try = @ + 1].phase = "login"
    BY <1>1 DEF Call
  <2> QED
    BY <1>4, <2>1, <2>2, MutexTaken DEF EnterRelogin
<1>5. CASE LoginAnswered(c)
  <2>1. \/ call' = [call EXCEPT ![c] = Done(call[c], "ok")]
        \/ call' = [call EXCEPT ![c] = [call[c] EXCEPT !.phase = "ready", !.login = server.epoch]]
    BY <1>5 DEF LoginAnswered, IInv
  <2>2. [call[c] EXCEPT !.phase = "ready", !.login = server.epoch].phase = "ready"
    BY <1>1 DEF Call
  <2>3. Done(call[c], "ok").phase = "done"
    BY <1>1, PhasesOf
  <2>4. call[c].phase = "login" /\ loginMu' = Free
    BY <1>5 DEF LoginAnswered
  <2> QED
    BY <2>1, <2>2, <2>3, <2>4, MutexReleased
<1>6. CASE LoginFails(c)
  <2>1. call' = [call EXCEPT ![c] = Done(call[c], "failed")]
    BY <1>6 DEF LoginFails, IInv
  <2>2. Done(call[c], "failed").phase = "done"
    BY <1>1, PhasesOf
  <2>3. call[c].phase = "login" /\ loginMu' = Free
    BY <1>6 DEF LoginFails
  <2> QED
    BY <2>1, <2>2, <2>3, MutexReleased
<1>7. CASE Send(c)
  <2> DEFINE t == IF session.mode = "bearer" THEN session.token ELSE NoToken
             d == [call[c] EXCEPT !.phase = "sent", !.age = 0, !.token = t,
                                  !.cookie = session.cookie]
  <2>1. call' = [call EXCEPT ![c] = d] /\ d.phase = "sent"
    BY <1>1, <1>7 DEF Send, IInv, Call
  <2> HIDE DEF d
  <2> QED
    BY <1>7, <2>1, MutexStays DEF Send
<1>8. CASE Serve(c)
  <2>1. PICK reply \in Answers(call[c]) :
          call' = [call EXCEPT ![c].phase = "answered", ![c].reply = reply,
                     ![c].applied = IF Applies(call[c], reply) THEN @ + 1 ELSE @,
                     ![c].shown = IF call[c].stage \in {"list", "hosts"} /\ ~server.hosts
                                  THEN "empty" ELSE server.release]
    BY <1>8 DEF Serve
  <2> DEFINE n == IF Applies(call[c], reply) THEN call[c].applied + 1 ELSE call[c].applied
             w == IF call[c].stage \in {"list", "hosts"} /\ ~server.hosts
                  THEN "empty" ELSE server.release
             d == [call[c] EXCEPT !.phase = "answered", !.reply = reply, !.applied = n, !.shown = w]
  <2>2. call' = [call EXCEPT ![c] = d]
    BY <2>1 DEF IInv
  <2>3. d.phase = "answered"
    BY <1>1 DEF Call
  <2> HIDE DEF d
  <2>4. call[c].phase = "sent" /\ loginMu' = loginMu
    BY <1>8 DEF Serve
  <2> QED
    BY <2>2, <2>3, <2>4, MutexStays
<1>9. CASE Lost(c)
  <2>1. call' = [call EXCEPT ![c] = Done(call[c], "failed")]
    BY <1>9 DEF Lost, IInv
  <2>2. call[c].phase # "login" /\ loginMu' = loginMu
    BY <1>9 DEF Lost
  <2> QED
    BY <2>1, <2>2, MutexDone
<1>10. CASE Replay(c)
  <2>1. call' = [call EXCEPT ![c] = [call[c] EXCEPT !.phase = "sent"]]
    BY <1>10 DEF Replay, IInv
  <2>2. call[c].phase # "login" /\ loginMu' = loginMu
    BY <1>10 DEF Replay
  <2> QED
    BY <2>1, <2>2, MutexWaits
<1>11. CASE Receive(c)
  <2>1. call' = [call EXCEPT ![c] = Done(call[c], call[c].reply)]
    BY <1>11 DEF Receive, IInv
  <2>2. call[c].phase # "login" /\ loginMu' = loginMu
    BY <1>11 DEF Receive
  <2> QED
    BY <2>1, <2>2, MutexDone
<1>12. CASE Stale(c)
  <2>1. \/ call' = [call EXCEPT ![c] = [call[c] EXCEPT !.phase = "requeue"]]
        \/ call' = [call EXCEPT ![c] = Done(call[c], "unauthorized")]
    BY <1>12 DEF Stale, IInv
  <2>2. call[c].phase # "login" /\ loginMu' = loginMu
    BY <1>12 DEF Stale
  <2> QED
    BY <2>1, <2>2, MutexWaits, MutexDone
<1> QED
  BY <1>2, <1>3, <1>4, <1>5, <1>6, <1>7, <1>8, <1>9, <1>10, <1>11, <1>12 DEF DoStep

LEMMA MutexNext == ASSUME IInv, MInv, [Next]_vars PROVE MInv'
<1>1. ASSUME NEW c \in Callers, FollowUp(c) PROVE MInv'
  <2>1. call[c] \in Call /\ call[c].phase = "done" /\ loginMu' = loginMu
    BY <1>1, Follows DEF IInv
  <2>2. CASE call' = [call EXCEPT ![c] = Idle]
    BY <2>1, <2>2, PhasesOf, MutexStays
  <2>3. CASE \E stage \in Stages \ {"main", "login"}, hosts \in Shown :
               \/ call' = [call EXCEPT ![c] = Do(call[c], stage)]
               \/ call' = [call EXCEPT ![c] = Do([call[c] EXCEPT !.hosts = hosts], stage)]
    <3>1. PICK stage \in Stages \ {"main", "login"}, hosts \in Shown :
               \/ call' = [call EXCEPT ![c] = Do(call[c], stage)]
               \/ call' = [call EXCEPT ![c] = Do([call[c] EXCEPT !.hosts = hosts], stage)]
      BY <2>3
    <3>2. /\ Do(call[c], stage).phase = "ensure"
          /\ Do([call[c] EXCEPT !.hosts = hosts], stage).phase = "ensure"
      BY <2>1, PhasesOf
    <3>3. CASE call' = [call EXCEPT ![c] = Do(call[c], stage)]
      BY <2>1, <3>2, <3>3, MutexStays
    <3>4. CASE call' = [call EXCEPT ![c] = Do([call[c] EXCEPT !.hosts = hosts], stage)]
      BY <2>1, <3>2, <3>4, MutexStays
    <3> QED
      BY <3>1, <3>3, <3>4
  <2>4. CASE call' = [call EXCEPT ![c] = [call[c] EXCEPT !.phase = "requeue"]]
    BY <2>1, <2>4, MutexWaits
  <2> QED
    BY <1>1, <2>2, <2>3, <2>4, Follows
<1>2. ASSUME NEW c \in Callers, NEW op, NEW kind, Begin(c, op, kind) PROVE MInv'
  <2> DEFINE b == IF op \in Writes THEN Body(dialect, kind) ELSE {}
             i == [Idle EXCEPT !.op = op, !.kind = kind, !.body = b]
             stage == IF op = "recheck" THEN "version" ELSE "main"
             d == Do(i, stage)
  <2>1. call' = [call EXCEPT ![c] = d] /\ loginMu' = loginMu /\ call[c].phase = "idle"
    BY <1>2 DEF Begin
  <2>2. d.phase = "ensure"
    BY DEF Do, Idle
  <2> HIDE DEF d
  <2> QED
    BY <2>1, <2>2, MutexStays
<1>3. CASE Start
  <2> DEFINE d == [Idle EXCEPT !.op = "start", !.stage = "login", !.phase = "requeue"]
  <2>1. /\ loginMu' = Free /\ call' = [c \in Callers |-> IF c = Main THEN d ELSE Idle]
        /\ d.phase = "requeue" /\ Idle.phase = "idle"
    BY <1>3 DEF Start, Idle
  <2> HIDE DEF d
  <2> QED
    BY <2>1, ClientAssumption DEF MInv
<1>4. CASE Upgrade \/ Revoke \/ UNCHANGED vars
  <2>1. loginMu' = loginMu /\ call' = call
    BY <1>4 DEF Upgrade, Revoke, vars
  <2> QED
    BY <2>1 DEF MInv
<1>5. CASE Tick
  <2> DEFINE Older(k) == [k EXCEPT !.token.ttl = Less(@),
                                   !.age = IF k.phase \in {"login", "sent"} THEN @ + 1 ELSE 0]
  <2>1. loginMu' = loginMu /\ call' = [c \in Callers |-> Older(call[c])]
    BY <1>5 DEF Tick
  <2>2. \A c \in Callers : Older(call[c]).phase = call[c].phase
    BY DEF IInv, Call
  <2> HIDE DEF Older
  <2> QED
    BY <2>1, <2>2 DEF MInv
<1> QED
  BY <1>1, <1>2, <1>3, <1>4, <1>5, DoStepMutex DEF Next

---------------------------------------------------------------------------
(* What the callers share.                                                 *)

LEMMA EpochsOf == ASSUME SInv PROVE server.epoch \in Epochs /\ server.epoch >= 1
BY ClientAssumption DEF SInv, Epochs

LEMMA BoundedNext == ASSUME IInv, BInv, SInv, [Next]_vars PROVE BInv'
<1>1. /\ server.epoch \in Epochs /\ session.token \in Tokens /\ session.cookie \in Epochs
      /\ left \in [upgrades: Nat, revokes: Nat, faults: Nat]
  BY EpochsOf DEF SInv
<1>2. ASSUME NEW c \in Callers, DoStep(c) PROVE BInv'
  BY <1>1, <1>2, EnsureAuthBounded, EnterReloginBounded, LoginAnsweredBounded, FailsBounded,
     SendBounded, ServeBounded, ReplayBounded, ReceiveBounded, StaleBounded DEF DoStep
<1>3. ASSUME NEW c \in Callers, NEW op \in Writes, NEW kind \in Written, Begin(c, op, kind)
      PROVE  BInv'
  <2>1. op \in Operations /\ kind \in Kinds
    BY ClientAssumption DEF Writes, Operations
  <2> QED
    BY <1>3, <2>1, BeginBounded
<1>4. ASSUME NEW c \in Callers, NEW op \in Operations \ Writes, Begin(c, op, "proxy")
      PROVE  BInv'
  BY <1>4, BeginBounded DEF Kinds
<1>5. CASE Upgrade \/ Revoke \/ UNCHANGED vars
  <2>1. call' = call /\ left.faults' = left.faults
    BY <1>1, <1>5 DEF Upgrade, Revoke, vars
  <2> QED
    BY <2>1 DEF BInv
<1> QED
  BY <1>2, <1>3, <1>4, <1>5, FollowUpBounded, StartBounded, TickBounded DEF Next

\* What GET /api/ and the schema say makes a dialect.
LEMMA DialectTypes ==
  ASSUME IInv, BInv, SInv, NEW c \in Callers, FollowUp(c)
  PROVE  dialect' \in Dialect
<1> DEFINE k == call[c]
<1>1. k.reply = "ok" /\ k.phase = "done" /\ k.stage \in {"version", "schema"} => k.shown \in Releases
  BY BoundedCall DEF Bounded, Says
<1>2. dialect \in Dialect
  BY DEF SInv
<1>3. \A release \in Releases : Reports(release) \in Releases \cup {""}
  BY DEF Reports
<1>4. \A flavour \in {"auto", "npm", "npmplus"} : [dialect EXCEPT !.flavour = flavour] \in Dialect
  BY <1>2 DEF Dialect
<1>5. \A version \in Releases \cup {""} : [dialect EXCEPT !.version = version] \in Dialect
  BY <1>2 DEF Dialect
<1>6. ASSUME NEW schema \in Releases \cup {None}, NEW shape, Learned(c, schema, shape)
      PROVE  dialect' \in Dialect
  <2> DEFINE r == schema = None /\ IF shape \in Releases THEN ShapeRetired(shape) ELSE dialect.retired
  <2>1. r \in BOOLEAN
    BY <1>2 DEF Dialect, ShapeRetired
  <2>2. dialect' = [dialect EXCEPT !.schema = schema, !.retired = r]
    BY <1>6 DEF Learned
  <2> HIDE DEF r
  <2> QED
    BY <1>2, <2>1, <2>2 DEF Dialect
<1>7. CASE OperationReturns(c) \/ StartLogin(c)
  BY <1>2, <1>7 DEF OperationReturns, StartLogin, probing
<1>8. CASE VersionRead(c)
  BY <1>1, <1>2, <1>3, <1>5, <1>8 DEF VersionRead
<1>9. CASE VersionRechecked(c)
  BY <1>1, <1>2, <1>3, <1>5, <1>9 DEF VersionRechecked, probing
<1>10. CASE HostsListed(c)
  BY <1>2, <1>4, <1>10 DEF HostsListed, ShapeFlavour, FlavourOf
<1>11. CASE HealthRead(c)
  <2>1. \A version : VersionFlavour(version) \in {"npm", "npmplus"}
    BY DEF VersionFlavour
  <2> QED
    BY <1>4, <1>11, <2>1 DEF HealthRead
<1>12. CASE SchemaRead(c)
  BY <1>1, <1>2, <1>6, <1>12 DEF SchemaRead
<1>13. CASE HostsReread(c)
  BY <1>6, <1>13 DEF HostsReread
<1> QED
  BY <1>7, <1>8, <1>9, <1>10, <1>11, <1>12, <1>13 DEF FollowUp

LEMMA SessionTypes ==
  ASSUME IInv, SInv, NEW c \in Callers, DoStep(c)
  PROVE  session'.token \in Tokens /\ session'.cookie \in Epochs
<1>1. session \in Session /\ session.token \in Tokens /\ session.cookie \in Epochs
  BY DEF IInv, SInv
<1>2. CASE LoginAnswered(c)
  <2>1. [id |-> server.epoch, ttl |-> Lifetime] \in Tokens
    BY EpochsOf, ClientAssumption DEF Tokens, Epochs
  <2>2. session' = NewSession /\ server.epoch \in Epochs
    BY <1>2, EpochsOf DEF LoginAnswered
  <2> QED
    BY <1>1, <2>1, <2>2, BoundTypes DEF NewSession, Session
<1>3. CASE Stale(c)
  <2>1. session' = session \/ session' = [session EXCEPT !.mode = "unknown", !.token = NoToken]
    BY <1>3 DEF Stale
  <2> QED
    BY <1>1, <2>1, BoundTypes DEF Session
<1>4. CASE ~LoginAnswered(c) /\ ~Stale(c)
  <2>1. session' = session
    BY <1>4 DEF DoStep, EnsureAuth, EnterLogin, EnterRelogin, LoginFails, Send, Serve, Lost,
                Replay, Receive
  <2> QED
    BY <1>1, <2>1
<1> QED
  BY <1>2, <1>3, <1>4

LEMMA DoStepShared == ASSUME IInv, SInv, BInv, NEW c \in Callers, DoStep(c) PROVE SInv'
<1>1. dialect' = dialect /\ cooldown' = cooldown /\ proc' = proc
  BY DEF DoStep, EnsureAuth, EnterLogin, EnterRelogin, LoginAnswered, LoginFails, Send, Serve,
         Lost, Replay, Receive, Stale, probing, environment
<1>2. left' = left \/ (left.faults > 0 /\ left' = [left EXCEPT !.faults = @ - 1])
  BY DEF DoStep, EnsureAuth, EnterLogin, EnterRelogin, LoginAnswered, LoginFails, Send, Serve,
         Lost, Replay, Receive, Stale, environment
<1>3. server'.epoch = server.epoch
  <2>1. CASE Serve(c)
    BY <2>1 DEF Serve, IInv, Server
  <2>2. CASE ~Serve(c)
    <3>1. server' = server
      BY <2>2 DEF DoStep, EnsureAuth, EnterLogin, EnterRelogin, LoginAnswered, LoginFails, Send,
                  Lost, Replay, Receive, Stale, environment
    <3> QED
      BY <3>1
  <2> QED
    BY <2>1, <2>2
<1>4. /\ left' \in [upgrades: Nat, revokes: Nat, faults: Nat]
      /\ left'.upgrades = left.upgrades /\ left'.revokes = left.revokes
  <2>1. left \in [upgrades: Nat, revokes: Nat, faults: Nat]
    BY DEF SInv
  <2>2. CASE left' = left
    BY <2>1, <2>2
  <2>3. CASE left.faults > 0 /\ left' = [left EXCEPT !.faults = @ - 1]
    BY <2>1, <2>3
  <2> QED
    BY <1>2, <2>2, <2>3
<1>5. session'.token \in Tokens /\ session'.cookie \in Epochs
  BY SessionTypes
<1> QED
  BY <1>1, <1>3, <1>4, <1>5 DEF SInv

LEMMA FollowUpShared == ASSUME IInv, SInv, BInv, NEW c \in Callers, FollowUp(c) PROVE SInv'
<1>1. left' = left /\ session' = session /\ server' = server
  BY Follows
<1>2. dialect' \in Dialect
  BY DialectTypes
<1>3. cooldown' = cooldown \/ cooldown' = Cooldown
  BY DEF FollowUp, OperationReturns, Reprobe, StartLogin, VersionRead, VersionRechecked,
         HostsListed, HealthRead, SchemaRead, HostsReread, probing
<1>4. proc' = proc \/ \E state \in {"ended", "running"} : proc' = [proc EXCEPT !.state = state]
  <2>1. CASE HostsListed(c)
    <3>1. proc' = proc \/ proc' = [proc EXCEPT !.state = IF call[c].op = "start" THEN "ended" ELSE @]
      BY <2>1 DEF HostsListed
    <3>2. proc' = proc \/ proc' = [proc EXCEPT !.state = "ended"]
      BY <3>1 DEF SInv
    <3> QED
      BY <3>2
  <2>2. CASE ~HostsListed(c)
    BY <2>2 DEF FollowUp, OperationReturns, StartLogin, VersionRead, VersionRechecked, HealthRead,
                SchemaRead, HostsReread, Learned, environment
  <2> QED
    BY <2>1, <2>2
<1>5. cooldown' \in 0..Cooldown
  BY <1>3, ClientAssumption DEF SInv
<1>6. proc' \in [state: {"ended", "starting", "running"}, pin: Pins]
  BY <1>4 DEF SInv
<1> QED
  BY <1>1, <1>2, <1>5, <1>6 DEF SInv

LEMMA SharedNext == ASSUME IInv, BInv, SInv, [Next]_vars PROVE SInv'
<1>1. ASSUME NEW c \in Callers, NEW op, NEW kind, Begin(c, op, kind) PROVE SInv'
  <2>1. UNCHANGED <<server, session, dialect, cooldown, proc, left>>
    BY <1>1 DEF Begin, probing, environment
  <2> QED
    BY <2>1 DEF SInv
<1>2. CASE UNCHANGED vars
  BY <1>2 DEF vars, SInv
<1>3. CASE Start
  <2>1. server' = server /\ left' = left /\ session' = NoSession /\ cooldown' = 0
        /\ dialect' = [Unread EXCEPT !.flavour = proc.pin]
        /\ proc' = [proc EXCEPT !.state = "starting"]
    BY <1>3 DEF Start
  <2>2. proc.pin \in {"auto", "npm", "npmplus"} /\ 0 \in 0..Cooldown
    <3>1. proc.pin \in Pins
      BY DEF SInv
    <3>2. Pins \subseteq {"auto", "npm", "npmplus"}
      BY ClientAssumption
    <3>3. proc.pin \in {"auto", "npm", "npmplus"}
      BY <3>1, <3>2, Zenon
    <3>4. 0 \in 0..Cooldown
      BY ClientAssumption
    <3> QED
      BY <3>3, <3>4
  <2>3. dialect' \in Dialect
    BY <2>1, <2>2 DEF Unread, Dialect
  <2>4. proc' \in [state: {"ended", "starting", "running"}, pin: Pins]
    BY <2>1 DEF SInv
  <2>5. session'.token \in Tokens /\ session'.cookie \in Epochs
    BY <2>1, BoundTypes DEF NoSession
  <2> QED
    BY <2>1, <2>2, <2>3, <2>4, <2>5 DEF SInv
<1>4. CASE Upgrade \/ Revoke
  <2>1. /\ UNCHANGED <<session, dialect, cooldown, proc>>
        /\ server'.epoch = server.epoch + 1
    BY <1>4 DEF Upgrade, Revoke, probing, IInv, Server
  <2>2. left \in [upgrades: Nat, revokes: Nat, faults: Nat]
    BY DEF SInv
  <2>3. \/ left.upgrades > 0 /\ left' = [left EXCEPT !.upgrades = @ - 1]
        \/ left.revokes > 0 /\ left' = [left EXCEPT !.revokes = @ - 1]
    BY <1>4 DEF Upgrade, Revoke
  <2>4. CASE left.upgrades > 0 /\ left' = [left EXCEPT !.upgrades = @ - 1]
    <3>1. left'.upgrades = left.upgrades - 1 /\ left'.revokes = left.revokes
          /\ left' \in [upgrades: Nat, revokes: Nat, faults: Nat]
      BY <2>2, <2>4
    <3> QED
      BY <2>1, <2>2, <2>4, <3>1, ClientAssumption DEF SInv
  <2>5. CASE left.revokes > 0 /\ left' = [left EXCEPT !.revokes = @ - 1]
    <3>1. left'.revokes = left.revokes - 1 /\ left'.upgrades = left.upgrades
          /\ left' \in [upgrades: Nat, revokes: Nat, faults: Nat]
      BY <2>2, <2>5
    <3> QED
      BY <2>1, <2>2, <2>5, <3>1, ClientAssumption DEF SInv
  <2> QED
    BY <2>3, <2>4, <2>5
<1>5. CASE Tick
  <2>1. /\ UNCHANGED <<server, dialect, proc, left>> /\ cooldown' = Less(cooldown)
        /\ session' = [session EXCEPT !.token.ttl = Less(@)]
    BY <1>5 DEF Tick, environment
  <2>2. \A m \in Nat : \A n \in 0..m : Less(n) \in 0..m
    BY DEF Less
  <2>3. cooldown' \in 0..Cooldown
    BY <2>1, <2>2, ClientAssumption DEF SInv
  <2>4. session' = [session EXCEPT !.token = [session.token EXCEPT !.ttl = Less(session.token.ttl)]]
    BY <2>1 DEF IInv, Session, Token
  <2>5. [session.token EXCEPT !.ttl = Less(session.token.ttl)] \in Tokens
    BY <2>2, ClientAssumption DEF SInv, Tokens
  <2>6. session'.token \in Tokens /\ session'.cookie \in Epochs
    BY <2>4, <2>5 DEF IInv, SInv, Session
  <2> QED
    BY <2>1, <2>3, <2>6 DEF SInv
<1> QED
  BY <1>1, <1>2, <1>3, <1>4, <1>5, DoStepShared, FollowUpShared DEF Next

LEMMA BoundsInit == ASSUME Init PROVE BInv /\ MInv /\ SInv
<1>1. /\ call = [c \in Callers |-> Idle] /\ loginMu = Free /\ Idle.phase = "idle"
      /\ left = [upgrades |-> MaxUpgrades, revokes |-> MaxRevokes, faults |-> MaxFaults]
  BY DEF Init, Idle
<1>2. left.faults \in Faults
  BY <1>1, BoundTypes DEF Faults
<1>3. BInv /\ MInv
  BY <1>1, <1>2, BoundedIdle, ClientAssumption DEF BInv, MInv
<1>4. proc.pin \in {"auto", "npm", "npmplus"}
  BY ClientAssumption DEF Init
<1>5. dialect \in Dialect
  BY <1>4 DEF Init, Unread, Dialect
<1>6. session.token \in Tokens /\ session.cookie \in Epochs
  BY BoundTypes DEF Init, NoSession
<1>7. /\ cooldown \in 0..Cooldown /\ server.epoch = 1
      /\ proc \in [state: {"ended", "starting", "running"}, pin: Pins]
  BY ClientAssumption DEF Init
<1>8. SInv
  BY <1>1, <1>5, <1>6, <1>7, ClientAssumption DEF SInv
<1> QED
  BY <1>3, <1>8

\* The exact type invariant: a request logs in again at most once, however often the server
\* refuses its session; the start logs in MaxAttempts times at most; what the server carries
\* out more than once cost a connection that broke; and whoever logs in holds the login mutex
\* (Client.do, login).
THEOREM TypesHold == Spec => []TypeOK
<1>1. Init => IInv /\ BInv /\ MInv /\ SInv
  BY InitIInv, BoundsInit
<1>2. IInv /\ BInv /\ MInv /\ SInv /\ [Next]_vars => (IInv /\ BInv /\ MInv /\ SInv)'
  BY NextKeeps, BoundedNext, MutexNext, SharedNext
<1>3. IInv /\ BInv /\ MInv /\ SInv => TypeOK
  <2> SUFFICES ASSUME IInv, BInv, MInv, SInv PROVE TypeOK
    OBVIOUS
  <2>1. server \in [release: Releases, hosts: BOOLEAN, epoch: 1..(1 + MaxUpgrades + MaxRevokes)]
    BY EpochsOf DEF IInv, Server, Epochs
  <2>2. session \in [mode: {"unknown", "bearer", "cookie"}, token: Tokens,
                     cookie: 0..(1 + MaxUpgrades + MaxRevokes)]
    BY DEF IInv, SInv, Session, Modes, Epochs
  <2>3. left \in [upgrades: 0..MaxUpgrades, revokes: 0..MaxRevokes, faults: 0..MaxFaults]
    BY DEF SInv, BInv, Faults
  <2>4. ASSUME NEW c \in Callers PROVE call[c] \in Calls
    <3> DEFINE k == call[c]
    <3>1. k \in Call /\ Bounded(k, left.faults) /\ k.applied \in Nat /\ left.faults \in Nat
      BY BoundedCall
    <3>2. k.try \in 0..MaxAttempts
      BY <3>1, BoundTypes DEF Call, Bounded, Tries
    <3>3. k.applied \in 0..(1 + MaxFaults)
      BY <3>1, BoundTypes DEF Bounded, Acts
    <3>4. k.age \in 0..RequestTime
      BY <3>1, BoundTypes DEF Call, Bounded, Carries
    <3> QED
      BY <3>1, <3>2, <3>3, <3>4
         DEF Call, Calls, Bounded, Carries, Fields, Ops, Shown, Stages, Phases, Epochs
  <2>5. \A c \in Callers : call[c].stage # "login" => call[c].try <= 1
    BY BoundedCall DEF Bounded, Tries
  <2> QED
    BY <2>1, <2>2, <2>3, <2>4, <2>5 DEF TypeOK, SInv, MInv
<1> QED
  BY <1>1, <1>2, <1>3, PTL DEF Spec
============================================================================
