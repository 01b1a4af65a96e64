------------------------ MODULE LabelledContainerProofs ------------------------
(***************************************************************************)
(* What a slip in the labels may never do, for every vocabulary, every set *)
(* of labels, slips, networks and settings.                                *)
(*                                                                         *)
(* A container that stops keeps its targets because the builders forgive   *)
(* it what they do not forgive a running one; this needs no invariant.     *)
(* The other theorems compare the labels with what was meant: LInv says    *)
(* that a label that differs shows a slip - a value that means nothing, or *)
(* a name that means nothing.  A scan reports the second; the first makes  *)
(* of a field set one that is Blurred, and what is built of it is an error *)
(* or what was meant.                                                      *)
(***************************************************************************)
EXTENDS LabelledContainer, WellFoundedInduction, TLAPS

-------------------------------------------------------------------------------
(* A target is an error, or a target of its definition (build.go). *)

\* What a target has: its own settings, and of every kind's the others.
LEMMA ExtendedSettings ==
  ASSUME NEW base, NEW own
  PROVE  /\ DOMAIN Extended(base, own) = DOMAIN base \cup DOMAIN own
         /\ \A x \in DOMAIN own : Extended(base, own)[x] = own[x]
         /\ \A x \in DOMAIN base \ DOMAIN own : Extended(base, own)[x] = base[x]
  BY DEF Extended

\* Whatever a label is called, it belongs to one of the four kinds: a first token that
\* names none is a field of a proxy host (splitLabel).
LEMMA KindIsKnown ==
  ASSUME NEW tokens \in Seq(STRING)
  PROVE  splitLabel(tokens).kind \in KindNames
<1>1. \A alias \in DOMAIN kindAliases : kindAliases[alias] \in KindNames
  BY DEF kindAliases, KindNames
<1>2. "proxy" \in KindNames
  BY DEF KindNames
<1> DEFINE kindFirst == tokens # <<>> /\ Head(tokens) \in DOMAIN kindAliases
           indexFirst == tokens # <<>> /\ ~kindFirst /\ Head(tokens) \in DOMAIN Number
           both == /\ Len(tokens) > 1
                   /\ \/ kindFirst /\ tokens[2] \in DOMAIN Number
                      \/ indexFirst /\ tokens[2] \in DOMAIN kindAliases
<1>3. splitLabel(tokens).kind = IF kindFirst THEN kindAliases[Head(tokens)]
                ELSE IF both THEN kindAliases[tokens[2]] ELSE "proxy"
  BY DEF splitLabel
<1> QED
  BY <1>1, <1>2, <1>3

\* The settings read for every kind say whose definition it is.
LEMMA BaseSettings ==
  ASSUME NEW f
  PROVE  /\ {"kind", "index", "certificate"} \subseteq DOMAIN Base(f)
         /\ Base(f)["kind"] = f.kind /\ Base(f)["index"] = f.index
         /\ Base(f)["certificate"] = string(f, "certificate")
  BY DEF Base

\* A target that is no error, of the kind and the index of f.
TargetOf(f, t, key, certificate) ==
  /\ t # Error
  /\ t["kind"] = f.kind /\ t["index"] = f.index
  /\ t["key"] = key /\ t["certificate"] = certificate

\* What has an index is no error.
LEMMA TargetIsNoError ==
  ASSUME NEW t, "index" \in DOMAIN t
  PROVE  t # Error
  BY DEF Error

\* The settings of its own, of which one is the key, make a target of the settings
\* of every kind.
LEMMA ExtendedBase ==
  ASSUME NEW f, NEW own, "key" \in DOMAIN own, {"kind", "index"} \cap DOMAIN own = {}
  PROVE  TargetOf(f, Extended(Base(f), own), own["key"],
                  IF "certificate" \in DOMAIN own THEN own["certificate"]
                  ELSE string(f, "certificate"))
<1> DEFINE t == Extended(Base(f), own)
<1>1. /\ DOMAIN t = DOMAIN Base(f) \cup DOMAIN own
      /\ \A x \in DOMAIN own : t[x] = own[x]
      /\ \A x \in DOMAIN Base(f) \ DOMAIN own : t[x] = Base(f)[x]
  BY ExtendedSettings
<1> HIDE DEF t
<1>2. t # Error
  BY <1>1, BaseSettings, TargetIsNoError
<1>3. /\ t["kind"] = f.kind /\ t["index"] = f.index /\ t["key"] = own["key"]
      /\ t["certificate"] = IF "certificate" \in DOMAIN own THEN own["certificate"]
                            ELSE string(f, "certificate")
  BY <1>1, BaseSettings
<1>4. QED
  BY <1>2, <1>3 DEF TargetOf, t

\* When buildProxy gives up.
ProxyFails(c, o, f) ==
  \/ DomainsFail(f) \/ resolveForwardHost(c, o, f) = GivesUp
  \/ resolvePort(c, f, Unset) = GivesUp
  \/ ~Reads(f, "forward_scheme") \/ ~Reads(f, "crowdsec_appsec")
  \/ AccessListFails(string(f, "access_list"), string(f, "access_list_type"), "public")
  \/ \E b \in Blocks(f) : LocationFails(f, b)

\* A proxy host is an error, or the target of its definition, whatever its locations add.
LEMMA ProxyIsTarget ==
  ASSUME NEW c, NEW o, NEW f
  PROVE  IF ProxyFails(c, o, f) THEN buildProxy(c, o, f) = Error
         ELSE TargetOf(f, buildProxy(c, o, f), string(f, "domains"),
                       string(f, "certificate"))
<1> DEFINE own ==
             [key |-> string(f, "domains"), host |-> resolveForwardHost(c, o, f),
              port |-> resolvePort(c, f, Unset),
              scheme |-> string(f, "forward_scheme"),
              crowdsec |-> string(f, "crowdsec_appsec"),
              access |-> AccessListOf(string(f, "access_list"),
                                      string(f, "access_list_type"), "public")]
           t == Extended(Base(f), own)
           extra == [locations |-> {buildLocation(f, b, t) : b \in Blocks(f)}]
           all == Extended(t, extra)
<1>1. buildProxy(c, o, f) = IF ProxyFails(c, o, f) THEN Error ELSE all
  BY DEF buildProxy, ProxyFails
<1>2. TargetOf(f, t, string(f, "domains"), string(f, "certificate"))
      /\ {"kind", "index", "certificate", "key"} \subseteq DOMAIN t
  <2>1. /\ DOMAIN own = {"key", "host", "port", "scheme", "crowdsec", "access"}
        /\ own["key"] = string(f, "domains")
    OBVIOUS
  <2>2. DOMAIN t = DOMAIN Base(f) \cup DOMAIN own
    BY ExtendedSettings
  <2> HIDE DEF own
  <2>3. TargetOf(f, Extended(Base(f), own), own["key"],
                  IF "certificate" \in DOMAIN own THEN own["certificate"]
                  ELSE string(f, "certificate"))
    BY <2>1, ExtendedBase
  <2> HIDE DEF t
  <2>4. QED
    BY <2>1, <2>2, <2>3, BaseSettings DEF t
<1>3. DOMAIN extra = {"locations"}
  OBVIOUS
<1>4. /\ DOMAIN all = DOMAIN t \cup DOMAIN extra
      /\ \A x \in DOMAIN t \ DOMAIN extra : all[x] = t[x]
  BY ExtendedSettings
<1> HIDE DEF t, extra, all
<1>5. TargetOf(f, all, string(f, "domains"), string(f, "certificate"))
  <2>1. \A x \in {"kind", "index", "key", "certificate"} : all[x] = t[x]
    BY <1>2, <1>3, <1>4
  <2>2. all # Error
    BY <1>2, <1>4, TargetIsNoError
  <2>3. QED
    BY <1>2, <2>1, <2>2 DEF TargetOf
<1>6. QED
  BY <1>1, <1>5

\* When buildStream gives up.
StreamFails(c, o, f) ==
  \/ string(f, "incoming_port") \in {Unset, Automatic} \/ ~Reads(f, "incoming_port")
  \/ resolveForwardHost(c, o, f) = GivesUp
  \/ resolvePort(c, f, string(f, "incoming_port")) = GivesUp \/ TransportFails(f)
  \/ ~Reads(f, "proxy_protocol") \/ ~Reads(f, "proxy_tls")
  \/ validateStreamFails(f)

\* A stream is an error, or the target of its definition with the certificate of its own.
LEMMA StreamIsTarget ==
  ASSUME NEW c, NEW o, NEW f
  PROVE  IF StreamFails(c, o, f) THEN buildStream(c, o, f) = Error
         ELSE TargetOf(f, buildStream(c, o, f), string(f, "incoming_port"),
                       StreamCertificate(f))
<1> DEFINE incoming == string(f, "incoming_port")
           own ==
             [certificate |-> StreamCertificate(f),
              key |-> incoming, host |-> resolveForwardHost(c, o, f),
              port |-> resolvePort(c, f, incoming),
              tcp |-> Forwards(f, "tcp"), udp |-> Forwards(f, "udp"),
              proxyProtocol |-> string(f, "proxy_protocol"),
              proxyTLS |-> boolean(f, "proxy_tls"),
              description |-> IF string(f, "description") # Unset
                              THEN string(f, "description") ELSE "name"]
<1>1. buildStream(c, o, f) = IF StreamFails(c, o, f) THEN Error
                             ELSE Extended(Base(f), own)
  BY DEF buildStream, StreamFails
<1>2. /\ DOMAIN own = {"certificate", "key", "host", "port", "tcp", "udp",
                       "proxyProtocol", "proxyTLS", "description"}
      /\ own["key"] = incoming /\ own["certificate"] = StreamCertificate(f)
  OBVIOUS
<1> HIDE DEF own
<1>3. TargetOf(f, Extended(Base(f), own), own["key"],
               IF "certificate" \in DOMAIN own THEN own["certificate"]
               ELSE string(f, "certificate"))
  BY <1>2, ExtendedBase
<1>4. "certificate" \in DOMAIN own
  BY <1>2
<1>5. QED
  BY <1>1, <1>2, <1>3, <1>4

\* A redirect is an error, or the target of its definition.
LEMMA RedirectIsTarget ==
  ASSUME NEW f
  PROVE  \/ buildRedirect(f) = Error
         \/ TargetOf(f, buildRedirect(f), string(f, "domains"), string(f, "certificate"))
<1> DEFINE own ==
             [key |-> string(f, "domains"), to |-> string(f, "forward_domain"),
              scheme |-> string(f, "forward_scheme"), code |-> string(f, "http_code")]
<1>1. buildRedirect(f) = Error \/ buildRedirect(f) = Extended(Base(f), own)
  BY DEF buildRedirect
<1>2. DOMAIN own = {"key", "to", "scheme", "code"} /\ own["key"] = string(f, "domains")
  OBVIOUS
<1> HIDE DEF own
<1>3. TargetOf(f, Extended(Base(f), own), own["key"],
               IF "certificate" \in DOMAIN own THEN own["certificate"]
               ELSE string(f, "certificate"))
  BY <1>2, ExtendedBase
<1>4. QED
  BY <1>1, <1>2, <1>3

\* A dead host is an error, or the target of its definition.
LEMMA DeadIsTarget ==
  ASSUME NEW f
  PROVE  \/ buildDead(f) = Error
         \/ TargetOf(f, buildDead(f), string(f, "domains"), string(f, "certificate"))
<1> DEFINE own == [key |-> string(f, "domains")]
<1>1. buildDead(f) = Error \/ buildDead(f) = Extended(Base(f), own)
  BY DEF buildDead
<1>2. DOMAIN own = {"key"} /\ own["key"] = string(f, "domains")
  OBVIOUS
<1> HIDE DEF own
<1>3. TargetOf(f, Extended(Base(f), own), own["key"],
               IF "certificate" \in DOMAIN own THEN own["certificate"]
               ELSE string(f, "certificate"))
  BY <1>2, ExtendedBase
<1>4. QED
  BY <1>1, <1>2, <1>3

\* A target has the kind and the index of the definition it was built from: what is
\* said of one definition is said of no other (buildTarget).
LEMMA BuiltIsTarget ==
  ASSUME NEW c, NEW o, NEW f, f.kind \in KindNames
  PROVE  LET t == buildTarget(c, o, f)
         IN  t # Error => t["kind"] = f.kind /\ t["index"] = f.index
  BY ProxyIsTarget, StreamIsTarget, RedirectIsTarget, DeadIsTarget
     DEF buildTarget, KindNames, TargetOf

-------------------------------------------------------------------------------
(* A container that stops. *)

\* Without an address a running container is an error and a stopped one is idle: what
\* resolves while it runs does when it has stopped (resolveForwardHost).
LEMMA StoppedHost ==
  ASSUME NEW ls, NEW o, NEW f,
         resolveForwardHost(Container(ls, "running"), o, f) # GivesUp
  PROVE  resolveForwardHost(Container(ls, "exited"), o, f) # GivesUp
<1> DEFINE d == Container(ls, "exited")
<1>1. ~Running(d) /\ ~HasAddress(d)
  BY DEF Running, HasAddress, Container
<1>2. \A r : ResolveHost(d, o, r) # GivesUp
  BY DEF ResolveHost, IPAddress, GivesUp, Unset
<1>3. Unset # GivesUp
  BY DEF Unset, GivesUp
<1> QED
  BY <1>1, <1>2, <1>3 DEF resolveForwardHost

\* The same of the port it listens on (resolvePort).
LEMMA StoppedPort ==
  ASSUME NEW ls, NEW f, NEW fallback, fallback # GivesUp,
         resolvePort(Container(ls, "running"), f, fallback) # GivesUp
  PROVE  resolvePort(Container(ls, "exited"), f, fallback) # GivesUp
<1> DEFINE d == Container(ls, "exited")
<1>1. ~Running(d) /\ ~HasAddress(d)
  BY DEF Running, HasAddress, Container
<1>2. GuessPort(d) = Unset
  BY <1>1 DEF GuessPort, DefaultPortPreference
<1>3. Unset # GivesUp
  BY DEF Unset, GivesUp
<1> QED
  BY <1>1, <1>2, <1>3 DEF resolvePort

\* u is a target if t is one, and one of the same host.
SameHost(t, u) ==
  t # Error => /\ u # Error
               /\ u["kind"] = t["kind"] /\ u["key"] = t["key"]
               /\ u["certificate"] = t["certificate"]

\* A stopped container has the proxy host it has when it runs.
LEMMA StoppedProxy ==
  ASSUME NEW ls, NEW o, NEW f
  PROVE  SameHost(buildProxy(Container(ls, "running"), o, f),
                  buildProxy(Container(ls, "exited"), o, f))
<1>1. ProxyFails(Container(ls, "exited"), o, f)
        => ProxyFails(Container(ls, "running"), o, f)
  <2>1. Unset # GivesUp
    BY DEF Unset, GivesUp
  <2>2. QED
    BY <2>1, StoppedHost, StoppedPort DEF ProxyFails
<1>2. QED
  BY <1>1, ProxyIsTarget DEF SameHost, TargetOf

\* A stopped container has the stream it has when it runs: a port that is read is never
\* mistaken for the port that could not be resolved.
LEMMA StoppedStream ==
  ASSUME NEW ls, NEW o, NEW f
  PROVE  SameHost(buildStream(Container(ls, "running"), o, f),
                  buildStream(Container(ls, "exited"), o, f))
<1>1. StreamFails(Container(ls, "exited"), o, f)
        => StreamFails(Container(ls, "running"), o, f)
  <2>1. Reads(f, "incoming_port") => string(f, "incoming_port") # GivesUp
    <3> DEFINE incoming == string(f, "incoming_port")
    <3>1. Readable(f.kind, "incoming_port") = Ports \cup {Automatic}
      BY DEF Readable, BoolFields
    <3>2. GivesUp \notin Ports \cup {Automatic} \cup {Unset}
      BY DEF GivesUp, Ports, Automatic, Unset
    <3>3. QED
      BY <3>1, <3>2 DEF Reads
  <2>2. QED
    BY <2>1, StoppedHost, StoppedPort DEF StreamFails
<1>2. QED
  BY <1>1, StreamIsTarget DEF SameHost, TargetOf

\* A stopped container has every target it has when it runs, checked against the same
\* certificate.
LEMMA StoppedTarget ==
  ASSUME NEW ls, NEW o, NEW f, f.kind \in KindNames
  PROVE  SameHost(buildTarget(Container(ls, "running"), o, f),
                  buildTarget(Container(ls, "exited"), o, f))
<1> DEFINE t(c) == CASE f.kind = "proxy" -> buildProxy(c, o, f)
             [] f.kind = "redirect" -> buildRedirect(f)
             [] f.kind = "stream" -> buildStream(c, o, f)
             [] f.kind = "dead" -> buildDead(f)
           up == Container(ls, "running")
           down == Container(ls, "exited")
<1>1. SameHost(t(up), t(down))
  <2>1. CASE f.kind = "proxy"
    BY <2>1, StoppedProxy
  <2>2. CASE f.kind = "redirect"
    BY <2>2 DEF SameHost
  <2>3. CASE f.kind = "stream"
    BY <2>3, StoppedStream
  <2>4. CASE f.kind = "dead"
    BY <2>4 DEF SameHost
  <2>5. QED
    BY <2>1, <2>2, <2>3, <2>4 DEF KindNames
<1>2. \A c : buildTarget(c, o, f) =
               IF \/ CannotReadCommon(f) \/ t(c) = Error
                  \/ validateCertificateFails(f, certificateMode(t(c).certificate))
               THEN Error ELSE t(c)
  BY DEF buildTarget
<1> HIDE DEF t, up, down
<1>3. QED
  BY <1>1, <1>2 DEF SameHost, up, down

\* A container that stops is idle and not broken: the field sets depend on the labels
\* alone, and of each set the stopped container makes the host the running one makes.
THEOREM StoppedIsIdleAlways == Spec => []StoppedIsIdle
<1>1. StoppedIsIdle
  <2> SUFFICES ASSUME NEW managed,
                      NEW up \in ScanWith(labels, "running", Options, {managed}),
                      NEW down \in ScanWith(labels, "exited", Options, {managed})
               PROVE  /\ Keys(up.targets) \subseteq Keys(down.targets)
                      /\ down.errors => up.errors
    BY DEF StoppedIsIdle
  <2> DEFINE U == Container(labels, "running")
             D == Container(labels, "exited")
             o == Options
             found(c) == IF managed THEN Results(c, o) ELSE {}
  <2>1. up = Scan(U, o, managed, found(U)) /\ down = Scan(D, o, managed, found(D))
    BY DEF ScanWith, Scans
  <2>2. U.labels = labels /\ D.labels = labels
    BY DEF Container
  <2>3. LabelErrors(U) = LabelErrors(D)
    BY <2>2 DEF LabelErrors, Carried
  <2>4. Built(U, o) = Built(D, o)
    BY <2>2 DEF Built, groups, disabled, tainted, UnknownLabels, Carried
  <2>5. \A key : FieldSet(U, o, key) = FieldSet(D, o, key)
    <3> HIDE DEF U, D, o
    <3>1. \A S : Carried(U, S) = Carried(D, S)
      BY <2>2 DEF Carried
    <3>2. \A key : fieldSet(U, key) = fieldSet(D, key)
      BY <2>2, <3>1 DEF fieldSet
    <3>3. QED
      BY <3>2 DEF FieldSet
  <2>6. \A key \in Built(U, o) : FieldSet(U, o, key).kind \in KindNames
    <3>1. \A key \in Built(U, o) : \E n \in DOMAIN Names : key = entryKey[n]
      BY DEF Built, groups, Carried, Definitions
    <3>2. \A n \in DOMAIN Names : entryKey[n].kind \in KindNames
      BY NamesAssumption, KindIsKnown DEF entryKey, Split
    <3>3. QED
      BY <3>1, <3>2 DEF FieldSet
  <2>7. \A key \in Built(U, o) : SameHost(buildTarget(U, o, FieldSet(U, o, key)),
                                          buildTarget(D, o, FieldSet(D, o, key)))
    BY <2>5, <2>6, StoppedTarget
  <2>8. /\ \A t \in found(U) : \E u \in found(D) : SameHost(t, u)
        /\ Error \in found(D) => Error \in found(U)
    BY <2>4, <2>7 DEF Results, SameHost
  <2> HIDE DEF found, o, U, D
  <2>9. Keys(up.targets) \subseteq Keys(down.targets)
    BY <2>1, <2>8 DEF Keys, Key, Scan, Targets, SameHost
  <2>10. down.errors => up.errors
    BY <2>1, <2>3, <2>8 DEF Scan
  <2>11. QED
    BY <2>9, <2>10
<1>2. QED
  BY <1>1, PTL

-------------------------------------------------------------------------------
(* What a definition is read from. *)

\* The last of the labels that set the same field: a bounded set of numbers has a
\* greatest one.
LEMMA MaxExists ==
  ASSUME NEW S \in SUBSET Nat, S # {}, NEW k \in Nat, \A n \in S : n <= k
  PROVE  Max(S) \in S
<1> DEFINE T == {k - n : n \in S}
<1>1. T \subseteq Nat /\ T # {}
  <2>1. \A n \in S : k - n \in Nat
    OBVIOUS
  <2>2. QED
    BY <2>1
<1>2. PICK x \in T : \A y \in T : <<y, x>> \notin OpToRel(<, Nat)
  BY <1>1, NatLessThanWellFounded, WFMin
<1>3. \A y \in T : ~(y < x)
  BY <1>1, <1>2 DEF OpToRel
<1>4. PICK m \in S : x = k - m
  BY <1>2
<1>5. \A n \in S : m >= n
  <2> TAKE n \in S
  <2>1. ~(k - n < k - m)
    BY <1>3, <1>4
  <2>2. QED
    BY <2>1
<1>6. QED
  BY <1>4, <1>5 DEF Max

\* The last label of a set of them.
LEMMA NamesFinite ==
  ASSUME NEW S \in SUBSET DOMAIN Names, S # {}
  PROVE  Max(S) \in S
<1>1. Len(Names) \in Nat /\ DOMAIN Names = 1..Len(Names)
  BY NamesAssumption
<1>2. S \in SUBSET Nat /\ \A n \in S : n <= Len(Names)
  BY <1>1
<1>3. QED
  BY <1>1, <1>2, MaxExists

\* No two labels of a container switch the same index.
OneSwitch(c) ==
  \A n, m \in Carried(c, IndexSwitch) : Split[n].index = Split[m].index => n = m

\* c and d differ in nothing but their labels.
SameSurroundings(c, d) ==
  c.state = d.state /\ c.networks = d.networks /\ c.ports = d.ports

\* The builders see the labels through the field set only: what else they ask the
\* container for is its state, its networks and its ports (buildTarget).
LEMMA BuiltTheSame ==
  ASSUME NEW c, NEW d, SameSurroundings(c, d), NEW o, NEW f
  PROVE  buildTarget(c, o, f) = buildTarget(d, o, f)
<1>1. Running(c) = Running(d) /\ HasAddress(c) = HasAddress(d)
  BY DEF SameSurroundings, Running, HasAddress
<1>2. \A r : ResolveHost(c, o, r) = ResolveHost(d, o, r)
  BY <1>1 DEF SameSurroundings, ResolveHost, IPAddress, OnAnyNetwork
<1>3. GuessPort(c) = GuessPort(d)
  BY <1>1 DEF SameSurroundings, GuessPort
<1>4. resolveForwardHost(c, o, f) = resolveForwardHost(d, o, f)
  BY <1>1, <1>2 DEF resolveForwardHost
<1>5. \A fallback : resolvePort(c, f, fallback) = resolvePort(d, f, fallback)
  BY <1>1, <1>3 DEF resolvePort
<1>6. buildProxy(c, o, f) = buildProxy(d, o, f)
  BY <1>4, <1>5 DEF buildProxy
<1>7. buildStream(c, o, f) = buildStream(d, o, f)
  BY <1>4, <1>5 DEF buildStream
<1>8. QED
  BY <1>6, <1>7 DEF buildTarget

-------------------------------------------------------------------------------
(* One definition breaks: the others do not notice. *)

\* d is c, except for one label, which became a text that no reader accepts.
Blotted(c, d, n) ==
  /\ SameSurroundings(c, d)
  /\ n \in HasFormat \ ContainerSwitch
  /\ \A m \in DOMAIN Names \ {n} : d.labels[m] = c.labels[m]
  /\ d.labels[n] = "?"

\* Another definition keeps the labels that make it one (groups).
LEMMA OthersStayGrouped ==
  ASSUME NEW c, NEW d, NEW n, Blotted(c, d, n), NEW key \in groups(c), key # entryKey[n]
  PROVE  key \in groups(d)
<1>1. PICK m \in Carried(c, Definitions) : key = entryKey[m]
  BY DEF groups
<1>2. m # n /\ m \in DOMAIN Names
  BY <1>1 DEF Carried, Definitions
<1>3. m \in Carried(d, Definitions)
  BY <1>1, <1>2 DEF Carried, Blotted
<1>4. QED
  BY <1>1, <1>3 DEF groups

\* Another definition gets no unknown label, for which strict labels would skip it.
LEMMA OthersStayClean ==
  ASSUME NEW c, NEW d, NEW n, Blotted(c, d, n), NEW key, key # entryKey[n],
         tainted(d, key)
  PROVE  tainted(c, key)
<1>1. PICK m \in UnknownLabels(d) : entryKey[m] = key
  BY DEF tainted
<1>2. m # n /\ m \in DOMAIN Names
  BY <1>1 DEF UnknownLabels, UnknownNames, Carried, Definitions
<1>3. m \in UnknownLabels(c)
  BY <1>1, <1>2 DEF UnknownLabels, Carried, Blotted
<1>4. QED
  BY <1>1, <1>3 DEF tainted

\* An index switch that cannot be read switches nothing off: no other label of that
\* index takes its place (disabled).
LEMMA OthersStayOn ==
  ASSUME NEW c, NEW d, OneSwitch(d), NEW n, Blotted(c, d, n)
  PROVE  disabled(d) \subseteq disabled(c)
<1> DEFINE switches(x, i) == {m \in Carried(x, IndexSwitch) :
                                Split[m].index = i /\ x.labels[m] \in Bools}
<1> SUFFICES ASSUME NEW i \in disabled(d) PROVE i \in disabled(c)
  OBVIOUS
<1>1. /\ i \in {Split[m].index : m \in IndexSwitch}
      /\ switches(d, i) # {} /\ ~ParseBool(d.labels[Max(switches(d, i))])
  BY DEF disabled
<1>2. IndexSwitch \subseteq DOMAIN Names
  BY DEF IndexSwitch
<1>3. n \notin switches(d, i)
  BY DEF Blotted, Bools
<1>4. \A m \in switches(d, i) : m \in switches(c, i)
  BY <1>2, <1>3 DEF Blotted, Carried
<1>5. n \notin switches(c, i)
  <2>1. PICK m \in switches(d, i) : TRUE
    BY <1>1
  <2>2. m # n /\ m \in switches(c, i)
    BY <1>3, <1>4, <2>1
  <2>3. QED
    BY <2>1, <2>2, NamesAssumption DEF OneSwitch, Carried, Blotted
<1>6. switches(c, i) = switches(d, i)
  BY <1>2, <1>4, <1>5 DEF Blotted, Carried
<1>7. Max(switches(d, i)) \in switches(d, i)
  BY <1>1, <1>2, NamesFinite DEF Carried
<1>8. d.labels[Max(switches(d, i))] = c.labels[Max(switches(c, i))]
  BY <1>2, <1>3, <1>6, <1>7 DEF Blotted, Carried
<1>9. QED
  BY <1>1, <1>6, <1>8 DEF disabled

\* The fields of another definition are what they were (fieldSet).
LEMMA OthersReadTheSame ==
  ASSUME NEW c, NEW d, NEW n, Blotted(c, d, n), NEW key \in groups(c), key # entryKey[n]
  PROVE  fieldSet(d, key) = fieldSet(c, key)
<1> DEFINE given(x, s) == {m \in Carried(x, Setters[key][s]) :
                             m \in Inverted => x.labels[m] \in Bools}
           value(x, m) == IF m \in Inverted THEN Negated(x.labels[m]) ELSE x.labels[m]
<1>1. key \in {entryKey[m] : m \in Definitions}
  BY DEF groups, Carried
<1>2. \A s \in DOMAIN Setters[key] : Setters[key][s] \subseteq DOMAIN Names \ {n}
  BY <1>1 DEF Setters, Definitions
<1>3. \A s \in DOMAIN Setters[key] : given(d, s) = given(c, s)
  BY <1>2 DEF Blotted, Carried
<1>4. \A s \in DOMAIN Setters[key] : given(c, s) # {} =>
        Max(given(c, s)) \in DOMAIN Names \ {n}
  <2> TAKE s \in DOMAIN Setters[key]
  <2>1. given(c, s) \subseteq DOMAIN Names \ {n}
    BY <1>2 DEF Carried
  <2> HIDE DEF given
  <2>2. QED
    BY <2>1, NamesFinite
<1>5. \A m \in DOMAIN Names \ {n} : value(d, m) = value(c, m)
  BY DEF Blotted
<1> DEFINE set(x) == {s \in DOMAIN Setters[key] : given(x, s) # {}}
<1>6. set(d) = set(c)
  BY <1>3
<1>7. \A s \in set(c) : value(d, Max(given(d, s))) = value(c, Max(given(c, s)))
  BY <1>3, <1>4, <1>5
<1>8. \A x : fieldSet(x, key) = [s \in set(x) |-> value(x, Max(given(x, s)))]
  BY DEF fieldSet
<1> HIDE DEF set, given, value
<1>9. QED
  BY <1>6, <1>7, <1>8

\* A target of another definition is built as before.
LEMMA OthersAreBuilt ==
  ASSUME NEW c, NEW d, OneSwitch(d), NEW n, Blotted(c, d, n), NEW o,
         NEW t \in Targets(Results(c, o)),
         [kind |-> t.kind, index |-> t.index] # entryKey[n]
  PROVE  t \in Targets(Results(d, o))
<1>1. PICK key \in Built(c, o) : t = buildTarget(c, o, FieldSet(c, o, key)) /\ t # Error
  BY DEF Targets, Results
<1>2. key \in groups(c)
  BY <1>1 DEF Built
<1>3. PICK m \in DOMAIN Names : key = entryKey[m]
  BY <1>2 DEF groups, Carried, Definitions
<1>4. key = [kind |-> key.kind, index |-> key.index] /\ key.kind \in KindNames
  BY <1>3, NamesAssumption, KindIsKnown DEF entryKey, Split
<1>5. FieldSet(c, o, key).kind = key.kind /\ FieldSet(c, o, key).index = key.index
  BY DEF FieldSet
<1>6. t.kind = key.kind /\ t.index = key.index
  BY <1>1, <1>4, <1>5, BuiltIsTarget
<1>7. key # entryKey[n]
  BY <1>4, <1>6
<1>8. key \in Built(d, o)
  BY <1>1, <1>2, <1>7, OthersStayGrouped, OthersStayClean, OthersStayOn DEF Built
<1>9. FieldSet(d, o, key) = FieldSet(c, o, key)
  BY <1>2, <1>7, OthersReadTheSame DEF FieldSet
<1>10. t = buildTarget(d, o, FieldSet(d, o, key))
  BY <1>1, <1>9, BuiltTheSame DEF Blotted
<1>11. QED
  BY <1>1, <1>8, <1>10 DEF Targets, Results

-------------------------------------------------------------------------------
(* A value that cannot be read. *)

\* f is g, but for values that no reader accepts.
Blurred(f, g) ==
  /\ f.kind = g.kind /\ f.index = g.index /\ f.defaults = g.defaults
  /\ DOMAIN f.values = DOMAIN g.values
  /\ \A s \in DOMAIN f.values :
       \/ f.values[s] = g.values[s]
       \/ /\ f.values[s] = "?" /\ "?" \notin Readable(f.kind, s.name)
          /\ s.name = "path" => [block |-> s.block, name |-> "type"] \notin DOMAIN f.values

\* The two agree on a field.
Agree(f, g, name) ==
  /\ has(f, name) = has(g, name) /\ string(f, name) = string(g, name)
  /\ Reads(f, name) = Reads(g, name) /\ boolean(f, name) = boolean(g, name)

\* A field that differs has a value its reader refuses.
LEMMA AgreeOrUnread ==
  ASSUME NEW f, NEW g, Blurred(f, g), NEW name
  PROVE  \/ Agree(f, g, name)
         \/ /\ has(f, name) /\ ~Reads(f, name)
            /\ string(f, name) = "?" /\ "?" \notin Readable(f.kind, name)
<1> DEFINE slot == [block |-> Unset, name |-> name]
<1>1. slot.name = name
  OBVIOUS
<1>2. "?" # Unset
  BY DEF Unset
<1>3. CASE raw(f, Unset, name) = raw(g, Unset, name)
  BY <1>3 DEF Agree, has, string, Reads, boolean, Blurred
<1>4. CASE raw(f, Unset, name) # raw(g, Unset, name)
  <2>1. slot \in DOMAIN f.values /\ f.values[slot] # g.values[slot]
    BY <1>4 DEF raw, Blurred
  <2>2. f.values[slot] = "?" /\ "?" \notin Readable(f.kind, name)
    BY <1>1, <2>1 DEF Blurred
  <2>3. raw(f, Unset, name) = "?"
    BY <2>1, <2>2 DEF raw
  <2>4. QED
    BY <1>2, <2>2, <2>3 DEF has, string, Reads
<1>5. QED
  BY <1>3, <1>4

\* What is read without an error is what was meant.
LEMMA AgreeIfRead ==
  ASSUME NEW f, NEW g, Blurred(f, g), NEW name, Reads(f, name)
  PROVE  Agree(f, g, name)
  BY AgreeOrUnread

\* A text without a format.
LEMMA AgreeOnTexts ==
  ASSUME NEW f, NEW g, Blurred(f, g),
         NEW name \in {"advanced_config", "dns_provider", "forward_host", "description"}
  PROVE  Agree(f, g, name)
<1>1. "?" \in Readable(f.kind, name)
  BY DEF Readable, BoolFields
<1>2. QED
  BY <1>1, AgreeOrUnread

\* If the fields of every kind can be read they are what was meant, and so are the
\* settings and the check of the certificate made from them.
LEMMA CommonAgree ==
  ASSUME NEW f, NEW g, Blurred(f, g), ~CannotReadCommon(f)
  PROVE  /\ \A name \in CommonFields : Agree(f, g, name)
         /\ ~CannotReadCommon(g) /\ Base(f) = Base(g)
         /\ \A mode : validateCertificateFails(f, mode) = validateCertificateFails(g, mode)
<1>1. \A name \in CommonFields : Agree(f, g, name)
  BY AgreeIfRead DEF CannotReadCommon
<1>2. ~CannotReadCommon(g)
  BY <1>1 DEF CannotReadCommon, Agree
<1>3. Agree(f, g, "advanced_config") /\ Agree(f, g, "dns_provider")
  BY AgreeOnTexts
<1>4. Base(f) = Base(g)
  <2>1. /\ Agree(f, g, "enabled") /\ Agree(f, g, "certificate") /\ Agree(f, g, "ssl_forced")
        /\ Agree(f, g, "ssl_hsts") /\ Agree(f, g, "group")
    BY <1>1 DEF CommonFields
  <2>2. groupSpec(f) = groupSpec(g)
    BY <2>1 DEF groupSpec, Agree
  <2>3. QED
    BY <1>3, <2>1, <2>2 DEF Base, Agree, Blurred
<1>5. \A mode : validateCertificateFails(f, mode) = validateCertificateFails(g, mode)
  <2>1. Agree(f, g, "dns_challenge") /\ Agree(f, g, "ssl_forced")
    BY <1>1 DEF CommonFields
  <2>2. QED
    BY <1>3, <2>1 DEF validateCertificateFails, Agree
<1>6. QED
  BY <1>1, <1>2, <1>4, <1>5

\* An upstream that resolves resolves as it was meant to: resolve_ip is an error where
\* it is read at all.
LEMMA UpstreamAgrees ==
  ASSUME NEW c, NEW o, NEW f, NEW g, Blurred(f, g)
  PROVE  /\ resolveForwardHost(c, o, f) # GivesUp =>
              resolveForwardHost(c, o, g) = resolveForwardHost(c, o, f)
         /\ \A fallback : resolvePort(c, f, fallback) # GivesUp =>
              resolvePort(c, g, fallback) = resolvePort(c, f, fallback)
<1>1. Agree(f, g, "forward_host")
  BY AgreeOnTexts
<1>2. Agree(f, g, "resolve_ip") \/ (has(f, "resolve_ip") /\ ~Reads(f, "resolve_ip"))
  BY AgreeOrUnread
<1>3. resolveForwardHost(c, o, f) # GivesUp =>
        resolveForwardHost(c, o, g) = resolveForwardHost(c, o, f)
  BY <1>1, <1>2 DEF resolveForwardHost, Agree
<1>4. \A fallback : resolvePort(c, f, fallback) # GivesUp =>
        resolvePort(c, g, fallback) = resolvePort(c, f, fallback)
  <2>1. ~Reads(f, "forward_port") \/ Agree(f, g, "forward_port")
    BY AgreeIfRead
  <2>2. QED
    BY <2>1 DEF resolvePort, Agree
<1>5. QED
  BY <1>3, <1>4

\* Access lists that are accepted are what was meant.
LEMMA ListsAgree ==
  ASSUME NEW f, NEW g, Blurred(f, g), NEW default,
         ~AccessListFails(string(f, "access_list"), string(f, "access_list_type"), default)
  PROVE  Agree(f, g, "access_list") /\ Agree(f, g, "access_list_type")
<1>1. Agree(f, g, "access_list")
  <2>1. Readable(f.kind, "access_list") = Readable("proxy", "access_list")
    BY DEF Readable, BoolFields
  <2>2. string(f, "access_list") \in Readable("proxy", "access_list") \cup {Unset}
    BY DEF AccessListFails
  <2>3. Reads(f, "access_list")
    BY <2>1, <2>2 DEF Reads
  <2>4. QED
    BY <2>3, AgreeIfRead
<1>2. string(f, "access_list_type") # "?"
  BY DEF AccessListFails, Unset
<1>3. Agree(f, g, "access_list_type")
  BY <1>2, AgreeOrUnread
<1>4. QED
  BY <1>1, <1>3

\* A location that is accepted is what was meant, its path too: with a type it might be
\* the name of a named location, and any text would do (build.go:368).
LEMMA LocationAgrees ==
  ASSUME NEW f, NEW g, Blurred(f, g), f.kind = "proxy", NEW b, ~LocationFails(f, b)
  PROVE  \A name \in LocationFields : raw(f, b, name) = raw(g, b, name)
<1> SUFFICES ASSUME NEW name \in LocationFields, raw(f, b, name) # raw(g, b, name)
             PROVE  FALSE
  OBVIOUS
<1> DEFINE slot == [block |-> b, name |-> name]
<1>1. slot.name = name /\ slot.block = b
  OBVIOUS
<1>2. "?" # Unset /\ "?" # "named" /\ Unset # "named"
  BY DEF Unset
<1>3. slot \in DOMAIN f.values /\ f.values[slot] # g.values[slot]
  BY DEF raw, Blurred
<1>4. /\ f.values[slot] = "?" /\ "?" \notin Readable("proxy", name)
      /\ name = "path" => [block |-> b, name |-> "type"] \notin DOMAIN f.values
  BY <1>1, <1>3 DEF Blurred
<1>5. raw(f, b, name) = "?"
  BY <1>3, <1>4 DEF raw
<1>6. name # "forward_host"
  BY <1>4 DEF Readable, BoolFields
<1>7. CASE name = "path"
  <2>1. raw(f, b, "type") = Unset
    BY <1>4, <1>7 DEF raw
  <2>2. QED
    BY <1>2, <1>4, <1>5, <1>7, <2>1 DEF LocationFails
<1>8. CASE name \in {"type", "forward_scheme", "enabled", "crowdsec_appsec"}
  BY <1>2, <1>4, <1>5, <1>8 DEF LocationFails
<1>9. CASE name = "forward_port"
  BY <1>5, <1>9 DEF LocationFails, Ports, Unset
<1>10. CASE name = "access_list"
  BY <1>2, <1>4, <1>5, <1>10 DEF LocationFails, AccessListFails
<1>11. CASE name = "access_list_type"
  BY <1>5, <1>11 DEF LocationFails, AccessListFails, Unset
<1>12. QED
  BY <1>6, <1>7, <1>8, <1>9, <1>10, <1>11 DEF LocationFields

\* A proxy host built from values that could not be read is an error, or what was meant.
LEMMA BlurredProxy ==
  ASSUME NEW c, NEW o, NEW f, NEW g, Blurred(f, g), ~CannotReadCommon(f), f.kind = "proxy",
         buildProxy(c, o, f) # Error
  PROVE  buildProxy(c, o, g) = buildProxy(c, o, f)
<1>1. ~ProxyFails(c, o, f)
  BY ProxyIsTarget
<1>2. Base(f) = Base(g)
  BY CommonAgree
<1>3. /\ Agree(f, g, "domains") /\ Agree(f, g, "forward_scheme")
      /\ Agree(f, g, "crowdsec_appsec")
  BY <1>1, AgreeIfRead DEF ProxyFails, DomainsFail
<1>4. Agree(f, g, "access_list") /\ Agree(f, g, "access_list_type")
  BY <1>1, ListsAgree DEF ProxyFails
<1>5. /\ resolveForwardHost(c, o, f) = resolveForwardHost(c, o, g)
      /\ resolvePort(c, f, Unset) = resolvePort(c, g, Unset)
  BY <1>1, UpstreamAgrees DEF ProxyFails
<1>6. Blocks(f) = Blocks(g)
  BY DEF Blocks, Blurred
<1>7. \A b \in Blocks(f) : \A name \in LocationFields : raw(f, b, name) = raw(g, b, name)
  BY <1>1, LocationAgrees DEF ProxyFails
<1>8. \A b \in Blocks(f) : LocationFails(g, b) = LocationFails(f, b)
  BY <1>7 DEF LocationFails, LocationFields
<1>9. \A b \in Blocks(f) : \A t : buildLocation(f, b, t) = buildLocation(g, b, t)
  BY <1>7 DEF buildLocation, LocationFields
<1>10. ~ProxyFails(c, o, g)
  BY <1>1, <1>3, <1>4, <1>5, <1>6, <1>8 DEF ProxyFails, DomainsFail, Agree
<1> DEFINE own(x) ==
             [key |-> string(x, "domains"), host |-> resolveForwardHost(c, o, x),
              port |-> resolvePort(c, x, Unset),
              scheme |-> string(x, "forward_scheme"),
              crowdsec |-> string(x, "crowdsec_appsec"),
              access |-> AccessListOf(string(x, "access_list"),
                                      string(x, "access_list_type"), "public")]
           t(x) == Extended(Base(x), own(x))
           extra(x) == {buildLocation(x, b, t(x)) : b \in Blocks(x)}
<1>11. /\ buildProxy(c, o, f) = Extended(t(f), [locations |-> extra(f)])
       /\ buildProxy(c, o, g) = Extended(t(g), [locations |-> extra(g)])
  BY <1>1, <1>10 DEF buildProxy, ProxyFails
<1>12. own(f) = own(g)
  BY <1>3, <1>4, <1>5 DEF Agree
<1>13. t(f) = t(g)
  BY <1>2, <1>12
<1>14. extra(f) = extra(g)
  <2> HIDE DEF t
  <2>1. \A b \in Blocks(f) : buildLocation(f, b, t(f)) = buildLocation(g, b, t(g))
    BY <1>9, <1>13
  <2>2. QED
    BY <1>6, <2>1
<1> HIDE DEF own, t, extra
<1>15. QED
  BY <1>11, <1>13, <1>14

\* The same of a redirect.
LEMMA BlurredRedirect ==
  ASSUME NEW f, NEW g, Blurred(f, g), ~CannotReadCommon(f), buildRedirect(f) # Error
  PROVE  buildRedirect(g) = buildRedirect(f)
<1>1. Base(f) = Base(g)
  BY CommonAgree
<1>2. /\ Reads(f, "domains") /\ Reads(f, "forward_domain") /\ Reads(f, "forward_scheme")
      /\ Reads(f, "http_code") /\ Reads(f, "preserve_path")
  BY DEF buildRedirect, DomainsFail
<1>3. /\ Agree(f, g, "domains") /\ Agree(f, g, "forward_domain")
      /\ Agree(f, g, "forward_scheme") /\ Agree(f, g, "http_code")
      /\ Agree(f, g, "preserve_path")
  BY <1>2, AgreeIfRead
<1>4. QED
  BY <1>1, <1>3 DEF buildRedirect, DomainsFail, Agree

\* The same of a dead host.
LEMMA BlurredDead ==
  ASSUME NEW f, NEW g, Blurred(f, g), ~CannotReadCommon(f), buildDead(f) # Error
  PROVE  buildDead(g) = buildDead(f)
<1>1. Base(f) = Base(g)
  BY CommonAgree
<1>2. Agree(f, g, "domains")
  BY AgreeIfRead DEF buildDead, DomainsFail
<1>3. QED
  BY <1>1, <1>2 DEF buildDead, DomainsFail, Agree

\* The same of a stream: a transport switch counts only where it is read.
LEMMA BlurredStream ==
  ASSUME NEW c, NEW o, NEW f, NEW g, Blurred(f, g), ~CannotReadCommon(f),
         buildStream(c, o, f) # Error
  PROVE  buildStream(c, o, g) = buildStream(c, o, f)
<1>1. ~StreamFails(c, o, f)
  BY StreamIsTarget
<1>2. Base(f) = Base(g) /\ Agree(f, g, "certificate")
  BY CommonAgree DEF CommonFields
<1>3. /\ Agree(f, g, "incoming_port") /\ Agree(f, g, "protocol")
      /\ Agree(f, g, "proxy_protocol") /\ Agree(f, g, "proxy_tls")
  BY <1>1, AgreeIfRead DEF StreamFails, TransportFails
<1>4. Agree(f, g, "description")
  BY AgreeOnTexts
<1>5. \A name \in {"tcp", "udp"} : Agree(f, g, name)
  BY <1>1, AgreeOrUnread DEF StreamFails, TransportFails
<1>6. \A name \in {"tcp", "udp"} : Forwards(f, name) = Forwards(g, name)
  BY <1>3, <1>5 DEF Forwards, Agree
<1>7. TransportFails(f) = TransportFails(g)
  BY <1>3, <1>5, <1>6 DEF TransportFails, Agree
<1>8. StreamCertificate(f) = StreamCertificate(g)
  BY <1>2, <1>6 DEF StreamCertificate, Agree
<1>9. validateStreamFails(f) = validateStreamFails(g)
  BY <1>3, <1>6, <1>8 DEF validateStreamFails, Agree
<1>10. resolveForwardHost(c, o, f) = resolveForwardHost(c, o, g)
  BY <1>1, UpstreamAgrees DEF StreamFails
<1>11. resolvePort(c, f, string(f, "incoming_port"))
         = resolvePort(c, g, string(g, "incoming_port"))
  BY <1>1, <1>3, UpstreamAgrees DEF StreamFails, Agree
<1>12. QED
  BY <1>2, <1>3, <1>4, <1>6, <1>7, <1>8, <1>9, <1>10, <1>11 DEF buildStream, Agree

\* No value that its reader refuses changes a target without making it an error
\* (buildTarget).
LEMMA BlurredTarget ==
  ASSUME NEW c, NEW o, NEW f, NEW g, Blurred(f, g), f.kind \in KindNames,
         buildTarget(c, o, f) # Error
  PROVE  buildTarget(c, o, g) = buildTarget(c, o, f)
<1> DEFINE t(x) == CASE x.kind = "proxy" -> buildProxy(c, o, x)
             [] x.kind = "redirect" -> buildRedirect(x)
             [] x.kind = "stream" -> buildStream(c, o, x)
             [] x.kind = "dead" -> buildDead(x)
<1>1. \A x : buildTarget(c, o, x) =
               IF \/ CannotReadCommon(x) \/ t(x) = Error
                  \/ validateCertificateFails(x, certificateMode(t(x).certificate))
               THEN Error ELSE t(x)
  BY DEF buildTarget
<1>2. ~CannotReadCommon(f) /\ t(f) # Error
  BY <1>1
<1>3. g.kind = f.kind
  BY DEF Blurred
<1>4. t(g) = t(f)
  <2>1. CASE f.kind = "proxy"
    BY <1>2, <1>3, <2>1, BlurredProxy
  <2>2. CASE f.kind = "redirect"
    BY <1>2, <1>3, <2>2, BlurredRedirect
  <2>3. CASE f.kind = "stream"
    BY <1>2, <1>3, <2>3, BlurredStream
  <2>4. CASE f.kind = "dead"
    BY <1>2, <1>3, <2>4, BlurredDead
  <2>5. QED
    BY <2>1, <2>2, <2>3, <2>4 DEF KindNames
<1> HIDE DEF t
<1>5. QED
  BY <1>1, <1>2, <1>4, CommonAgree

-------------------------------------------------------------------------------
(* What the slips did, in every reachable state. *)

\* Every name has a label, if only an absent one.
Labelled == DOMAIN labels = DOMAIN Names /\ DOMAIN meant = DOMAIN Names

\* No field is meant to be written in two spellings.
Unrivalled ==
  \A n, m \in DOMAIN Names :
    n # m /\ meant[n] # Absent /\ meant[m] # Absent => ~SetTheSame(n, m)

\* A label under a name that means nothing, which is not meant.
Stray(m) == m \in UnknownNames \cup Malformed /\ labels[m] # Absent /\ labels[m] # meant[m]

\* A label whose value became one that means nothing.
Unreadable(n) == /\ labels[n] = "?" /\ meant[n] # Absent /\ n \in HasFormat
                 /\ n \in ContainerSwitch => "enable" \in slips

\* A label that is gone from its name, and one under a name that means nothing is there:
\* one of the same definition, unless a segment was mistyped.
Misnamed(n) ==
  /\ labels[n] = Absent /\ meant[n] # Absent
  /\ \E m \in DOMAIN Names :
       /\ Stray(m)
       /\ "segment" \notin slips => {n, m} \subseteq Definitions /\ entryKey[m] = entryKey[n]

\* Every label is what it was meant to be or shows a slip.
SlipsShow ==
  \A n \in DOMAIN Names :
    labels[n] = meant[n] \/ Unreadable(n) \/ Misnamed(n) \/ Stray(n)

\* The inductive invariant.
LInv == /\ Labelled /\ opts \in Settings
        /\ Unrivalled /\ SlipsShow

\* At first every label is what it was meant to be.
LEMMA LInvInit == Init => LInv
  BY ContainerAssumption, VocabularyAssumption DEF Init, LInv, Labelled, Unrivalled, SlipsShow

\* Of two labels that set the same as a third each sets the same as the other.
LEMMA SetTheSameSpreads ==
  ASSUME NEW k, NEW n, NEW m, SetTheSame(n, m), SetTheSame(k, m)
  PROVE  SetTheSame(k, n) /\ SetTheSame(n, k)
<1>1. /\ ContainerSwitch \cap IndexSwitch = {}
      /\ Definitions \cap (ContainerSwitch \cup IndexSwitch) = {}
  BY DEF IndexSwitch, Definitions
<1>2. QED
  BY <1>1 DEF SetTheSame

\* No action makes two labels set the same: an edit looks for a rival, and another
\* spelling replaces the one before.
LEMMA UnrivalledStep == LInv /\ [Next]_vars => Unrivalled'
<1> SUFFICES ASSUME LInv, [Next]_vars PROVE Unrivalled'
  OBVIOUS
<1> USE DEF LInv
<1>1. ASSUME meant' = meant PROVE Unrivalled'
  BY <1>1 DEF Unrivalled
<1>2. ASSUME NEW n \in DOMAIN Names, Edit(n) PROVE Unrivalled'
  <2>1. PICK v : meant' = [meant EXCEPT ![n] = v]
    BY <1>2 DEF Edit
  <2>2. \A m \in DOMAIN Names \ {n} : meant'[m] = meant[m]
    BY <2>1
  <2>3. \A m \in DOMAIN Names \ {n} : meant[m] # Absent => ~SetTheSame(n, m) /\ ~SetTheSame(m, n)
    BY <1>2 DEF Edit, Rivals, SetTheSame
  <2>4. QED
    BY <2>2, <2>3 DEF Unrivalled
<1>3. ASSUME NEW n \in DOMAIN Names, Respell(n) PROVE Unrivalled'
  <2>1. PICK s \in Synonyms :
          /\ s[1] = n /\ labels[s[2]] = Absent
          /\ labels' = [[labels EXCEPT ![n] = Absent] EXCEPT ![s[2]] = labels[n]]
    BY <1>3 DEF Respell, Change
  <2>2. labels = meant /\ labels[n] # Absent /\ meant' = labels'
    BY <1>3 DEF Respell
  <2> DEFINE k == s[2]
  <2>3. SetTheSame(n, k)
    BY <2>1, VocabularyAssumption
  <2> HIDE DEF k
  <2>4. meant' = [[meant EXCEPT ![n] = Absent] EXCEPT ![k] = meant[n]] /\ meant[k] = Absent
    BY <2>1, <2>2 DEF k
  <2>5. k # n
    BY <2>2, <2>4
  <2>6. /\ meant'[n] = Absent \/ n \notin DOMAIN meant
        /\ \A m \in DOMAIN Names \ {n, k} : meant'[m] = meant[m]
    BY <2>4, <2>5 DEF Labelled
  <2>7. meant'[n] = Absent
    BY <2>6 DEF Labelled
  <2>8. \A m \in DOMAIN Names \ {n, k} :
          meant[m] # Absent => ~SetTheSame(m, k) /\ ~SetTheSame(k, m)
    <3> SUFFICES ASSUME NEW m \in DOMAIN Names \ {n, k}, meant[m] # Absent,
                        SetTheSame(m, k) \/ SetTheSame(k, m)
                 PROVE  FALSE
      OBVIOUS
    <3>1. SetTheSame(m, k)
      BY DEF SetTheSame
    <3>2. SetTheSame(n, m)
      BY <2>3, <3>1, SetTheSameSpreads
    <3>3. QED
      BY <2>2, <3>2 DEF Unrivalled
  <2>9. QED
    BY <2>6, <2>7, <2>8 DEF Unrivalled
<1>4. CASE \/ \E n \in DOMAIN Names : MistypeValue(n) \/ MistypeName(n)
           \/ Mend \/ Stop \/ Start \/ CrashLoop \/ Connect \/ Reconcile \/ UNCHANGED vars
  <2>1. meant' = meant
    BY <1>4 DEF MistypeValue, MistypeName, Mend, Stop, Start, CrashLoop, Connect, Reconcile,
                Environment, vars
  <2>2. QED
    BY <1>1, <2>1
<1>5. QED
  BY <1>2, <1>3, <1>4 DEF Next

\* No action leaves a label that differs without a trace: a value that means nothing
\* stays one until it is mended, and a name that means nothing stays stray.
LEMMA SlipsShowStep == LInv /\ [Next]_vars => SlipsShow'
<1> SUFFICES ASSUME LInv, [Next]_vars PROVE SlipsShow'
  OBVIOUS
<1>1. UnknownNames \cup Malformed \subseteq DOMAIN Names
  BY DEF UnknownNames, Malformed, Definitions
<1> USE DEF LInv, Labelled
<1>2. ASSUME NEW n \in DOMAIN Names, Edit(n) PROVE SlipsShow'
  <2>1. PICK v : labels' = [labels EXCEPT ![n] = v] /\ meant' = [meant EXCEPT ![n] = v]
    BY <1>2 DEF Edit, Change
  <2>2. labels[n] = meant[n] /\ slips' = slips
    BY <1>2 DEF Edit
  <2>3. \A m \in DOMAIN Names \ {n} : labels'[m] = labels[m] /\ meant'[m] = meant[m]
    BY <2>1
  <2>4. labels'[n] = meant'[n]
    BY <2>1
  <2>5. \A m \in DOMAIN Names : Stray(m) => m # n /\ Stray(m)'
    BY <2>2, <2>3 DEF Stray
  <2>6. \A m \in DOMAIN Names \ {n} :
          /\ Unreadable(m) => Unreadable(m)'
          /\ Misnamed(m) => Misnamed(m)'
    BY <2>2, <2>3, <2>5 DEF Unreadable, Misnamed
  <2>7. QED
    BY <2>3, <2>4, <2>5, <2>6 DEF SlipsShow
<1>3. ASSUME NEW n \in DOMAIN Names, MistypeValue(n) PROVE SlipsShow'
  <2>1. /\ labels' = [labels EXCEPT ![n] = "?"] /\ meant' = meant
        /\ labels[n] = meant[n] /\ labels[n] # Absent /\ n \in HasFormat
        /\ slips' = slips \cup {IF n \in ContainerSwitch THEN "enable" ELSE "value"}
    BY <1>3 DEF MistypeValue, Change
  <2>2. \A m \in DOMAIN Names \ {n} : labels'[m] = labels[m]
    BY <2>1
  <2>3. Unreadable(n)'
    BY <2>1 DEF Unreadable
  <2>4. \A m \in DOMAIN Names : Stray(m) => m # n /\ Stray(m)'
    BY <2>1, <2>2 DEF Stray
  <2>5. \A m \in DOMAIN Names \ {n} :
          /\ Unreadable(m) => Unreadable(m)'
          /\ Misnamed(m) => Misnamed(m)'
    BY <2>1, <2>2, <2>4 DEF Unreadable, Misnamed
  <2>6. QED
    BY <2>1, <2>2, <2>3, <2>4, <2>5 DEF SlipsShow
<1>4. ASSUME NEW n \in DOMAIN Names, MistypeName(n) PROVE SlipsShow'
  <2>1. PICK s \in Misspelt :
          /\ s[1] = n /\ labels[s[2]] = Absent
          /\ labels' = [[labels EXCEPT ![n] = Absent] EXCEPT ![s[2]] = labels[n]]
          /\ slips' = slips \cup {s[3]}
    BY <1>4 DEF MistypeName, Change
  <2>2. labels[n] = meant[n] /\ labels[n] # Absent /\ meant' = meant
    BY <1>4 DEF MistypeName
  <2> DEFINE k == s[2]
  <2>3. /\ k \in UnknownNames \cup Malformed /\ s[3] \in {"field", "segment"}
        /\ s[3] = "field" => {n, k} \subseteq Definitions /\ entryKey[n] = entryKey[k]
    BY <2>1, VocabularyAssumption
  <2> HIDE DEF k
  <2>4. labels' = [[labels EXCEPT ![n] = Absent] EXCEPT ![k] = labels[n]] /\ labels[k] = Absent
    BY <2>1 DEF k
  <2>5. k # n /\ k \in DOMAIN Names
    BY <1>1, <2>2, <2>3, <2>4
  <2>6. /\ labels'[k] = labels[n] /\ labels'[n] = Absent
        /\ \A m \in DOMAIN Names \ {n, k} : labels'[m] = labels[m]
    BY <2>4, <2>5
  <2>7. \A m \in DOMAIN Names : Stray(m) => m \notin {n, k} /\ Stray(m)'
    BY <2>2, <2>4, <2>6 DEF Stray
  <2>8. "segment" \notin slips' => "segment" \notin slips /\ s[3] = "field"
    BY <2>1, <2>3
  <2>9. \A m \in DOMAIN Names \ {n, k} :
          /\ Unreadable(m) => Unreadable(m)'
          /\ Misnamed(m) => Misnamed(m)'
    <3> TAKE m \in DOMAIN Names \ {n, k}
    <3>1. Unreadable(m) => Unreadable(m)'
      BY <2>1, <2>2, <2>6 DEF Unreadable
    <3>2. Misnamed(m) => Misnamed(m)'
      BY <2>2, <2>6, <2>7, <2>8 DEF Misnamed
    <3>3. QED
      BY <3>1, <3>2
  <2>10. labels'[k] = meant'[k] \/ Stray(k)'
    BY <2>2, <2>3, <2>6 DEF Stray
  <2>11. Misnamed(n)'
    <3>1. CASE meant[k] # labels[n]
      <4>1. Stray(k)'
        BY <2>2, <2>3, <2>6, <3>1 DEF Stray
      <4>2. QED
        BY <2>2, <2>3, <2>5, <2>6, <2>8, <4>1 DEF Misnamed
    <3>2. CASE meant[k] = labels[n]
      <4>1. labels[k] # meant[k] /\ labels[k] # "?"
        BY <2>2, <2>4, <3>2, NamesAssumption
      <4>2. Misnamed(k)
        BY <2>4, <2>5, <4>1 DEF SlipsShow, Unreadable, Stray
      <4>3. PICK m \in DOMAIN Names :
              /\ Stray(m)
              /\ "segment" \notin slips => /\ {k, m} \subseteq Definitions
                                           /\ entryKey[m] = entryKey[k]
        BY <4>2 DEF Misnamed
      <4>4. QED
        BY <2>2, <2>3, <2>6, <2>7, <2>8, <4>3 DEF Misnamed
    <3>3. QED
      BY <3>1, <3>2
  <2>12. QED
    BY <2>2, <2>6, <2>7, <2>9, <2>10, <2>11 DEF SlipsShow
<1>5. ASSUME labels' = meant' PROVE SlipsShow'
  BY <1>5 DEF SlipsShow
<1>6. ASSUME labels' = labels, meant' = meant, slips' = slips PROVE SlipsShow'
  BY <1>6 DEF SlipsShow, Unreadable, Misnamed, Stray
<1>7. CASE (\E n \in DOMAIN Names : Respell(n)) \/ Mend
  <2>1. labels' = meant'
    BY <1>7 DEF Respell, Mend
  <2>2. QED
    BY <1>5, <2>1
<1>8. CASE Stop \/ Start \/ CrashLoop \/ Connect \/ Reconcile \/ UNCHANGED vars
  <2>1. labels' = labels /\ meant' = meant /\ slips' = slips
    BY <1>8 DEF Stop, Start, CrashLoop, Connect, Reconcile, Environment, vars
  <2>2. QED
    BY <1>6, <2>1
<1>9. QED
  BY <1>2, <1>3, <1>4, <1>7, <1>8 DEF Next

\* LInv is an invariant.
LEMMA LInvAlways == Spec => []LInv
<1>1. LInv /\ [Next]_vars => Labelled' /\ (opts \in Settings)'
  BY DEF LInv, Labelled, Next, vars, Edit, MistypeValue, MistypeName, Respell, Mend, Stop,
         Start, CrashLoop, Connect, Reconcile, Change, Changing, Environment
<1>2. LInv /\ [Next]_vars => LInv'
  BY <1>1, UnrivalledStep, SlipsShowStep DEF LInv
<1>3. QED
  BY <1>2, LInvInit, PTL DEF Spec

\* A label that is read is meant.
LEMMA CarriedIsMeant ==
  ASSUME LInv, NEW n \in DOMAIN Names \ (UnknownNames \cup Malformed), labels[n] # Absent
  PROVE  meant[n] # Absent
  BY DEF LInv, SlipsShow, Unreadable, Misnamed, Stray

\* No two labels of the container switch the same index.
OneSwitchNow == OneSwitch(Container(labels, state))

\* One label at most switches an index, so the order in which Go's map yields them
\* makes no difference.
LEMMA OneSwitchAlways == LInv => OneSwitchNow
<1> SUFFICES ASSUME LInv, NEW n \in IndexSwitch, NEW m \in IndexSwitch,
                    labels[n] # Absent, labels[m] # Absent,
                    Split[n].index = Split[m].index, n # m
             PROVE  FALSE
  BY DEF OneSwitchNow, OneSwitch, Carried, Container
<1>1. \A k \in IndexSwitch : k \in DOMAIN Names \ (UnknownNames \cup Malformed)
  <2>1. IndexSwitch \cap Malformed = {}
    <3>1. <<"enable">> # <<>>
      OBVIOUS
    <3>2. QED
      BY <3>1 DEF IndexSwitch, Malformed
  <2>2. IndexSwitch \subseteq DOMAIN Names /\ IndexSwitch \cap UnknownNames = {}
    BY DEF IndexSwitch, UnknownNames, Definitions
  <2>3. QED
    BY <2>1, <2>2
<1>2. meant[n] # Absent /\ meant[m] # Absent
  BY <1>1, CarriedIsMeant
<1>3. QED
  BY <1>1, <1>2 DEF LInv, Unrivalled, SetTheSame

\* The same switches switch off the same.
LEMMA SwitchesDecide ==
  ASSUME NEW c, NEW d, \A n \in IndexSwitch : c.labels[n] = d.labels[n]
  PROVE  disabled(c) = disabled(d)
<1> DEFINE switches(x, i) == {m \in Carried(x, IndexSwitch) :
                                Split[m].index = i /\ x.labels[m] \in Bools}
<1>1. \A i : switches(c, i) = switches(d, i)
  BY DEF Carried
<1>2. \A i : switches(c, i) # {} => Max(switches(c, i)) \in IndexSwitch
  <2> TAKE i
  <2>1. switches(c, i) \subseteq IndexSwitch
    BY DEF Carried
  <2>2. IndexSwitch \subseteq DOMAIN Names
    BY DEF IndexSwitch
  <2> HIDE DEF switches
  <2>3. QED
    BY <2>1, <2>2, NamesFinite
<1>3. \A x : disabled(x) = {i \in {Split[m].index : m \in IndexSwitch} :
               switches(x, i) # {} /\ ~ParseBool(x.labels[Max(switches(x, i))])}
  BY DEF disabled
<1> HIDE DEF switches
<1>4. \A i : switches(c, i) # {} =>
        ParseBool(c.labels[Max(switches(c, i))]) = ParseBool(d.labels[Max(switches(d, i))])
  BY <1>1, <1>2
<1>5. QED
  BY <1>1, <1>3, <1>4

\* The field sets of a definition, as it is labelled and as it was meant.
LEMMA SlipsBlur ==
  ASSUME NEW c, NEW d, NEW o, SameSurroundings(c, d),
         UnknownLabels(c) = {}, LabelErrors(c) = {},
         \A n \in DOMAIN Names :
            \/ c.labels[n] = d.labels[n]
            \/ c.labels[n] = "?" /\ d.labels[n] # Absent /\ n \in HasFormat \ ContainerSwitch
  PROVE  /\ Built(c, o) = Built(d, o)
         /\ \A key \in Built(c, o) : Blurred(FieldSet(c, o, key), FieldSet(d, o, key))
<1>1. /\ Definitions \subseteq DOMAIN Names /\ IndexSwitch \subseteq DOMAIN Names
      /\ UnknownNames \subseteq Definitions /\ Inverted \subseteq Definitions
  BY DEF Definitions, IndexSwitch, UnknownNames, Inverted
<1>2. \A names \in SUBSET DOMAIN Names : Carried(c, names) = Carried(d, names)
  BY NamesAssumption DEF Carried
<1>3. \A n \in IndexSwitch \cup Inverted : c.labels[n] = d.labels[n]
  <2> SUFFICES ASSUME NEW n \in IndexSwitch \cup Inverted, c.labels[n] # d.labels[n]
               PROVE  FALSE
    OBVIOUS
  <2>1. c.labels[n] = "?"
    BY <1>1
  <2>2. n \in LabelErrors(c)
    BY <2>1, NamesAssumption DEF LabelErrors, Carried, Bools
  <2>3. QED
    BY <2>2
<1>4. groups(c) = groups(d)
  BY <1>1, <1>2 DEF groups
<1>5. UnknownLabels(c) = UnknownLabels(d)
  BY <1>1, <1>2 DEF UnknownLabels
<1>6. disabled(c) = disabled(d)
  BY <1>3, SwitchesDecide
<1>7. Built(c, o) = Built(d, o)
  BY <1>4, <1>5, <1>6 DEF Built, tainted
<1>8. ASSUME NEW key \in Built(c, o)
      PROVE  Blurred(FieldSet(c, o, key), FieldSet(d, o, key))
  <2> DEFINE given(x, s) == {m \in Carried(x, Setters[key][s]) :
                               m \in Inverted => x.labels[m] \in Bools}
             value(x, m) == IF m \in Inverted THEN Negated(x.labels[m]) ELSE x.labels[m]
             set(x) == {s \in DOMAIN Setters[key] : given(x, s) # {}}
  <2>1. key \in {entryKey[m] : m \in Definitions}
    BY <1>8 DEF Built, groups, Carried
  <2>2. \A s \in DOMAIN Setters[key] : \A m \in Setters[key][s] :
          m \in Definitions \ UnknownNames /\ entryKey[m] = key /\ Slot[m] = s
    BY <2>1 DEF Setters
  <2>3. \A s \in DOMAIN Setters[key] : given(c, s) = given(d, s)
    <3> TAKE s \in DOMAIN Setters[key]
    <3>1. Setters[key][s] \subseteq DOMAIN Names
      BY <1>1, <2>2
    <3>2. Carried(c, Setters[key][s]) = Carried(d, Setters[key][s])
      BY <1>2, <3>1
    <3>3. QED
      BY <1>3, <3>2
  <2>4. \A s \in set(c) : Max(given(c, s)) \in Setters[key][s]
    <3> TAKE s \in set(c)
    <3>1. given(c, s) \subseteq Setters[key][s] /\ given(c, s) # {}
      BY DEF Carried
    <3>2. Setters[key][s] \subseteq DOMAIN Names
      BY <1>1, <2>2
    <3> HIDE DEF given
    <3>3. QED
      BY <3>1, <3>2, NamesFinite
  <2>5. \A x : fieldSet(x, key) = [s \in set(x) |-> value(x, Max(given(x, s)))]
    BY DEF fieldSet
  <2>6. set(c) = set(d)
    BY <2>3
  <2>7. ASSUME NEW s \in set(c), value(c, Max(given(c, s))) # value(d, Max(given(d, s)))
        PROVE  /\ value(c, Max(given(c, s))) = "?"
               /\ "?" \notin Readable(key.kind, s.name)
               /\ s.name = "path" => [block |-> s.block, name |-> "type"] \notin set(c)
    <3> DEFINE m == Max(given(c, s))
    <3>1. m = Max(given(d, s))
      BY <2>3
    <3>2. m \in Definitions \ UnknownNames /\ entryKey[m] = key /\ Slot[m] = s
      BY <2>2, <2>4
    <3> HIDE DEF m, given
    <3>3. c.labels[m] # d.labels[m]
      BY <2>7, <3>1 DEF m
    <3>4. m \notin Inverted /\ m \notin IndexSwitch /\ m \notin ContainerSwitch
      BY <1>3, <3>2, <3>3 DEF Definitions
    <3>5. c.labels[m] = "?" /\ m \in HasFormat
      BY <1>1, <3>2, <3>3
    <3>6. "?" \notin Readable(Split[m].kind, Slot[m].name) /\ ~AnyPath(m)
      BY <3>4, <3>5 DEF HasFormat
    <3>7. Split[m].kind = key.kind
      BY <1>1, <3>2 DEF entryKey
    <3>8. s.name = "path" => [block |-> s.block, name |-> "type"] \notin set(c)
      <4> DEFINE type == [block |-> s.block, name |-> "type"]
      <4>1. SUFFICES ASSUME s.name = "path", type \in set(c) PROVE FALSE
        OBVIOUS
      <4>2. Max(given(c, type)) \in Setters[key][type] /\ type \in DOMAIN Setters[key]
        BY <2>4, <4>1
      <4>3. PICK k \in Definitions : entryKey[k] = key /\ Slot[k] = type
        BY <2>2, <4>2
      <4>4. AnyPath(m)
        BY <3>2, <4>1, <4>3 DEF AnyPath
      <4>5. QED
        BY <3>6, <4>4
    <3>9. value(c, m) = "?"
      BY <3>4, <3>5
    <3>10. QED
      BY <3>2, <3>6, <3>7, <3>8, <3>9 DEF m
  <2> DEFINE f == FieldSet(c, o, key)
             g == FieldSet(d, o, key)
  <2>8. /\ f.kind = key.kind /\ g.kind = key.kind /\ f.index = key.index /\ g.index = key.index
        /\ f.defaults = o.defaults /\ g.defaults = o.defaults
        /\ f.values = fieldSet(c, key) /\ g.values = fieldSet(d, key)
    BY DEF FieldSet
  <2> HIDE DEF f, g, set, value, given
  <2>9. DOMAIN f.values = set(c) /\ DOMAIN g.values = set(c)
    BY <2>5, <2>6, <2>8
  <2>10. \A s \in set(c) : /\ f.values[s] = value(c, Max(given(c, s)))
                           /\ g.values[s] = value(d, Max(given(d, s)))
    BY <2>5, <2>6, <2>8
  <2>11. Blurred(f, g)
    BY <2>7, <2>8, <2>9, <2>10 DEF Blurred
  <2>12. QED
    BY <2>11 DEF f, g
<1>9. QED
  BY <1>7, <1>8

\* A scan that reports nothing met no stray label, no switch and no field it could not
\* read: what it found is what was meant.
LEMMA SlipsSay ==
  ASSUME LInv
  PROVE  NoSilentChange
<1> SUFFICES ASSUME NEW managed \in Answers(labels, state),
                    NEW scan \in ScanWith(labels, state, Options, {managed}),
                    NEW ideal \in ScanWith(meant, state, Options, {managed}),
                    "enable" \notin slips, scan.targets # ideal.targets,
                    ~scan.reported
             PROVE  FALSE
  BY DEF NoSilentChange
<1> DEFINE C == Container(labels, state)
           D == Container(meant, state)
           o == Options
           found(c) == IF managed THEN Results(c, o) ELSE {}
<1>1. scan = Scan(C, o, managed, found(C)) /\ ideal = Scan(D, o, managed, found(D))
  BY DEF ScanWith, Scans
<1>2. managed
  BY <1>1 DEF Scan
<1>3. UnknownLabels(C) = {} /\ LabelErrors(C) = {} /\ Error \notin Results(C, o)
  BY <1>1, <1>2 DEF Scan
<1>4. C.labels = labels /\ D.labels = meant /\ SameSurroundings(C, D)
  BY DEF Container, SameSurroundings
<1>5. \A m : ~Stray(m)
  BY <1>3, <1>4 DEF Stray, UnknownLabels, LabelErrors, Carried
<1>6. \A n \in DOMAIN Names :
        \/ C.labels[n] = D.labels[n]
        \/ C.labels[n] = "?" /\ D.labels[n] # Absent /\ n \in HasFormat \ ContainerSwitch
  BY <1>4, <1>5 DEF LInv, SlipsShow, Unreadable, Misnamed
<1> HIDE DEF C, D, o
<1>7. /\ Built(C, o) = Built(D, o)
      /\ \A key \in Built(C, o) : Blurred(FieldSet(C, o, key), FieldSet(D, o, key))
  BY <1>3, <1>4, <1>6, SlipsBlur
<1>8. \A key \in Built(C, o) : FieldSet(C, o, key).kind \in KindNames
  <2>1. \A key \in Built(C, o) : \E n \in DOMAIN Names : key = entryKey[n]
    BY DEF Built, groups, Carried, Definitions
  <2>2. \A n \in DOMAIN Names : entryKey[n].kind \in KindNames
    BY NamesAssumption, KindIsKnown DEF entryKey, Split
  <2>3. QED
    BY <2>1, <2>2 DEF FieldSet
<1>9. \A key \in Built(C, o) :
        buildTarget(D, o, FieldSet(D, o, key)) = buildTarget(C, o, FieldSet(C, o, key))
  <2> TAKE key \in Built(C, o)
  <2>1. buildTarget(C, o, FieldSet(C, o, key)) # Error
    BY <1>3 DEF Results
  <2>2. buildTarget(C, o, FieldSet(D, o, key)) = buildTarget(C, o, FieldSet(C, o, key))
    BY <1>7, <1>8, <2>1, BlurredTarget
  <2>3. QED
    BY <1>4, <2>2, BuiltTheSame
<1>10. Results(C, o) = Results(D, o)
  BY <1>7, <1>9 DEF Results
<1>11. QED
  BY <1>1, <1>10 DEF Scan

\* When a slip changes what a managed container asks for, the run says so (Scan).
THEOREM SlipsAreReported == Spec => []NoSilentChange
  BY LInvAlways, SlipsSay, PTL

\* One broken definition does not take the valid ones of the container with it (Parse
\* builds each from its own labels).
THEOREM OthersStay == Spec => OthersUnaffected
<1> DEFINE Step == \A n \in HasFormat \ ContainerSwitch :
       labels[n] # "?" /\ labels' = Change(n, "?") =>
         {t \in Asked(labels, state) : [kind |-> t.kind, index |-> t.index] # entryKey[n]}
         \subseteq Asked(labels', state)
<1>1. LInv /\ OneSwitchNow' => Step
  <2> SUFFICES ASSUME LInv, OneSwitchNow', NEW n \in HasFormat \ ContainerSwitch,
                      labels' = Change(n, "?"),
                      NEW t \in Asked(labels, state),
                      [kind |-> t.kind, index |-> t.index] # entryKey[n]
               PROVE  t \in Asked(labels', state)
    OBVIOUS
  <2> DEFINE C == Container(labels, state)
             D == Container(labels', state)
             o == Options
  <2>1. n \in DOMAIN Names
    BY DEF HasFormat, IndexSwitch, Definitions
  <2>2. Blotted(C, D, n)
    BY <2>1 DEF Blotted, SameSurroundings, Container, Change, LInv, Labelled
  <2> HIDE DEF Step
  <2>8. OneSwitch(D)
    BY DEF OneSwitchNow, OneSwitch, Carried, Container
  <2>3. PICK managed \in Managed(C, o) : managed /\ t \in Targets(Results(C, o))
    <3>1. PICK scan \in ScanWith(labels, state, o, Answers(labels, state)) : t \in scan.targets
      BY DEF Asked
    <3>2. PICK managed \in Managed(C, o) :
            scan = Scan(C, o, managed, IF managed THEN Results(C, o) ELSE {})
      BY <3>1 DEF ScanWith, Answers, Scans
    <3>3. scan.targets = Targets(IF managed THEN Results(C, o) ELSE {})
      BY <3>2 DEF Scan
    <3>4. QED
      BY <3>1, <3>2, <3>3 DEF Targets
  <2>4. t \in Targets(Results(D, o))
    BY <2>2, <2>3, <2>8, OthersAreBuilt
  <2>5. PICK again \in Managed(D, o) : again
    <3>1. ContainerSwitch \subseteq DOMAIN Names \ {n}
      BY DEF ContainerSwitch
    <3>2. lookupEnable(D) = lookupEnable(C)
      BY <2>2, <3>1 DEF lookupEnable, Carried, Blotted
    <3>3. hasFieldLabel(C) => hasFieldLabel(D)
      <4>1. Definitions \cup IndexSwitch \subseteq DOMAIN Names
        BY DEF Definitions, IndexSwitch
      <4>2. \A m \in DOMAIN Names : C.labels[m] # Absent => D.labels[m] # Absent
        BY <2>2, NamesAssumption DEF Blotted
      <4>3. QED
        BY <4>1, <4>2 DEF hasFieldLabel, Carried
    <3>4. CASE lookupEnable(C) # {}
      BY <2>3, <3>2, <3>4 DEF Managed
    <3>5. CASE lookupEnable(C) = {}
      BY <2>3, <3>2, <3>3, <3>5 DEF Managed
    <3>6. QED
      BY <3>4, <3>5
  <2>6. QED
    <3> DEFINE scan == Scan(D, o, again, Results(D, o))
    <3>1. again \in Answers(labels', state)
      BY DEF Answers
    <3>2. scan \in Scans(D, o, again)
      BY <2>5 DEF Scans
    <3>3. scan \in ScanWith(labels', state, o, Answers(labels', state))
      BY <3>1, <3>2 DEF ScanWith
    <3>4. scan.targets = Targets(Results(D, o))
      BY DEF Scan
    <3>5. QED
      BY <2>4, <3>3, <3>4 DEF Asked
<1>2. LInv /\ OneSwitchNow' /\ [Next]_vars => [Step]_labels
  BY <1>1
<1>3. QED
  BY <1>2, LInvAlways, OneSwitchAlways, PTL DEF Spec, OthersUnaffected

-------------------------------------------------------------------------------
(* The hosts a container is meant to have. *)

\* The field that names the host.
IdentityField(kind) == IF kind = "stream" THEN "incoming_port" ELSE "domains"

\* The environment has no default for the field that names a host.  With one, a label
\* whose name is mistyped leaves the definition with the domain of the default and a
\* warning, and nothing protects the host it was meant for.
IdentityIsLabelled ==
  \A o \in Settings : \A kind \in KindNames :
    Value(DefaultsOf[o], kind, IdentityField(kind)) = Unset

\* The key of a target is the field that names the host, read and not empty.
LEMMA TargetKey ==
  ASSUME NEW c, NEW o, NEW f, f.kind \in KindNames, buildTarget(c, o, f) # Error
  PROVE  /\ buildTarget(c, o, f)["kind"] = f.kind
         /\ buildTarget(c, o, f)["key"] = string(f, IdentityField(f.kind))
         /\ Reads(f, IdentityField(f.kind)) /\ string(f, IdentityField(f.kind)) # Unset
<1>1. CASE f.kind = "proxy"
  BY <1>1, ProxyIsTarget DEF buildTarget, TargetOf, ProxyFails, DomainsFail, IdentityField
<1>2. CASE f.kind = "redirect"
  <2>1. buildTarget(c, o, f) = buildRedirect(f) /\ buildRedirect(f) # Error
    BY <1>2 DEF buildTarget
  <2>2. ~DomainsFail(f)
    BY <2>1 DEF buildRedirect
  <2>3. QED
    BY <1>2, <2>1, <2>2, RedirectIsTarget DEF TargetOf, DomainsFail, IdentityField
<1>3. CASE f.kind = "stream"
  BY <1>3, StreamIsTarget DEF buildTarget, TargetOf, StreamFails, IdentityField
<1>4. CASE f.kind = "dead"
  <2>1. buildTarget(c, o, f) = buildDead(f) /\ buildDead(f) # Error
    BY <1>4 DEF buildTarget
  <2>2. ~DomainsFail(f)
    BY <2>1 DEF buildDead
  <2>3. QED
    BY <1>4, <2>1, <2>2, DeadIsTarget DEF TargetOf, DomainsFail, IdentityField
<1>5. QED
  BY <1>1, <1>2, <1>3, <1>4 DEF KindNames

\* The switch of the container has a field: no kind and no index is called enable.
LEMMA EnableIsNotMalformed == ContainerSwitch \cap Malformed = {}
<1>0. \A m \in DOMAIN Names : Names[m] \in Seq(STRING)
  BY NamesAssumption
<1> SUFFICES ASSUME NEW n \in DOMAIN Names, Names[n] = <<"enable">>
             PROVE  Split[n].field # <<>>
  BY DEF ContainerSwitch, Malformed
<1> DEFINE tokens == <<"enable">>
<1>1. "enable" \notin DOMAIN kindAliases /\ "enable" \notin DOMAIN Number
  BY DEF kindAliases, Number, KindNames
<1>2. Head(tokens) = "enable" /\ Len(tokens) = 1 /\ tokens \in Seq(STRING)
  <2>1. tokens \in Seq(STRING)
    <3>1. Names[n] \in Seq(STRING)
      BY ONLY <1>0, n \in DOMAIN Names
    <3>2. Names[n] = tokens
      OBVIOUS
    <3> HIDE DEF tokens
    <3>3. QED
      BY <3>1, <3>2
  <2>2. Len(tokens) = 1
    OBVIOUS
  <2>3. Head(tokens) = "enable"
    OBVIOUS
  <2>4. QED
    BY <2>1, <2>2, <2>3
<1> HIDE DEF tokens
<1>3. splitLabel(tokens).field = SubSeq(tokens, 1, Len(tokens))
  BY <1>1, <1>2 DEF splitLabel
<1>4. Len(SubSeq(tokens, 1, Len(tokens))) = 1
  BY <1>2
<1>5. Split[n].field = splitLabel(tokens).field
  BY DEF Split, tokens
<1>6. QED
  BY <1>3, <1>4, <1>5

\* A switch is no field, and the name of neither is malformed.
LEMMA SwitchesAreApart ==
  /\ (ContainerSwitch \cup IndexSwitch) \cap (UnknownNames \cup Malformed) = {}
  /\ (ContainerSwitch \cup IndexSwitch) \cap Definitions = {}
  /\ Definitions \cap Malformed = {}
<1>1. <<"enable">> # <<>>
  OBVIOUS
<1>2. IndexSwitch \cap Malformed = {}
  BY <1>1 DEF IndexSwitch, Malformed
<1>3. QED
  BY <1>2, EnableIsNotMalformed DEF Definitions, UnknownNames

\* With slips in values and field names only, a container that is meant to be managed
\* is: its switch is what was meant, and it still has a label of a field.
LEMMA ManagedStays ==
  ASSUME LInv, slips \subseteq {"value", "field"},
         NEW wanted \in Managed(Container(meant, "running"), Options), wanted,
         NEW managed \in Managed(Container(labels, state), Options)
  PROVE  managed
<1> DEFINE C == Container(labels, state)
           D == Container(meant, "running")
<1>1. C.labels = labels /\ D.labels = meant
  BY DEF Container
<1>2. \A n \in ContainerSwitch : labels[n] = meant[n]
  <2>1. ContainerSwitch \subseteq DOMAIN Names
    BY DEF ContainerSwitch
  <2>2. QED
    BY <2>1, SwitchesAreApart DEF LInv, SlipsShow, Unreadable, Misnamed, Stray
<1>3. lookupEnable(C) = lookupEnable(D)
  BY <1>1, <1>2 DEF lookupEnable, Carried
<1>4. CASE lookupEnable(D) # {}
  <2>1. \A u, v \in lookupEnable(D) : u = v
    <3> SUFFICES ASSUME NEW n \in Carried(D, ContainerSwitch),
                        NEW m \in Carried(D, ContainerSwitch)
                 PROVE  n = m
      BY DEF lookupEnable
    <3>1. n \in DOMAIN Names /\ m \in DOMAIN Names /\ SetTheSame(n, m)
      BY DEF Carried, ContainerSwitch, SetTheSame
    <3>2. QED
      BY <1>1, <3>1 DEF LInv, Unrivalled, Carried
  <2>2. QED
    BY <1>3, <1>4, <2>1 DEF Managed
<1>5. CASE lookupEnable(D) = {}
  <2>1. wanted = (Options.exposedByDefault /\ hasFieldLabel(D))
    BY <1>5 DEF Managed
  <2>2. managed = (Options.exposedByDefault /\ hasFieldLabel(C))
    BY <1>3, <1>5 DEF Managed
  <2>3. PICK n \in Definitions \cup IndexSwitch : meant[n] # Absent
    BY <1>1, <2>1 DEF hasFieldLabel, Carried
  <2>4. n \in DOMAIN Names
    BY DEF Definitions, IndexSwitch
  <2>5. \E m \in Definitions \cup IndexSwitch : labels[m] # Absent
    BY <2>3, <2>4, NamesAssumption DEF LInv, SlipsShow, Unreadable, Misnamed, Stray
  <2>6. hasFieldLabel(C)
    BY <1>1, <2>5 DEF hasFieldLabel, Carried
  <2>7. QED
    BY <2>1, <2>2, <2>6
<1>6. QED
  BY <1>4, <1>5

\* A definition that is meant is built, unless the scan protects the container: none of
\* its labels left it, and no switch went off.
LEMMA WantedIsBuilt ==
  ASSUME LInv, slips \subseteq {"value", "field"},
         LabelErrors(Container(labels, state)) = {},
         ~Skipped(Container(labels, state), Options),
         NEW key \in Built(Container(meant, "running"), Options)
  PROVE  key \in Built(Container(labels, state), Options)
<1> DEFINE C == Container(labels, state)
           D == Container(meant, "running")
<1>1. C.labels = labels /\ D.labels = meant
  BY DEF Container
<1>2. \A n \in IndexSwitch : C.labels[n] = D.labels[n]
  <2> SUFFICES ASSUME NEW n \in IndexSwitch, labels[n] # meant[n] PROVE FALSE
    BY <1>1
  <2>1. n \in DOMAIN Names
    BY DEF IndexSwitch
  <2>2. labels[n] = "?"
    BY <2>1, SwitchesAreApart DEF LInv, SlipsShow, Unreadable, Misnamed, Stray
  <2>3. n \in LabelErrors(C)
    BY <1>1, <2>2, NamesAssumption DEF LabelErrors, Carried, Bools
  <2>4. QED
    BY <2>3
<1>3. disabled(C) = disabled(D)
  BY <1>2, SwitchesDecide
<1>4. key \in groups(D) /\ key.index \notin disabled(C)
  BY <1>3 DEF Built
<1>5. PICK n \in Definitions : meant[n] # Absent /\ key = entryKey[n]
  BY <1>1, <1>4 DEF groups, Carried
<1>6. n \in DOMAIN Names
  BY DEF Definitions
<1>7. \E m \in Definitions : labels[m] # Absent /\ entryKey[m] = key
  BY <1>5, <1>6, NamesAssumption DEF LInv, SlipsShow, Unreadable, Misnamed, Stray
<1>8. key \in groups(C)
  BY <1>1, <1>7 DEF groups, Carried
<1>9. QED
  BY <1>4, <1>8 DEF Built, Skipped

\* A definition that has a name at all has the one it was meant to have: the label that
\* sets it is the one that was meant, and its reader accepts no other text.
LEMMA IdentityAgrees ==
  ASSUME LInv, IdentityIsLabelled, slips \subseteq {"value", "field"},
         LabelErrors(Container(labels, state)) = {},
         NEW key \in Built(Container(meant, "running"), Options), key.kind \in KindNames,
         NEW f, f = FieldSet(Container(labels, state), Options, key),
         NEW g, g = FieldSet(Container(meant, "running"), Options, key),
         NEW name, name = IdentityField(key.kind),
         Reads(f, name), string(f, name) # Unset
  PROVE  string(f, name) = string(g, name)
<1> DEFINE C == Container(labels, state)
           D == Container(meant, "running")
           slot == [block |-> Unset, name |-> name]
           S == Setters[key][slot]
           given(x, s) == {m \in Carried(x, Setters[key][s]) :
                             m \in Inverted => x.labels[m] \in Bools}
           value(x, m) == IF m \in Inverted THEN Negated(x.labels[m]) ELSE x.labels[m]
           set(x) == {s \in DOMAIN Setters[key] : given(x, s) # {}}
<1>1. C.labels = labels /\ D.labels = meant
  BY DEF Container
<1>2. key \in {entryKey[m] : m \in Definitions}
  BY DEF Built, groups, Carried
<1>3. \A s \in DOMAIN Setters[key] : \A m \in Setters[key][s] :
        m \in Definitions \ UnknownNames /\ entryKey[m] = key /\ Slot[m] = s
  BY <1>2 DEF Setters
<1>4. \A x : fieldSet(x, key) = [s \in set(x) |-> value(x, Max(given(x, s)))]
  BY DEF fieldSet
<1>5. /\ f.kind = key.kind /\ g.kind = key.kind
      /\ f.defaults = Options.defaults /\ g.defaults = Options.defaults
      /\ f.values = fieldSet(C, key) /\ g.values = fieldSet(D, key)
  BY DEF FieldSet
<1>6. Value(Options.defaults, key.kind, name) = Unset
  BY DEF LInv, IdentityIsLabelled, Options
<1>7. string(f, name) = raw(f, Unset, name) /\ raw(f, Unset, name) # Unset
  BY <1>5, <1>6 DEF string, has
<1>8. slot \in set(C) /\ raw(f, Unset, name) = value(C, Max(given(C, slot)))
  <2> HIDE DEF set, value, given
  <2>1. DOMAIN f.values = set(C)
        /\ \A s \in set(C) : f.values[s] = value(C, Max(given(C, s)))
    BY <1>4, <1>5
  <2>2. QED
    BY <1>7, <2>1 DEF raw
<1>9. /\ S \subseteq DOMAIN Names \ (UnknownNames \cup Malformed)
      /\ \A n, m \in S : SetTheSame(n, m)
  <2>1. \A n \in S : n \in Definitions \ UnknownNames /\ entryKey[n] = key /\ Slot[n] = slot
    BY <1>3, <1>8
  <2>2. QED
    BY <2>1, SwitchesAreApart DEF SetTheSame, Definitions
<1>10. \A n \in S : labels[n] # Absent => meant[n] # Absent
  BY <1>9, CarriedIsMeant
<1>11. \A n, m \in S : meant[n] # Absent /\ meant[m] # Absent => n = m
  BY <1>9 DEF LInv, Unrivalled
<1>12. PICK n \in given(C, slot) : TRUE
  BY <1>8
<1>13. n \in S /\ labels[n] # Absent /\ meant[n] # Absent
  BY <1>1, <1>10, <1>12 DEF Carried
<1>14. given(C, slot) = {n} /\ given(D, slot) \subseteq {n}
  BY <1>1, <1>10, <1>11, <1>12, <1>13 DEF Carried
<1>15. \A T : T = {n} => Max(T) = n
  <2>1. Max({n}) \in {n}
    BY <1>9, <1>13, NamesFinite
  <2>2. QED
    BY <2>1
<1>16. raw(f, Unset, name) = value(C, n)
  <2> HIDE DEF given, value
  <2>1. QED
    BY <1>8, <1>14, <1>15
<1>17. labels[n] = meant[n]
  <2> SUFFICES ASSUME labels[n] # meant[n] PROVE FALSE
    OBVIOUS
  <2>1. labels[n] = "?"
    BY <1>9, <1>13 DEF LInv, SlipsShow, Unreadable, Misnamed, Stray
  <2>2. n \notin Inverted
    <3> SUFFICES ASSUME n \in Inverted PROVE FALSE
      OBVIOUS
    <3>1. n \in LabelErrors(C)
      BY <1>1, <1>13, <2>1 DEF LabelErrors, Carried, Bools
    <3>2. QED
      BY <3>1
  <2>3. string(f, name) = "?"
    BY <1>1, <1>7, <1>16, <2>1, <2>2
  <2>4. "?" \notin Readable(f.kind, name) \cup {Unset}
    BY DEF IdentityField, Readable, BoolFields, Ports, Automatic, Unset
  <2>5. QED
    BY <2>3, <2>4 DEF Reads
<1>18. given(D, slot) = {n}
  BY <1>1, <1>12, <1>13, <1>14, <1>17 DEF Carried
<1>19. slot \in set(D)
  BY <1>8, <1>18
<1>20. raw(g, Unset, name) = value(D, n)
  <2> HIDE DEF set, value, given
  <2>1. g.values[slot] = value(D, Max(given(D, slot))) /\ slot \in DOMAIN g.values
    BY <1>4, <1>5, <1>19
  <2>2. QED
    BY <1>15, <1>18, <2>1 DEF raw
<1>21. raw(g, Unset, name) = raw(f, Unset, name)
  BY <1>1, <1>16, <1>17, <1>20
<1>22. QED
  BY <1>7, <1>21 DEF string, has

\* A value that cannot be read or a field name that does not exist never costs a host
\* (the protection of Scan): a run that deletes protects nothing, so it found no error,
\* skipped nothing, and built every definition under the name it was meant to have.
THEOREM ProtectionHolds ==
  ASSUME IdentityIsLabelled
  PROVE  Spec => UnreadableKeepsHosts
<1> DEFINE Step == slips \subseteq {"value", "field"} => (hosts \cap Wanted) \subseteq hosts'
<1>1. LInv /\ Reconcile => Step
  <2> SUFFICES ASSUME LInv, Reconcile, slips \subseteq {"value", "field"},
                      NEW k \in hosts, k \in Wanted
               PROVE  k \in hosts'
    OBVIOUS
  <2> DEFINE C == Container(labels, state)
             D == Container(meant, "running")
             o == Options
  <2>1. PICK scan \in ScanWith(labels, state, o, Answers(labels, state)) :
          /\ Keys(scan.targets) \cap hosts \subseteq hosts'
          /\ scan.protected => hosts \subseteq hosts'
    <3>1. ~(opts.onStop = "delete" /\ Stopped)
      BY DEF Wanted
    <3>2. \A targets, inGrace : applyStopPolicy(targets, inGrace) = targets
      BY <3>1 DEF applyStopPolicy
    <3>3. PICK scan \in ScanWith(labels, state, o, Answers(labels, state)) :
            \E inGrace :
              hosts' = {j \in Keys(scan.targets) :
                          \/ j \in hosts
                          \/ ~inGrace /\ \E t \in scan.targets : Key(t) = j /\ Complete(t)}
                       \cup (IF scan.protected THEN hosts ELSE {})
      BY <3>2 DEF Reconcile
    <3>4. QED
      BY <3>3
  <2>2. PICK managed \in Managed(C, o) :
          scan = Scan(C, o, managed, IF managed THEN Results(C, o) ELSE {})
    BY <2>1 DEF ScanWith, Answers, Scans
  <2>3. PICK t \in Asked(meant, "running") : Key(t) = k
    BY DEF Wanted, Keys
  <2>4. PICK wanted \in Managed(D, o) :
          wanted /\ t \in Targets(Results(D, o))
    <3>1. PICK ideal \in ScanWith(meant, "running", o, Answers(meant, "running")) :
            t \in ideal.targets
      BY DEF Asked
    <3>2. PICK wanted \in Managed(D, o) :
            ideal = Scan(D, o, wanted, IF wanted THEN Results(D, o) ELSE {})
      BY <3>1 DEF ScanWith, Answers, Scans
    <3>3. ideal.targets = Targets(IF wanted THEN Results(D, o) ELSE {})
      BY <3>2 DEF Scan
    <3>4. QED
      BY <3>1, <3>2, <3>3 DEF Targets
  <2>5. managed
    BY <2>2, <2>4, ManagedStays
  <2>6. scan.targets = Targets(Results(C, o))
        /\ scan.protected = (LabelErrors(C) # {} \/ Error \in Results(C, o) \/ Skipped(C, o))
    BY <2>2, <2>5 DEF Scan, Protected
  <2>7. CASE scan.protected
    BY <2>1, <2>7
  <2>8. CASE ~scan.protected
    <3>1. PICK key \in Built(D, o) :
            t = buildTarget(D, o, FieldSet(D, o, key)) /\ t # Error
      BY <2>4 DEF Targets, Results
    <3>2. key.kind \in KindNames
      <4>1. \E n \in DOMAIN Names : key = entryKey[n]
        BY DEF Built, groups, Carried, Definitions
      <4>2. QED
        BY <4>1, NamesAssumption, KindIsKnown DEF entryKey, Split
    <3>3. key \in Built(C, o)
      BY <2>6, <2>8, WantedIsBuilt
    <3> DEFINE f == FieldSet(C, o, key)
               g == FieldSet(D, o, key)
               u == buildTarget(C, o, f)
    <3>4. u \in Results(C, o) /\ u # Error
      BY <2>6, <2>8, <3>3 DEF Results
    <3>5. f.kind = key.kind /\ g.kind = key.kind
      BY DEF FieldSet
    <3>6. /\ u["kind"] = key.kind /\ u["key"] = string(f, IdentityField(key.kind))
          /\ Reads(f, IdentityField(key.kind)) /\ string(f, IdentityField(key.kind)) # Unset
      BY <3>2, <3>4, <3>5, TargetKey
    <3>7. t["kind"] = key.kind /\ t["key"] = string(g, IdentityField(key.kind))
      BY <3>1, <3>2, <3>5, TargetKey
    <3>8. string(f, IdentityField(key.kind)) = string(g, IdentityField(key.kind))
      <4> DEFINE name == IdentityField(key.kind)
      <4>1. LabelErrors(C) = {}
        BY <2>6, <2>8
      <4>2. Reads(f, name) /\ string(f, name) # Unset
        BY <3>6
      <4> HIDE DEF name
      <4>3. \A ff, gg, nn :
              /\ ff = FieldSet(C, o, key) /\ gg = FieldSet(D, o, key)
              /\ nn = IdentityField(key.kind) /\ Reads(ff, nn) /\ string(ff, nn) # Unset
              => string(ff, nn) = string(gg, nn)
        BY <3>2, <4>1, IdentityAgrees
      <4>4. name = IdentityField(key.kind)
        BY DEF name
      <4>5. string(f, name) = string(g, name)
        BY <4>2, <4>3, <4>4
      <4>6. QED
        BY <4>4, <4>5
    <3> HIDE DEF u, f, g
    <3>9. Key(u) = k
      BY <2>3, <3>6, <3>7, <3>8 DEF Key
    <3>10. u \in scan.targets
      BY <2>6, <3>4 DEF Targets
    <3>11. QED
      BY <2>1, <3>9, <3>10 DEF Keys
  <2>9. QED
    BY <2>7, <2>8
<1>2. LInv /\ [Next]_vars => [Step]_hosts
  <2> SUFFICES ASSUME LInv, [Next]_vars, hosts' # hosts PROVE Step
    OBVIOUS
  <2>1. Reconcile
    BY DEF Next, vars, Edit, MistypeValue, MistypeName, Respell, Mend, Stop, Start,
           CrashLoop, Connect, Changing, Environment
  <2>2. QED
    BY <1>1, <2>1
<1>3. QED
  BY <1>2, LInvAlways, PTL DEF Spec, UnreadableKeepsHosts

-------------------------------------------------------------------------------
(* What a container asks for. *)

\* The targets of the scans are what the definitions of a managed container make (Scan).
LEMMA ScansOfManaged ==
  ASSUME NEW ls, NEW st, NEW o, NEW answers, NEW t
  PROVE  (\E x \in ScanWith(ls, st, o, answers) : t \in x.targets) <=>
           \E managed \in answers : managed /\ t \in Targets(Results(Container(ls, st), o))
<1> DEFINE C == Container(ls, st)
           scan(managed) == Scan(C, o, managed, IF managed THEN Results(C, o) ELSE {})
<1>1. \A managed : scan(managed).targets = Targets(IF managed THEN Results(C, o) ELSE {})
  BY DEF Scan
<1>2. \A managed : Scans(C, o, managed) = {scan(managed)}
  BY DEF Scans
<1> HIDE DEF scan, C
<1>3. ScanWith(ls, st, o, answers) = UNION {Scans(C, o, managed) : managed \in answers}
  BY DEF ScanWith, C
<1>4. \A x : x \in ScanWith(ls, st, o, answers) <=> \E managed \in answers : x = scan(managed)
  BY <1>2, <1>3
<1>5. ASSUME NEW managed PROVE t \in scan(managed).targets <=> managed /\ t \in Targets(Results(C, o))
  BY <1>1 DEF Targets
<1>6. (\E x \in ScanWith(ls, st, o, answers) : t \in x.targets)
        <=> \E managed \in answers : t \in scan(managed).targets
  BY <1>4
<1>7. QED
  BY <1>5, <1>6 DEF C

\* What is asked for is what they make under the options there are.
LEMMA AskedOfManaged ==
  ASSUME NEW ls, NEW st, NEW t
  PROVE  t \in Asked(ls, st) <=>
           \E managed \in Managed(Container(ls, st), Options) :
             managed /\ t \in Targets(Results(Container(ls, st), Options))
<1>1. t \in Asked(ls, st) <=> \E x \in ScanWith(ls, st, Options, Answers(ls, st)) : t \in x.targets
  BY DEF Asked
<1>2. QED
  BY <1>1, ScansOfManaged DEF Answers

\* A target is built from the labels of one definition (Parse).
LEMMA AskedIsBuilt ==
  ASSUME NEW ls, NEW st, NEW t \in Asked(ls, st)
  PROVE  \E key \in Built(Container(ls, st), Options) :
           LET f == FieldSet(Container(ls, st), Options, key)
           IN  /\ f.kind \in KindNames /\ f.kind = key.kind
               /\ t = buildTarget(Container(ls, st), Options, f) /\ t # Error
<1> DEFINE C == Container(ls, st)
           o == Options
<1>1. t \in Targets(Results(C, o))
  BY AskedOfManaged
<1>2. PICK key \in Built(C, o) : t = buildTarget(C, o, FieldSet(C, o, key)) /\ t # Error
  BY <1>1 DEF Targets, Results
<1>3. PICK n \in DOMAIN Names : key = entryKey[n]
  BY <1>2 DEF Built, groups, Carried, Definitions
<1>4. key.kind \in KindNames
  BY <1>3, NamesAssumption, KindIsKnown DEF entryKey, Split
<1>5. FieldSet(C, o, key).kind = key.kind
  BY DEF FieldSet
<1>6. QED
  BY <1>2, <1>4, <1>5

\* The keys of the hosts are of the vocabulary.
LEMMA AskedKeys ==
  ASSUME NEW ls, NEW st
  PROVE  Keys(Asked(ls, st)) \subseteq KeySet
<1> SUFFICES ASSUME NEW t \in Asked(ls, st) PROVE Key(t) \in KeySet
  BY DEF Keys
<1> DEFINE C == Container(ls, st)
           o == Options
<1>1. PICK key \in Built(C, o) :
        LET f == FieldSet(C, o, key)
        IN  f.kind \in KindNames /\ t = buildTarget(C, o, f) /\ t # Error
  BY AskedIsBuilt
<1> DEFINE f == FieldSet(C, o, key)
<1>2. f.kind \in KindNames /\ t = buildTarget(C, o, f) /\ t # Error
  BY <1>1
<1> HIDE DEF f
<1> DEFINE k == string(f, IdentityField(f.kind))
<1>3. /\ t["kind"] = f.kind /\ t["key"] = k
      /\ k \in Readable(f.kind, IdentityField(f.kind)) /\ k # Unset
  BY <1>2, TargetKey DEF Reads
<1> HIDE DEF k
<1>4. CASE f.kind = "stream"
  <2>1. k \in Ports \cup {Automatic}
    BY <1>3, <1>4 DEF Readable, IdentityField, BoolFields
  <2>2. k # Automatic
    BY <1>2, <1>3, <1>4, StreamIsTarget DEF buildTarget, StreamFails, IdentityField, k
  <2>3. QED
    BY <1>3, <1>4, <2>1, <2>2 DEF KeySet, Key
<1>5. CASE f.kind # "stream"
  <2>1. k \in {"a.org", "b.org", "c.org"}
    BY <1>3, <1>5 DEF Readable, IdentityField, BoolFields
  <2>2. QED
    BY <1>2, <1>3, <1>5, <2>1 DEF KeySet, Key
<1>6. QED
  BY <1>4, <1>5

\* The types of the container's variables: whatever the labels say, every host it gets is
\* named by a domain or a port that was read from them (validDomain).
THEOREM LabelTypes == Spec => []TypeOK
<1>1. Init => TypeOK
  BY ContainerAssumption DEF Init, TypeOK
<1>2. TypeOK /\ [Next]_vars => TypeOK'
  <2> SUFFICES ASSUME TypeOK, [Next]_vars PROVE TypeOK'
    OBVIOUS
  <2>1. ASSUME NEW n \in DOMAIN Names,
               Edit(n) \/ MistypeValue(n) \/ MistypeName(n) \/ Respell(n)
        PROVE  TypeOK'
    <3>1. /\ DOMAIN labels' = DOMAIN labels /\ DOMAIN meant' = DOMAIN meant
          /\ UNCHANGED <<state, networks, ports, opts, hosts>>
          /\ edits < MaxEdits /\ edits' = edits + 1
      BY <2>1 DEF Edit, MistypeValue, MistypeName, Respell, Change, Changing
    <3>2. slips' \subseteq Slips
      BY <2>1 DEF TypeOK, Edit, MistypeValue, MistypeName, Respell
    <3>3. edits' \in 0..MaxEdits
      BY <3>1, ContainerAssumption DEF TypeOK
    <3>4. QED
      BY <3>1, <3>2, <3>3 DEF TypeOK
  <2>2. CASE Mend \/ UNCHANGED vars
    BY <2>2 DEF TypeOK, Mend, vars
  <2>3. CASE Stop \/ Start \/ CrashLoop \/ Connect
    BY <2>3 DEF TypeOK, Stop, Start, CrashLoop, Connect, Environment
  <2>4. CASE Reconcile
    <3>1. PICK scan \in ScanWith(labels, state, Options, Answers(labels, state)) :
            hosts' \subseteq Keys(scan.targets) \cup hosts
      <4>1. PICK scan \in ScanWith(labels, state, Options, Answers(labels, state)) :
              \E targets : /\ targets \subseteq scan.targets
                           /\ hosts' \subseteq Keys(targets) \cup hosts
        BY <2>4 DEF Reconcile, applyStopPolicy
      <4>2. QED
        BY <4>1 DEF Keys
    <3>2. scan.targets \subseteq Asked(labels, state)
      BY DEF Asked
    <3>3. Keys(scan.targets) \subseteq KeySet
      BY <3>2, AskedKeys DEF Keys
    <3>4. UNCHANGED <<labels, meant, state, networks, ports, opts, slips, edits>>
      BY <2>4 DEF Reconcile
    <3>5. QED
      BY <3>1, <3>3, <3>4 DEF TypeOK
  <2>5. QED
    BY <2>1, <2>2, <2>3, <2>4 DEF Next
<1>3. QED
  BY <1>1, <1>2, PTL DEF Spec

\* Of a running container every upstream is resolved or an error.
LEMMA RunningResolves ==
  ASSUME NEW c, Running(c), NEW o, NEW f
  PROVE  /\ resolveForwardHost(c, o, f) # Unset
         /\ \A fallback : resolvePort(c, f, fallback) # Unset
<1>1. GivesUp # Unset
  BY DEF GivesUp, Unset
<1>2. resolveForwardHost(c, o, f) # Unset
  BY <1>1 DEF resolveForwardHost
<1>3. \A fallback : resolvePort(c, f, fallback) # Unset
  BY <1>1 DEF resolvePort
<1>4. QED
  BY <1>2, <1>3

\* A proxy host forwards to what was resolved for it.
LEMMA ProxyForwards ==
  ASSUME NEW c, NEW o, NEW f, buildProxy(c, o, f) # Error
  PROVE  LET t == buildProxy(c, o, f)
         IN  t["host"] = resolveForwardHost(c, o, f) /\ t["port"] = resolvePort(c, f, Unset)
<1> DEFINE own ==
             [key |-> string(f, "domains"), host |-> resolveForwardHost(c, o, f),
              port |-> resolvePort(c, f, Unset),
              scheme |-> string(f, "forward_scheme"),
              crowdsec |-> string(f, "crowdsec_appsec"),
              access |-> AccessListOf(string(f, "access_list"),
                                      string(f, "access_list_type"), "public")]
           t == Extended(Base(f), own)
           extra == [locations |-> {buildLocation(f, b, t) : b \in Blocks(f)}]
           all == Extended(t, extra)
<1>1. buildProxy(c, o, f) = all
  BY DEF buildProxy
<1>2. /\ {"host", "port"} \subseteq DOMAIN own /\ DOMAIN extra = {"locations"}
      /\ own["host"] = resolveForwardHost(c, o, f)
      /\ own["port"] = resolvePort(c, f, Unset)
  OBVIOUS
<1> HIDE DEF own
<1>3. {"host", "port"} \subseteq DOMAIN t /\ t["host"] = own["host"] /\ t["port"] = own["port"]
  <2>1. DOMAIN t = DOMAIN Base(f) \cup DOMAIN own /\ \A x \in DOMAIN own : t[x] = own[x]
    BY ExtendedSettings
  <2> HIDE DEF t
  <2>2. QED
    BY <1>2, <2>1
<1> HIDE DEF t, extra
<1>4. all["host"] = t["host"] /\ all["port"] = t["port"]
  <2>1. \A x \in DOMAIN t \ DOMAIN extra : all[x] = t[x]
    BY ExtendedSettings
  <2> HIDE DEF all
  <2>2. QED
    BY <1>2, <1>3, <2>1
<1> HIDE DEF all
<1>5. QED
  BY <1>1, <1>2, <1>3, <1>4

\* A stream forwards to what was resolved for it.
LEMMA StreamForwards ==
  ASSUME NEW c, NEW o, NEW f, buildStream(c, o, f) # Error
  PROVE  LET t == buildStream(c, o, f)
         IN  /\ t["host"] = resolveForwardHost(c, o, f)
             /\ t["port"] = resolvePort(c, f, string(f, "incoming_port"))
<1> DEFINE incoming == string(f, "incoming_port")
           own ==
             [certificate |-> StreamCertificate(f),
              key |-> incoming, host |-> resolveForwardHost(c, o, f),
              port |-> resolvePort(c, f, incoming),
              tcp |-> Forwards(f, "tcp"), udp |-> Forwards(f, "udp"),
              proxyProtocol |-> string(f, "proxy_protocol"),
              proxyTLS |-> boolean(f, "proxy_tls"),
              description |-> IF string(f, "description") # Unset
                              THEN string(f, "description") ELSE "name"]
<1>1. buildStream(c, o, f) = Extended(Base(f), own)
  BY DEF buildStream
<1>2. /\ {"host", "port"} \subseteq DOMAIN own
      /\ own["host"] = resolveForwardHost(c, o, f)
      /\ own["port"] = resolvePort(c, f, incoming)
  OBVIOUS
<1> HIDE DEF own
<1> DEFINE t == Extended(Base(f), own)
<1>3. t["host"] = own["host"] /\ t["port"] = own["port"]
  <2>1. \A x \in DOMAIN own : t[x] = own[x]
    BY ExtendedSettings
  <2> HIDE DEF t
  <2>2. QED
    BY <1>2, <2>1
<1> HIDE DEF t
<1>4. QED
  BY <1>1, <1>2, <1>3 DEF t

\* Only a stopped container has targets without an address or a port: what the worker gets
\* of a running one can be created and updated (resolveForwardHost, resolvePort).
THEOREM RunningIsCompleteAlways == Spec => []RunningIsComplete
<1>1. RunningIsComplete
  <2> DEFINE C == Container(labels, state)
             o == Options
  <2> SUFFICES ASSUME Running(C), NEW t \in Asked(labels, state)
               PROVE  Complete(t)
    BY DEF RunningIsComplete
  <2>1. PICK key \in Built(C, o) :
          LET f == FieldSet(C, o, key)
          IN  f.kind \in KindNames /\ t = buildTarget(C, o, f) /\ t # Error
    BY AskedIsBuilt
  <2> DEFINE f == FieldSet(C, o, key)
  <2>2. f.kind \in KindNames /\ t = buildTarget(C, o, f) /\ t # Error
    BY <2>1
  <2> HIDE DEF f, C, o
  <2>3. t["kind"] = f.kind
    BY <2>2, BuiltIsTarget
  <2>4. CASE f.kind = "proxy"
    <3>1. t = buildProxy(C, o, f)
      BY <2>2, <2>4 DEF buildTarget
    <3>2. t["host"] # Unset /\ t["port"] # Unset
      BY <2>2, <3>1, ProxyForwards, RunningResolves
    <3>3. QED
      BY <3>2 DEF Complete
  <2>5. CASE f.kind = "stream"
    <3>1. t = buildStream(C, o, f)
      BY <2>2, <2>5 DEF buildTarget
    <3>2. t["host"] # Unset /\ t["port"] # Unset
      BY <2>2, <3>1, StreamForwards, RunningResolves
    <3>3. QED
      BY <3>2 DEF Complete
  <2>6. CASE f.kind \in {"redirect", "dead"}
    BY <2>3, <2>6 DEF Complete
  <2>7. QED
    BY <2>2, <2>4, <2>5, <2>6 DEF KindNames
<1>2. QED
  BY <1>1, PTL

-------------------------------------------------------------------------------
(* Another spelling. *)

\* d is c, except that label n is written m, which is another spelling of it; no other
\* label sets the same.
Respelt(c, d, n, m) ==
  /\ SameSurroundings(c, d)
  /\ SetTheSame(n, m) /\ (n \in Inverted <=> m \in Inverted)
  /\ {n, m} \subseteq DOMAIN Names
  /\ c.labels[n] # Absent /\ c.labels[m] = Absent
  /\ d.labels[n] = Absent /\ d.labels[m] = c.labels[n]
  /\ \A k \in DOMAIN Names \ {n, m} : d.labels[k] = c.labels[k]
  /\ \A k \in DOMAIN Names \ {n} : c.labels[k] # Absent => ~SetTheSame(k, n)

\* Two spellings are labels of the same sort.
LEMMA SpellingsAreAlike ==
  ASSUME NEW n, NEW m, SetTheSame(n, m)
  PROVE  /\ n \in ContainerSwitch <=> m \in ContainerSwitch
         /\ n \in IndexSwitch <=> m \in IndexSwitch
         /\ n \in Definitions <=> m \in Definitions
         /\ n \notin UnknownNames /\ m \notin UnknownNames
         /\ n \in IndexSwitch => Split[n].index = Split[m].index
         /\ n \in Definitions => entryKey[n] = entryKey[m] /\ Slot[n] = Slot[m]
<1>1. /\ ContainerSwitch \cap IndexSwitch = {} /\ UnknownNames \subseteq Definitions
      /\ Definitions \cap (ContainerSwitch \cup IndexSwitch) = {}
  BY DEF IndexSwitch, Definitions, UnknownNames
<1>2. QED
  BY <1>1 DEF SetTheSame

\* Of the labels that set the same the container carries none that was respelt, or that
\* one only.
LEMMA CarriedOnce ==
  ASSUME NEW c, NEW d, NEW n, NEW m, Respelt(c, d, n, m),
         NEW S \in SUBSET DOMAIN Names, n \in S <=> m \in S,
         \A k \in S : n \in S => SetTheSame(k, n)
  PROVE  \/ /\ Carried(c, S) = Carried(d, S)
            /\ \A k \in Carried(c, S) : c.labels[k] = d.labels[k] /\ k \notin {n, m}
         \/ Carried(c, S) = {n} /\ Carried(d, S) = {m}
<1>1. CASE n \notin S
  BY <1>1 DEF Respelt, Carried
<1>2. CASE n \in S
  <2>1. \A k \in S \ {n} : c.labels[k] = Absent
    BY <1>2 DEF Respelt
  <2>2. Carried(c, S) = {n}
    BY <1>2, <2>1 DEF Respelt, Carried
  <2>3. \A k \in S \ {n, m} : d.labels[k] = Absent
    BY <2>1 DEF Respelt
  <2>4. Carried(d, S) = {m}
    BY <1>2, <2>3 DEF Respelt, Carried
  <2>5. QED
    BY <2>2, <2>4
<1>3. QED
  BY <1>1, <1>2

\* A container is managed under either spelling (Managed).
LEMMA RespeltIsManaged ==
  ASSUME NEW c, NEW d, NEW n, NEW m, Respelt(c, d, n, m), NEW o
  PROVE  Managed(c, o) = Managed(d, o)
<1>1. /\ n \in ContainerSwitch <=> m \in ContainerSwitch
      /\ n \in Definitions \cup IndexSwitch <=> m \in Definitions \cup IndexSwitch
  BY SpellingsAreAlike DEF Respelt
<1>2. ContainerSwitch \cup Definitions \cup IndexSwitch \subseteq DOMAIN Names
  BY DEF ContainerSwitch, Definitions, IndexSwitch
<1>3. lookupEnable(c) = lookupEnable(d)
  <2>1. \A k \in Carried(c, ContainerSwitch) : c.labels[k] \in lookupEnable(d)
    <3> TAKE k \in Carried(c, ContainerSwitch)
    <3>1. CASE k = n
      BY <1>1, <3>1 DEF Respelt, lookupEnable, Carried
    <3>2. CASE k # n
      BY <1>2, <3>2 DEF Respelt, lookupEnable, Carried
    <3>3. QED
      BY <3>1, <3>2
  <2>2. \A k \in Carried(d, ContainerSwitch) : d.labels[k] \in lookupEnable(c)
    <3> TAKE k \in Carried(d, ContainerSwitch)
    <3>1. CASE k = m
      BY <1>1, <3>1 DEF Respelt, lookupEnable, Carried
    <3>2. CASE k # m
      BY <1>2, <3>2 DEF Respelt, lookupEnable, Carried
    <3>3. QED
      BY <3>1, <3>2
  <2>3. QED
    BY <2>1, <2>2 DEF lookupEnable
<1>4. hasFieldLabel(c) = hasFieldLabel(d)
  <2> DEFINE S == Definitions \cup IndexSwitch
  <2>1. S \subseteq DOMAIN Names /\ (n \in S <=> m \in S)
    BY <1>1, <1>2
  <2> HIDE DEF S
  <2>2. CASE n \in S
    BY <2>1, <2>2 DEF Respelt, Carried, hasFieldLabel, S
  <2>3. CASE n \notin S
    <3>1. Carried(c, S) = Carried(d, S)
      BY <2>1, <2>3 DEF Respelt, Carried
    <3>2. QED
      BY <3>1 DEF hasFieldLabel, S
  <2>4. QED
    BY <2>2, <2>3
<1>5. QED
  BY <1>3, <1>4 DEF Managed

\* The same indexes are switched off under either spelling (disabled).
LEMMA RespeltSwitches ==
  ASSUME NEW c, NEW d, NEW n, NEW m, Respelt(c, d, n, m)
  PROVE  disabled(c) = disabled(d)
<1> DEFINE of(i) == {k \in IndexSwitch : Split[k].index = i}
           switches(x, i) == {k \in Carried(x, IndexSwitch) :
                                Split[k].index = i /\ x.labels[k] \in Bools}
           off(x, i) == switches(x, i) # {} /\ ~ParseBool(x.labels[Max(switches(x, i))])
<1>1. \A x, i : switches(x, i) = {k \in Carried(x, of(i)) : x.labels[k] \in Bools}
  BY DEF Carried
<1>2. \A x : disabled(x) = {i \in {Split[k].index : k \in IndexSwitch} : off(x, i)}
  BY DEF disabled
<1>3. ASSUME NEW i PROVE off(c, i) = off(d, i)
  <2>1. of(i) \subseteq DOMAIN Names /\ (n \in of(i) <=> m \in of(i))
    BY SpellingsAreAlike DEF Respelt, IndexSwitch
  <2>2. \A k \in of(i) : n \in of(i) => SetTheSame(k, n)
    BY DEF SetTheSame
  <2> DEFINE S == of(i)
             X == switches(c, i)
             Y == switches(d, i)
  <2>3. X = {k \in Carried(c, S) : c.labels[k] \in Bools}
        /\ Y = {k \in Carried(d, S) : d.labels[k] \in Bools}
    BY DEF Carried
  <2>4. S \in SUBSET DOMAIN Names /\ (n \in S <=> m \in S)
        /\ \A k \in S : n \in S => SetTheSame(k, n)
    BY <2>1, <2>2
  <2>5. off(c, i) = (X # {} /\ ~ParseBool(c.labels[Max(X)]))
        /\ off(d, i) = (Y # {} /\ ~ParseBool(d.labels[Max(Y)]))
    OBVIOUS
  <2> HIDE DEF S, X, Y, off, switches, of
  <2>6. X \subseteq S /\ Y \subseteq S
    BY <2>3 DEF Carried
  <2>7. /\ X # {} => Max(X) \in X
        /\ Y # {} => Max(Y) \in Y
    BY <2>4, <2>6, NamesFinite
  <2>8. CASE /\ Carried(c, S) = Carried(d, S)
             /\ \A k \in Carried(c, S) : c.labels[k] = d.labels[k]
    <3>1. X = Y
      BY <2>3, <2>8
    <3>2. X # {} => c.labels[Max(X)] = d.labels[Max(Y)]
      BY <2>3, <2>7, <2>8, <3>1
    <3>3. QED
      BY <2>5, <3>1, <3>2
  <2>9. CASE Carried(c, S) = {n} /\ Carried(d, S) = {m}
    <3>1. c.labels[n] = d.labels[m]
      BY DEF Respelt
    <3>2. X # {} <=> Y # {}
      BY <2>3, <2>9, <3>1
    <3>3. X # {} => c.labels[Max(X)] = d.labels[Max(Y)]
      BY <2>3, <2>7, <2>9, <3>1, <3>2
    <3>4. QED
      BY <2>5, <3>2, <3>3
  <2>10. QED
    BY <2>4, <2>8, <2>9, CarriedOnce
<1> HIDE DEF off
<1>4. QED
  BY <1>2, <1>3

\* A field has the same value under either spelling (fieldSet).
LEMMA RespeltFields ==
  ASSUME NEW c, NEW d, NEW n, NEW m, Respelt(c, d, n, m),
         NEW key \in {entryKey[k] : k \in Definitions}
  PROVE  fieldSet(c, key) = fieldSet(d, key)
<1> DEFINE given(x, s) == {k \in Carried(x, Setters[key][s]) :
                             k \in Inverted => x.labels[k] \in Bools}
           value(x, k) == IF k \in Inverted THEN Negated(x.labels[k]) ELSE x.labels[k]
           set(x) == {s \in DOMAIN Setters[key] : given(x, s) # {}}
<1>1. \A x : fieldSet(x, key) = [s \in set(x) |-> value(x, Max(given(x, s)))]
  BY DEF fieldSet
<1>2. \A s \in DOMAIN Setters[key] :
        Setters[key][s] = {k \in Definitions \ UnknownNames : entryKey[k] = key /\ Slot[k] = s}
  BY DEF Setters
<1>3. ASSUME NEW s \in DOMAIN Setters[key]
      PROVE  /\ given(c, s) # {} <=> given(d, s) # {}
             /\ given(c, s) # {} => value(c, Max(given(c, s))) = value(d, Max(given(d, s)))
  <2> DEFINE S == Setters[key][s]
             X == given(c, s)
             Y == given(d, s)
  <2>1. S \in SUBSET DOMAIN Names
    BY <1>2 DEF Definitions
  <2>2. n \in S <=> m \in S
    BY <1>2, SpellingsAreAlike DEF Respelt
  <2>3. \A k \in S : n \in S => SetTheSame(k, n)
    BY <1>2 DEF SetTheSame
  <2>4. /\ X = {k \in Carried(c, S) : k \in Inverted => c.labels[k] \in Bools}
        /\ Y = {k \in Carried(d, S) : k \in Inverted => d.labels[k] \in Bools}
    OBVIOUS
  <2> HIDE DEF S, X, Y
  <2>5. X \subseteq S /\ Y \subseteq S
    BY <2>4 DEF Carried
  <2>6. /\ X # {} => Max(X) \in X
        /\ Y # {} => Max(Y) \in Y
    BY <2>1, <2>5, NamesFinite
  <2>7. CASE /\ Carried(c, S) = Carried(d, S)
             /\ \A k \in Carried(c, S) : c.labels[k] = d.labels[k]
    <3>1. X = Y
      BY <2>4, <2>7
    <3>2. X # {} => c.labels[Max(X)] = d.labels[Max(Y)]
      BY <2>4, <2>6, <2>7, <3>1
    <3>3. QED
      BY <3>1, <3>2 DEF X, Y
  <2>8. CASE Carried(c, S) = {n} /\ Carried(d, S) = {m}
    <3>1. c.labels[n] = d.labels[m] /\ (n \in Inverted <=> m \in Inverted)
      BY DEF Respelt
    <3>2. X # {} <=> Y # {}
      BY <2>4, <2>8, <3>1
    <3>3. X # {} => Max(X) = n /\ Max(Y) = m
      BY <2>4, <2>6, <2>8, <3>2
    <3>4. value(c, n) = value(d, m)
      BY <3>1
    <3>5. QED
      BY <3>2, <3>3, <3>4 DEF X, Y
  <2>9. QED
    BY <2>1, <2>2, <2>3, <2>7, <2>8, CarriedOnce
<1> HIDE DEF given, value
<1>4. set(c) = set(d)
  BY <1>3
<1>5. \A s \in set(c) : value(c, Max(given(c, s))) = value(d, Max(given(d, s)))
  BY <1>3
<1> HIDE DEF set
<1>6. QED
  BY <1>1, <1>4, <1>5

\* A container asks for the same under either spelling.
LEMMA RespeltAsksTheSame ==
  ASSUME NEW c, NEW d, NEW n, NEW m, Respelt(c, d, n, m), NEW o
  PROVE  Results(c, o) = Results(d, o)
<1>1. UnknownLabels(c) = UnknownLabels(d)
  <2>1. n \notin UnknownNames /\ m \notin UnknownNames /\ UnknownNames \subseteq DOMAIN Names
    BY SpellingsAreAlike DEF Respelt, UnknownNames, Definitions
  <2>2. QED
    BY <2>1 DEF Respelt, UnknownLabels, Carried
<1>2. groups(c) = groups(d)
  <2>1. /\ n \in Definitions <=> m \in Definitions
        /\ n \in Definitions => entryKey[n] = entryKey[m]
        /\ Definitions \subseteq DOMAIN Names
    BY SpellingsAreAlike DEF Respelt, Definitions
  <2>2. \A k \in Carried(c, Definitions) : entryKey[k] \in groups(d)
    <3> TAKE k \in Carried(c, Definitions)
    <3>1. CASE k = n
      BY <2>1, <3>1 DEF Respelt, groups, Carried
    <3>2. CASE k # n
      BY <2>1, <3>2 DEF Respelt, groups, Carried
    <3>3. QED
      BY <3>1, <3>2
  <2>3. \A k \in Carried(d, Definitions) : entryKey[k] \in groups(c)
    <3> TAKE k \in Carried(d, Definitions)
    <3>1. CASE k = m
      BY <2>1, <3>1 DEF Respelt, groups, Carried
    <3>2. CASE k # m
      BY <2>1, <3>2 DEF Respelt, groups, Carried
    <3>3. QED
      BY <3>1, <3>2
  <2>4. QED
    BY <2>2, <2>3 DEF groups
<1>3. Built(c, o) = Built(d, o)
  BY <1>1, <1>2, RespeltSwitches DEF Built, tainted
<1>4. \A key \in Built(c, o) : FieldSet(c, o, key) = FieldSet(d, o, key)
  <2>1. Built(c, o) \subseteq {entryKey[k] : k \in Definitions}
    BY DEF Built, groups, Carried
  <2>2. QED
    BY <2>1, RespeltFields DEF FieldSet
<1>5. \A f : buildTarget(c, o, f) = buildTarget(d, o, f)
  BY BuiltTheSame DEF Respelt
<1>6. QED
  BY <1>3, <1>4, <1>5 DEF Results

\* Both positions of the index and every alias of a field are the same label: an operator
\* who writes it the other way changes nothing (splitLabel, resolveField).
THEOREM SpellingDoesNotMatterAlways == Spec => SpellingDoesNotMatter
<1> DEFINE Step == \A s \in Synonyms :
                     /\ labels = meant /\ labels' = meant'
                     /\ labels[s[1]] # Absent /\ labels[s[2]] = Absent
                     /\ labels' = [Change(s[1], Absent) EXCEPT ![s[2]] = labels[s[1]]]
                     => Asked(labels', state) = Asked(labels, state)
<1>1. LInv => Step
  <2> SUFFICES ASSUME LInv, NEW s \in Synonyms, labels = meant,
                      labels[s[1]] # Absent, labels[s[2]] = Absent,
                      labels' = [Change(s[1], Absent) EXCEPT ![s[2]] = labels[s[1]]]
               PROVE  Asked(labels', state) = Asked(labels, state)
    OBVIOUS
  <2> DEFINE C == Container(labels, state)
             D == Container(labels', state)
             o == Options
             n == s[1]
             m == s[2]
  <2>1. SetTheSame(n, m) /\ (n \in Inverted <=> m \in Inverted)
    BY VocabularyAssumption
  <2>2. {n, m} \subseteq DOMAIN Names /\ n # m
    BY <2>1 DEF SetTheSame, ContainerSwitch, IndexSwitch, Definitions
  <2>3. /\ labels'[n] = Absent /\ labels'[m] = labels[n]
        /\ \A k \in DOMAIN Names \ {n, m} : labels'[k] = labels[k]
    <3>1. labels' = [[labels EXCEPT ![n] = Absent] EXCEPT ![m] = labels[n]]
      BY DEF Change
    <3> HIDE DEF n, m
    <3>2. QED
      BY <2>2, <3>1 DEF LInv, Labelled
  <2>4. \A k \in DOMAIN Names \ {n} : labels[k] # Absent => ~SetTheSame(k, n)
    BY <2>2 DEF LInv, Unrivalled
  <2>5. Respelt(C, D, n, m)
    <3>1. C.labels = labels /\ D.labels = labels' /\ SameSurroundings(C, D)
      BY DEF Container, SameSurroundings
    <3> HIDE DEF C, D, n, m
    <3>2. labels[n] # Absent /\ labels[m] = Absent
      BY DEF n, m
    <3>3. QED
      BY <2>1, <2>2, <2>3, <2>4, <3>1, <3>2 DEF Respelt
  <2> HIDE DEF n, m
  <2>6. Managed(C, o) = Managed(D, o) /\ Results(C, o) = Results(D, o)
    <3> HIDE DEF C, D, o
    <3>1. QED
      BY <2>5, RespeltIsManaged, RespeltAsksTheSame
  <2>7. \A t : t \in Asked(labels', state) <=> t \in Asked(labels, state)
    BY <2>6, AskedOfManaged
  <2> HIDE DEF C, D, o
  <2>8. QED
    BY <2>7
<1>2. LInv /\ [Next]_vars => [Step]_labels
  BY <1>1
<1>3. QED
  BY <1>2, LInvAlways, PTL DEF Spec, SpellingDoesNotMatter

-------------------------------------------------------------------------------
(* A default certificate. *)

\* The default certificate of the streams is one that can be read: an id, a name, a domain
\* or a mode.  The source takes any text for it when the process starts.
CertificateCanBeRead ==
  \A o \in Settings : Value(DefaultsOf[o], "stream", "certificate")
                        \in Readable("stream", "certificate")

\* f is g, a stream, under another default certificate that can be read; nothing about it
\* asks for TLS.
Recertified(f, g) ==
  /\ f.kind = "stream" /\ g.kind = "stream" /\ f.values = g.values
  /\ Value(f.defaults, "stream", "certificate") \in Readable("stream", "certificate")
  /\ \A name : name # "certificate" =>
       Value(f.defaults, "stream", name) = Value(g.defaults, "stream", name)
  /\ string(f, "ssl_forced") = Unset

\* Every field but the certificate is the same.
LEMMA RecertifiedFields ==
  ASSUME NEW f, NEW g, Recertified(f, g)
  PROVE  /\ \A name : has(f, name) = has(g, name)
         /\ \A name : name # "certificate" => Agree(f, g, name)
         /\ IF has(f, "certificate") THEN Agree(f, g, "certificate")
            ELSE string(f, "certificate") \in Readable("stream", "certificate")
<1>1. \A name : raw(f, Unset, name) = raw(g, Unset, name)
  BY DEF Recertified, raw
<1>2. \A name : has(f, name) = has(g, name)
  BY <1>1 DEF has
<1>3. ASSUME NEW name, has(f, name) \/ name # "certificate"
      PROVE  Agree(f, g, name)
  <2>1. string(f, name) = string(g, name)
    BY <1>1, <1>2, <1>3 DEF string, Recertified
  <2>2. QED
    BY <1>2, <2>1 DEF Agree, Reads, boolean, Recertified
<1>4. ~has(f, "certificate") =>
        string(f, "certificate") \in Readable("stream", "certificate")
  BY DEF string, Recertified
<1>5. QED
  BY <1>2, <1>3, <1>4

\* A certificate that can be read gives no error unless a label asks for it: one that a
\* stream cannot use is dropped (streamCertificate).
LEMMA RecertifiedCertificate ==
  ASSUME NEW f, NEW g, Recertified(f, g), StreamCertificate(g) # GivesUp
  PROVE  StreamCertificate(f) # GivesUp
<1>1. Agree(f, g, "protocol") /\ Agree(f, g, "tcp") /\ Agree(f, g, "udp")
  BY RecertifiedFields
<1>2. Forwards(f, "udp") = Forwards(g, "udp")
  BY <1>1 DEF Forwards, Agree
<1>3. CASE has(f, "certificate")
  <2>1. Agree(f, g, "certificate")
    BY <1>3, RecertifiedFields
  <2>2. StreamCertificate(f) = StreamCertificate(g)
    BY <1>2, <2>1 DEF StreamCertificate, Agree
  <2>3. QED
    BY <2>2
<1>4. CASE ~has(f, "certificate")
  <2>1. string(f, "certificate") # GivesUp /\ "none" # GivesUp
    <3>1. GivesUp \notin Readable("stream", "certificate")
      BY DEF GivesUp, Readable, BoolFields, Automatic
    <3>2. string(f, "certificate") \in Readable("stream", "certificate")
      BY <1>4, RecertifiedFields
    <3>3. QED
      BY <3>1, <3>2 DEF GivesUp
  <2>2. QED
    BY <1>4, <2>1 DEF StreamCertificate
<1>5. QED
  BY <1>3, <1>4

\* A stream is built under the other certificate as well, on the same port.
LEMMA RecertifiedStream ==
  ASSUME NEW c, NEW o, NEW w, NEW f, NEW g, Recertified(f, g),
         o.resolveIP = w.resolveIP, o.prefer = w.prefer, o.strictNetworks = w.strictNetworks,
         buildTarget(c, w, g) # Error
  PROVE  /\ buildTarget(c, o, f) # Error
         /\ buildTarget(c, o, f)["kind"] = buildTarget(c, w, g)["kind"]
         /\ buildTarget(c, o, f)["key"] = buildTarget(c, w, g)["key"]
<1>1. f.kind = "stream" /\ g.kind = "stream"
  BY DEF Recertified
<1>2. /\ buildStream(c, w, g) # Error /\ ~CannotReadCommon(g)
      /\ \E mode : ~validateCertificateFails(g, mode)
  BY <1>1 DEF buildTarget
<1>3. ~StreamFails(c, w, g)
  BY <1>2, StreamIsTarget
<1>4. /\ Agree(f, g, "incoming_port") /\ Agree(f, g, "forward_host")
      /\ Agree(f, g, "forward_port") /\ Agree(f, g, "resolve_ip") /\ Agree(f, g, "protocol")
      /\ Agree(f, g, "tcp") /\ Agree(f, g, "udp") /\ Agree(f, g, "proxy_protocol")
      /\ Agree(f, g, "proxy_tls") /\ Agree(f, g, "dns_challenge") /\ Agree(f, g, "dns_provider")
  BY RecertifiedFields
<1>5. ~CannotReadCommon(f)
  <2>1. ASSUME NEW name \in CommonFields PROVE Reads(f, name)
    <3>1. Reads(g, name)
      BY <1>2 DEF CannotReadCommon
    <3>2. CASE Agree(f, g, name)
      BY <3>1, <3>2 DEF Agree
    <3>3. CASE ~Agree(f, g, name)
      <4>1. name = "certificate" /\ string(f, name) \in Readable("stream", name)
        BY <3>3, RecertifiedFields
      <4>2. QED
        BY <1>1, <4>1 DEF Reads
    <3>4. QED
      BY <3>2, <3>3
  <2>2. QED
    BY <2>1 DEF CannotReadCommon
<1>6. ~StreamFails(c, o, f)
  <2>1. \A r : ResolveHost(c, o, r) = ResolveHost(c, w, r)
    BY DEF ResolveHost
  <2>2. resolveForwardHost(c, o, f) = resolveForwardHost(c, w, g)
    BY <1>4, <2>1 DEF resolveForwardHost, Agree
  <2>3. \A fallback : resolvePort(c, f, fallback) = resolvePort(c, g, fallback)
    BY <1>4 DEF resolvePort, Agree
  <2>4. Forwards(f, "tcp") = Forwards(g, "tcp") /\ Forwards(f, "udp") = Forwards(g, "udp")
    BY <1>4 DEF Forwards, Agree
  <2>5. ~TransportFails(f)
    <3>1. ~TransportFails(g)
      BY <1>3 DEF StreamFails
    <3>2. QED
      BY <1>4, <2>4, <3>1 DEF TransportFails, Agree
  <2>6. ~validateStreamFails(f)
    <3>1. ~validateStreamFails(g)
      BY <1>3 DEF StreamFails
    <3>2. StreamCertificate(f) # GivesUp
      BY <3>1, RecertifiedCertificate DEF validateStreamFails
    <3>3. QED
      BY <1>4, <2>4, <3>1, <3>2 DEF validateStreamFails, Agree
  <2>7. QED
    BY <1>3, <1>4, <2>2, <2>3, <2>5, <2>6 DEF StreamFails, Agree
<1>7. \A mode : ~validateCertificateFails(f, mode)
  <2>1. boolean(f, "ssl_forced") = FALSE
    BY DEF Recertified, boolean, ParseBool, Unset
  <2>2. QED
    BY <1>2, <1>4, <2>1 DEF validateCertificateFails, Agree
<1>8. buildStream(c, o, f) # Error
  BY <1>6, StreamIsTarget DEF TargetOf
<1>9. buildTarget(c, o, f) = buildStream(c, o, f)
  BY <1>1, <1>5, <1>7, <1>8 DEF buildTarget
<1>10. buildTarget(c, w, g) = buildStream(c, w, g)
  BY <1>1 DEF buildTarget
<1>11. QED
  BY <1>1, <1>3, <1>4, <1>6, <1>8, <1>9, <1>10, StreamIsTarget DEF TargetOf, Agree

\* A stream's table has no TLS switches.
LEMMA StreamsHaveNoSwitches ==
  /\ "ssl_forced" \notin DOMAIN Table["stream"] /\ "certificate" \in DOMAIN Table["stream"]
  /\ \A name : Lookup("stream", name) # "ssl_forced"
<1>1. Table["stream"] = streamFields
  BY DEF Table
<1>2. DOMAIN streamFields =
        {"incoming_port", "forward_host", "forward_port", "resolve_ip", "tcp", "udp", "protocol",
         "proxy_protocol", "proxy_tls", "description", "certificate", "enabled", "group",
         "advanced_config"}
  BY DEF streamFields
<1>3. "ssl_forced" \notin DOMAIN streamFields /\ "certificate" \in DOMAIN streamFields
  BY <1>2
<1>4. "ssl_forced" \notin DOMAIN Table["stream"] /\ "certificate" \in DOMAIN Table["stream"]
  BY <1>1, <1>3
<1>5. \A name \in DOMAIN Aliases["stream"] : Aliases["stream"][name] # "ssl_forced"
  BY DEF Aliases
<1>6. Unset # "ssl_forced"
  BY DEF Unset
<1>7. \A name : Lookup("stream", name) # "ssl_forced"
  BY <1>4, <1>5, <1>6 DEF Lookup
<1>8. QED
  BY <1>4, <1>7

\* No label of a stream sets one.
LEMMA StreamsAskForNoTLS ==
  ASSUME NEW c, NEW key \in groups(c), key.kind = "stream"
  PROVE  [block |-> Unset, name |-> "ssl_forced"] \notin DOMAIN fieldSet(c, key)
<1> DEFINE slot == [block |-> Unset, name |-> "ssl_forced"]
<1> SUFFICES ASSUME slot \in DOMAIN fieldSet(c, key) PROVE FALSE
  OBVIOUS
<1>1. key \in {entryKey[k] : k \in Definitions}
  BY DEF groups, Carried
<1>2. /\ slot \in DOMAIN Setters[key]
      /\ \E n : n \in Carried(c, Setters[key][slot])
  BY DEF fieldSet
<1>3. PICK n \in Definitions \ UnknownNames : entryKey[n] = key /\ Slot[n] = slot
  BY <1>1, <1>2 DEF Setters, Carried
<1>4. n \in DOMAIN Names /\ Split[n].kind = "stream"
  <2>1. n \in DOMAIN Names
    BY DEF Definitions
  <2>2. QED
    BY <1>3, <2>1 DEF entryKey
<1> DEFINE field == Split[n].field
           meaning == resolveField("stream", field)
<1>5. meaning.block = Unset /\ meaning.name = "ssl_forced"
  BY <1>3, <1>4 DEF Slot, Meaning
<1> HIDE DEF field
<1>6. CASE \E name : meaning = Plain(Lookup("stream", name), FALSE)
  BY <1>5, <1>6, StreamsHaveNoSwitches DEF Plain
<1>7. CASE meaning = locationField(field)
  <2>1. \A text \in DOMAIN Number : text # Unset
    BY DEF Number, Unset
  <2>2. meaning.name = Unset \/ meaning.block # Unset
    BY <1>7, <2>1 DEF locationField, Unknown, Plain
  <2>3. QED
    BY <1>5, <2>2 DEF Unset
<1>8. CASE \E name \in DOMAIN inverseAliases : meaning = Plain(inverseAliases[name], TRUE)
  <2>1. \A name \in DOMAIN inverseAliases : inverseAliases[name] = "crowdsec_appsec"
    BY DEF inverseAliases
  <2>2. QED
    BY <1>5, <1>8, <2>1 DEF Plain
<1>9. CASE meaning = Unknown
  BY <1>3, <1>4, <1>9 DEF UnknownNames, Meaning, field
<1>10. QED
  BY <1>6, <1>7, <1>8, <1>9 DEF resolveField, IsInverseAlias

\* A default certificate was meant for the hosts: it never turns the definition of a stream
\* into an error.  One that a stream cannot use is dropped, and of TLS nothing else can be
\* asked of it (streamCertificate, validateCertificate).
THEOREM DefaultBreaksNoStreamAlways ==
  ASSUME CertificateCanBeRead
  PROVE  Spec => []DefaultBreaksNoStream
<1>1. LInv => DefaultBreaksNoStream
  <2> SUFFICES ASSUME LInv PROVE DefaultBreaksNoStream
    OBVIOUS
  <2> DEFINE o == Options
             w == [Options EXCEPT !.defaults["stream"].certificate = Automatic]
             C == Container(labels, state)
             A == Answers(labels, state)
             d == DefaultsOf[opts]
             Streams(x) == {k \in UNION {Keys(scan.targets) : scan \in ScanWith(labels, state, x, A)} :
                              k[1] = "stream"}
  <2>1. /\ o.defaults = d /\ d = LoadDefaults(opts.env)
        /\ DOMAIN o = {"prefer", "strictNetworks", "resolveIP", "strictLabels",
                       "exposedByDefault", "defaults"}
    BY DEF LInv, DefaultsOf, Options
  <2>2. "stream" \in DOMAIN d /\ DOMAIN d["stream"] = DOMAIN Table["stream"]
    BY <2>1 DEF LoadDefaults, KindNames
  <2>3. /\ w.resolveIP = o.resolveIP /\ w.prefer = o.prefer
        /\ w.strictNetworks = o.strictNetworks /\ w.strictLabels = o.strictLabels
        /\ w.defaults = [d EXCEPT !["stream"] = [@ EXCEPT !.certificate = Automatic]]
    <3> HIDE DEF d
    <3>1. QED
      BY <2>1
  <2>4. \A name : name # "certificate" => Value(w.defaults, "stream", name) = Value(d, "stream", name)
    <3> HIDE DEF d, w
    <3>1. DOMAIN w.defaults["stream"] = DOMAIN d["stream"]
          /\ \A name \in DOMAIN d["stream"] :
               name # "certificate" => w.defaults["stream"][name] = d["stream"][name]
      BY <2>2, <2>3
    <3>2. QED
      BY <3>1 DEF Value
  <2>5. Value(d, "stream", "certificate") \in Readable("stream", "certificate")
    BY DEF CertificateCanBeRead, LInv
  <2> HIDE DEF o, w, d
  <2>6. Built(C, w) = Built(C, o)
    BY <2>3 DEF Built
  <2>7. ASSUME NEW t \in Targets(Results(C, w)), t["kind"] = "stream"
        PROVE  \E u \in Targets(Results(C, o)) : Key(u) = Key(t)
    <3>1. PICK key \in Built(C, w) : t = buildTarget(C, w, FieldSet(C, w, key)) /\ t # Error
      BY DEF Targets, Results
    <3> DEFINE f == FieldSet(C, o, key)
               g == FieldSet(C, w, key)
               u == buildTarget(C, o, f)
    <3>2. key \in groups(C) /\ key.kind \in KindNames
      <4>1. PICK n \in DOMAIN Names : key = entryKey[n]
        BY <3>1 DEF Built, groups, Carried, Definitions
      <4>2. key.kind \in KindNames
        BY <4>1, NamesAssumption, KindIsKnown DEF entryKey, Split
      <4>3. QED
        BY <3>1, <4>2 DEF Built
    <3>3. /\ f.kind = key.kind /\ g.kind = key.kind
          /\ f.values = fieldSet(C, key) /\ g.values = fieldSet(C, key)
          /\ f.defaults = d /\ g.defaults = w.defaults
      BY <2>1 DEF FieldSet
    <3> HIDE DEF f, g, u
    <3>4. key.kind = "stream"
      BY <3>1, <3>2, <3>3, <2>7, BuiltIsTarget DEF g
    <3>5. Recertified(f, g)
      <4>1. string(f, "ssl_forced") = Unset
        <5>1. [block |-> Unset, name |-> "ssl_forced"] \notin DOMAIN f.values
          BY <3>2, <3>3, <3>4, StreamsAskForNoTLS
        <5>2. raw(f, Unset, "ssl_forced") = Unset
          BY <5>1 DEF raw
        <5>3. "ssl_forced" \notin DOMAIN d["stream"]
          BY <2>2, StreamsHaveNoSwitches
        <5>4. QED
          BY <3>3, <3>4, <5>2, <5>3 DEF string, has, Value
      <4>2. QED
        BY <2>4, <2>5, <3>3, <3>4, <4>1 DEF Recertified
    <3>6. u # Error /\ u["kind"] = t["kind"] /\ u["key"] = t["key"]
      BY <2>3, <3>1, <3>5, RecertifiedStream DEF u, g
    <3>7. u \in Targets(Results(C, o))
      BY <2>6, <3>1, <3>6 DEF Targets, Results, u, f
    <3>8. QED
      BY <3>6, <3>7 DEF Key
  <2>8. ASSUME NEW x, NEW k
        PROVE  k \in Streams(x) <=>
                 /\ k[1] = "stream"
                 /\ \E managed \in A : managed /\ \E t \in Targets(Results(C, x)) : k = Key(t)
    <3>1. k \in Streams(x) <=>
            /\ k[1] = "stream"
            /\ \E t : k = Key(t) /\ \E scan \in ScanWith(labels, state, x, A) : t \in scan.targets
      BY DEF Keys
    <3> HIDE DEF Streams, A
    <3>2. QED
      BY <3>1, ScansOfManaged
  <2> HIDE DEF Streams, A, C
  <2>9. Streams(w) \subseteq Streams(o)
    <3> SUFFICES ASSUME NEW k \in Streams(w) PROVE k \in Streams(o)
      OBVIOUS
    <3>1. PICK managed \in A : managed /\ \E t \in Targets(Results(C, w)) : k = Key(t)
      BY <2>8
    <3>2. PICK t \in Targets(Results(C, w)) : k = Key(t)
      BY <3>1
    <3>3. t["kind"] = "stream"
      BY <2>8, <3>2 DEF Key
    <3>4. PICK u \in Targets(Results(C, o)) : Key(u) = Key(t)
      BY <2>7, <3>3
    <3>5. QED
      BY <2>8, <3>1, <3>2, <3>4
  <2>10. QED
    BY <2>9 DEF DefaultBreaksNoStream, Streams, A, o, w
<1>2. QED
  BY <1>1, LInvAlways, PTL
================================================================================
