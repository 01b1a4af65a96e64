--------------------------- MODULE LabelledContainer ---------------------------
(***************************************************************************)
(* A container whose labels are edited - on purpose and by mistake - while *)
(* it is stopped, restarted and moved between networks, and the hosts the  *)
(* runs keep for it.  labels is what Docker reports, meant what the        *)
(* operator wanted to write: a slip changes the first and not the second.  *)
(* A run scans the container and creates, keeps and deletes its hosts by   *)
(* the result and the stop policy (the worker itself is Reconciler).       *)
(***************************************************************************)
EXTENDS LabelTargets

CONSTANTS
  Compositions,   \* the label sets the container may start with
  Offers,         \* by name: the values the operator may choose
  Misspelt,       \* <<n, m, slip>>: name n mistyped becomes name m
  Synonyms,       \* <<n, m>>: two spellings of the same label
  Slips,          \* the kinds of slip that happen
  Settings,       \* the options the process may run with
  PortSets,       \* the ports the container may expose
  NetworkSets,    \* the networks it may be attached to
  MaxEdits        \* bound: changes of the labels

SlipKinds == {"value", "field", "segment", "enable"}

ASSUME ContainerAssumption ==
  /\ Slips \subseteq SlipKinds
  /\ MaxEdits \in Nat
  /\ \A ls \in Compositions : DOMAIN ls = DOMAIN Names
  /\ \A o \in Settings : ~LoadFails(o.env)

\* Two labels set the same field of the same definition, or the same switch.
SetTheSame(n, m) ==
  \/ {m, n} \subseteq ContainerSwitch
  \/ {m, n} \subseteq IndexSwitch /\ Split[m].index = Split[n].index
  \/ /\ {m, n} \subseteq Definitions \ UnknownNames
     /\ entryKey[m] = entryKey[n] /\ Slot[m] = Slot[n]

\* No field is written in two spellings at once, two spellings read a value alike, and a
\* mistyped name means nothing; if only the field is mistyped the label still belongs to
\* its definition.
ASSUME VocabularyAssumption ==
  /\ \A ls \in Compositions : \A n, m \in DOMAIN Names :
       n # m /\ ls[n] # Absent /\ ls[m] # Absent => ~SetTheSame(n, m)
  /\ \A s \in Synonyms : SetTheSame(s[1], s[2]) /\ (s[1] \in Inverted <=> s[2] \in Inverted)
  /\ \A s \in Misspelt :
       /\ s[2] \in UnknownNames \cup Malformed /\ s[3] \in {"field", "segment"}
       /\ s[3] = "field" => /\ {s[1], s[2]} \subseteq Definitions
                            /\ entryKey[s[1]] = entryKey[s[2]]

VARIABLES
  labels,     \* the labels of the container
  meant,      \* the labels without the slips
  state,      \* Docker's state of the container
  networks,   \* the networks it is attached to
  ports,      \* the ports it exposes
  opts,       \* the options of the process
  hosts,      \* the hosts the server has for the container, by key
  slips,      \* the kinds of slip that have happened and are not mended
  edits       \* how many times the labels were changed

vars == <<labels, meant, state, networks, ports, opts, hosts, slips, edits>>

\* The container as Docker reports it with these labels in this state.
Container(ls, st) ==
  [labels |-> ls, state |-> st, networks |-> networks, ports |-> ports]

DefaultsOf == [o \in Settings |-> LoadDefaults(o.env)]

Options ==
  [prefer |-> opts.prefer, strictNetworks |-> opts.strictNetworks,
   resolveIP |-> opts.resolveIP, strictLabels |-> opts.strictLabels,
   exposedByDefault |-> opts.exposedByDefault,
   defaults |-> DefaultsOf[opts]]

\* What a scan may find with these labels in this state, under the options o and
\* each answer to whether the container is managed.
ScanWith(ls, st, o, answers) ==
  UNION {Scans(c, p, managed) : c \in {Container(ls, st)}, p \in {o}, managed \in answers}
Answers(ls, st) == Managed(Container(ls, st), Options)

\* The targets of a container, if it is managed.
Asked(ls, st) == UNION {scan.targets : scan \in ScanWith(ls, st, Options, Answers(ls, st))}
Keys(targets) == {Key(t) : t \in targets}

Init ==
  /\ labels \in Compositions
  /\ meant = labels
  /\ state = "running"
  /\ networks \in NetworkSets
  /\ ports \in PortSets
  /\ opts \in Settings
  /\ hosts = {}
  /\ slips = {}
  /\ edits = 0

-------------------------------------------------------------------------------
(* The operator. *)

Change(n, v) == [labels EXCEPT ![n] = v]

Changing ==
  /\ edits < MaxEdits
  /\ edits' = edits + 1
  /\ UNCHANGED <<state, networks, ports, opts, hosts>>

\* Another label of the container sets the same.
Rivals(n) == {m \in DOMAIN Names \ {n} : meant[m] # Absent /\ SetTheSame(n, m)}

\* A label is set, changed, emptied or removed on purpose.  A field is not
\* written in two spellings at once.
Edit(n) ==
  /\ Changing
  /\ Rivals(n) = {} /\ Offers[n] # {}
  /\ labels[n] = meant[n]
  /\ \E v \in (Offers[n] \cup {Absent}) \ {labels[n]} :
       /\ labels' = Change(n, v)
       /\ meant' = [meant EXCEPT ![n] = v]
  /\ UNCHANGED slips

\* The path of a location that may be a named one: any text will do.
AnyPath(n) ==
  /\ Slot[n].name = "path"
  /\ \E m \in Definitions : /\ entryKey[m] = entryKey[n]
                            /\ Slot[m] = [block |-> Slot[n].block, name |-> "type"]

\* A value that means nothing can be told from one that does.
HasFormat ==
  ContainerSwitch \cup IndexSwitch
  \cup {n \in Definitions : /\ "?" \notin Readable(Split[n].kind, Slot[n].name)
                            /\ ~AnyPath(n)}

\* A label gets a value that means nothing.
MistypeValue(n) ==
  LET slip == IF n \in ContainerSwitch THEN "enable" ELSE "value"
  IN  /\ Changing
      /\ slip \in Slips /\ n \in HasFormat
      /\ labels[n] = meant[n] /\ labels[n] # Absent
      /\ labels' = Change(n, "?")
      /\ slips' = slips \cup {slip}
      /\ UNCHANGED meant

\* A label gets a name that means nothing: the field or the segment before it.
MistypeName(n) ==
  /\ Changing
  /\ labels[n] = meant[n] /\ labels[n] # Absent
  /\ \E s \in Misspelt :
       /\ s[1] = n /\ s[3] \in Slips
       /\ labels[s[2]] = Absent
       /\ labels' = [Change(n, Absent) EXCEPT ![s[2]] = labels[n]]
       /\ slips' = slips \cup {s[3]}
  /\ UNCHANGED meant

\* A label is written in another spelling, and is the only one of its field.
Respell(n) ==
  /\ Changing
  /\ labels = meant /\ labels[n] # Absent
  /\ \E s \in Synonyms :
       /\ s[1] = n /\ labels[s[2]] = Absent
       /\ labels' = [Change(n, Absent) EXCEPT ![s[2]] = labels[n]]
  /\ meant' = labels'
  /\ UNCHANGED slips

\* The slips are mended.
Mend ==
  /\ labels # meant
  /\ labels' = meant
  /\ slips' = {}
  /\ UNCHANGED <<meant, state, networks, ports, opts, hosts, edits>>

-------------------------------------------------------------------------------
(* Docker. *)

Environment == UNCHANGED <<labels, meant, ports, opts, hosts, slips, edits>>

Stop ==
  /\ state # "exited"
  /\ state' = "exited"
  /\ Environment /\ UNCHANGED networks

Start ==
  /\ state # "running"
  /\ state' = "running"
  /\ Environment /\ UNCHANGED networks

\* The container ends by itself and its restart policy brings it back.
CrashLoop ==
  /\ state = "running"
  /\ state' = "restarting"
  /\ Environment /\ UNCHANGED networks

Connect ==
  /\ networks' \in NetworkSets \ {networks}
  /\ Environment /\ UNCHANGED state

-------------------------------------------------------------------------------
(* A run.                                                                  *)

Stopped == ~Running(Container(labels, state))

\* applyStopPolicy: with NPM_ON_STOP=delete a stopped container asks for
\* nothing once its grace is over.
applyStopPolicy(targets, inGrace) ==
  IF opts.onStop = "delete" /\ Stopped /\ ~inGrace THEN {} ELSE targets

\* reconcileKind and the deletions: the hosts of the targets are there after the
\* run - none is created within the grace, or without an address or a port -
\* and of the others only those of a protected container.  How long ago the
\* container stopped, and with it the grace, is any.
Reconcile ==
  /\ \E scan \in ScanWith(labels, state, Options, Answers(labels, state)),
        inGrace \in IF Stopped THEN BOOLEAN ELSE {FALSE} :
       \E targets \in {applyStopPolicy(scan.targets, inGrace)} :
         hosts' = {k \in Keys(targets) :
                     \/ k \in hosts
                     \/ ~inGrace /\ \E t \in targets : Key(t) = k /\ Complete(t)}
                  \cup (IF scan.protected THEN hosts ELSE {})
  /\ UNCHANGED <<labels, meant, state, networks, ports, opts, slips, edits>>

Next ==
  \/ \E n \in DOMAIN Names : Edit(n)
  \/ \E n \in DOMAIN Names : MistypeValue(n)
  \/ \E n \in DOMAIN Names : MistypeName(n)
  \/ \E n \in DOMAIN Names : Respell(n)
  \/ Mend \/ Stop \/ Start \/ CrashLoop \/ Connect \/ Reconcile

Spec == Init /\ [][Next]_vars

-------------------------------------------------------------------------------
(* Properties. *)

\* The keys of the resources: a domain, or the port of a stream.
KeySet == (KindNames \ {"stream"}) \X {"a.org", "b.org", "c.org"}
          \cup {"stream"} \X Ports

\* The types of the variables; in particular every host has an identity that
\* was read from a valid domain or port (validDomain).
TypeOK ==
  /\ DOMAIN labels = DOMAIN Names /\ DOMAIN meant = DOMAIN Names
  /\ state \in {"running", "restarting", "exited"}
  /\ networks \in NetworkSets /\ ports \in PortSets /\ opts \in Settings
  /\ hosts \subseteq KeySet
  /\ slips \subseteq Slips
  /\ edits \in 0..MaxEdits

\* What the operator wants of the container: what it asks for when it runs, but
\* nothing of a stopped one where NPM_ON_STOP says that it goes.
Wanted == IF opts.onStop = "delete" /\ Stopped THEN {} ELSE Keys(Asked(meant, "running"))

\* A value that cannot be read or a field name that does not exist never
\* costs a host: what the container is meant to have stays, whatever happens
\* to the container meanwhile (the protection of Scan).  Only the stop policy
\* takes a host, which it would take without the slip as well.
UnreadableKeepsHosts ==
  [][slips \subseteq {"value", "field"} => (hosts \cap Wanted) \subseteq hosts']_hosts

\* No typo in a label takes a host down (README: "A label contains a typo |
\* That container's hosts are protected, not deleted").
TypoKeepsHosts == [][(hosts \cap Wanted) \subseteq hosts']_hosts

\* When a slip changes what a managed container asks for, the run says so: an
\* error or a warning names the label.
NoSilentChange ==
  \A managed \in Answers(labels, state) :
    \A scan \in ScanWith(labels, state, Options, {managed}),
       ideal \in ScanWith(meant, state, Options, {managed}) :
      "enable" \notin slips /\ scan.targets # ideal.targets => scan.reported

\* One broken definition does not hide the valid ones: the targets of the
\* other definitions are what they were before the slip.
OthersUnaffected ==
  [][\A n \in HasFormat \ ContainerSwitch :
       labels[n] # "?" /\ labels' = Change(n, "?") =>
         {t \in Asked(labels, state) : [kind |-> t.kind, index |-> t.index] # entryKey[n]}
         \subseteq Asked(labels', state)]_labels

\* A container that stops is idle and not broken: every resource it has when
\* it runs is still asked for, and nothing becomes an error for want of an
\* address or a port.
StoppedIsIdle ==
  \A managed \in Answers(labels, state) :
    \A up \in ScanWith(labels, "running", Options, {managed}),
       down \in ScanWith(labels, "exited", Options, {managed}) :
      /\ Keys(up.targets) \subseteq Keys(down.targets)
      /\ down.errors => up.errors

\* Only a stopped container has targets without an address or a port.
RunningIsComplete ==
  Running(Container(labels, state)) => \A t \in Asked(labels, state) : Complete(t)

\* Both positions of the index and every alias of a field are the same label.
SpellingDoesNotMatter ==
  [][\A s \in Synonyms :
       /\ labels = meant /\ labels' = meant'
       /\ labels[s[1]] # Absent /\ labels[s[2]] = Absent
       /\ labels' = [Change(s[1], Absent) EXCEPT ![s[2]] = labels[s[1]]]
       => Asked(labels', state) = Asked(labels, state)]_labels

\* A default certificate was meant for the hosts: it never turns the
\* definition of a stream into an error.
DefaultBreaksNoStream ==
  LET without == [Options EXCEPT !.defaults["stream"].certificate = Automatic]
      found(o) == ScanWith(labels, state, o, Answers(labels, state))
      streams(o) == {k \in UNION {Keys(scan.targets) : scan \in found(o)} : k[1] = "stream"}
  IN  streams(without) \subseteq streams(Options)
================================================================================
