------------------------------ MODULE LabelParser ------------------------------
(***************************************************************************)
(* What the labels of one container ask for (internal/docker/labels.go,    *)
(* build.go and the container model of target.go): the labels are sorted   *)
(* into definitions by kind and index, and every definition becomes one    *)
(* target or an error.  A target with no error is what the reconcile       *)
(* worker gets; a container with an error is protected.                    *)
(*                                                                         *)
(* A label name is the sequence of its tokens after the namespace, e.g.    *)
(* <<"1", "proxy", "domains">>; Names lists the ones a container may       *)
(* carry in the order sort.Strings puts them.  A container carries a value *)
(* for some of them: c.labels is a function over DOMAIN Names, Absent for  *)
(* a label that is not there.  c.state is Docker's state, c.networks the   *)
(* networks it is attached to and c.ports the TCP ports it exposes.        *)
(* Options o: prefer and strict networks, resolve_ip, strict labels,       *)
(* exposed by default, and the defaults.                                   *)
(***************************************************************************)
EXTENDS LabelFields, Naturals, FiniteSetsExt

CONSTANTS
  Names,          \* the label names, sorted
  Absent          \* no such label

ASSUME NamesAssumption ==
  /\ Names \in Seq(Seq(STRING))
  /\ Absent # "?"

Error == [kind |-> "error"]     \* a definition that had to be dropped

-------------------------------------------------------------------------------
(* The container. *)

\* restarting counts as running, although Docker reports neither an address
\* nor ports for it.
Running(c) == c.state # "exited"
HasAddress(c) == c.state = "running"

IPAddress(c, prefer, strict) ==
  IF HasAddress(c) /\ c.networks \cap prefer # {} THEN "ip"
  ELSE IF HasAddress(c) /\ ~strict /\ c.networks # {} THEN "other-ip"
  ELSE Unset

OnAnyNetwork(c, prefer) == prefer = {} \/ c.networks \cap prefer # {}

\* The upstream host: the address when it is asked for, else the name; with
\* strict networks nothing that is not on one of them.
ResolveHost(c, o, resolveIP) ==
  LET ip == IPAddress(c, o.prefer, o.strictNetworks)
  IN  IF resolveIP /\ ip # Unset THEN ip
      ELSE IF o.strictNetworks /\ (resolveIP \/ ~OnAnyNetwork(c, o.prefer)) THEN Unset
      ELSE "name"

\* The only port, or the first of the preference list that is exposed.
DefaultPortPreference == <<"80", "8080">>

GuessPort(c) ==
  LET exposed == IF HasAddress(c) THEN c.ports ELSE {}
      listed == {i \in DOMAIN DefaultPortPreference :
                   DefaultPortPreference[i] \in exposed}
  IN  IF \E p \in exposed : exposed = {p} THEN CHOOSE p \in exposed : TRUE
      ELSE IF listed # {} THEN DefaultPortPreference[Min(listed)] ELSE Unset

-------------------------------------------------------------------------------
(* Label names. *)

kindAliases ==
  [alias \in KindNames \cup {"404", "proxies"} |->
     CASE alias = "404" -> "dead"
       [] alias = "proxies" -> "proxy"
       [] OTHER -> alias]

\* What strconv.Atoi reads.
Number ==
  [text \in {"0", "1", "2", "404"} |->
     CASE text = "0" -> 0 [] text = "1" -> 1 [] text = "2" -> 2 [] text = "404" -> 404]

\* One kind and one index lead a name, in either order and both optional; the
\* rest is the field.
splitLabel(tokens) ==
  LET kindFirst == tokens # <<>> /\ Head(tokens) \in DOMAIN kindAliases
      indexFirst == tokens # <<>> /\ ~kindFirst /\ Head(tokens) \in DOMAIN Number
      both == /\ Len(tokens) > 1
              /\ \/ kindFirst /\ tokens[2] \in DOMAIN Number
                 \/ indexFirst /\ tokens[2] \in DOMAIN kindAliases
      lead == IF both THEN 2 ELSE IF kindFirst \/ indexFirst THEN 1 ELSE 0
  IN  [kind |-> IF kindFirst THEN kindAliases[Head(tokens)]
                ELSE IF both THEN kindAliases[tokens[2]] ELSE "proxy",
       index |-> IF indexFirst THEN Number[Head(tokens)]
                 ELSE IF both THEN Number[tokens[2]] ELSE 0,
       kindSet |-> kindFirst \/ both,
       field |-> SubSeq(tokens, lead + 1, Len(tokens))]

Plain(name, inverted) == [block |-> Unset, name |-> name, inverted |-> inverted]
Unknown == Plain(Unset, FALSE)

\* "location.<n>.<field>", whatever the kind.
locationField(field) ==
  IF Len(field) # 3 \/ field[2] \notin DOMAIN Number THEN Unknown
  ELSE IF LookupLocation(field[3]) # Unset
       THEN [block |-> field[2], name |-> LookupLocation(field[3]), inverted |-> FALSE]
  ELSE IF IsInverseAlias(field[3])
       THEN [block |-> field[2], name |-> inverseAliases[field[3]], inverted |-> TRUE]
  ELSE Unknown

resolveField(kind, field) ==
  IF Len(field) = 1 /\ Lookup(kind, field[1]) # Unset
  THEN Plain(Lookup(kind, field[1]), FALSE)
  ELSE IF field[1] = "location" THEN locationField(field)
  ELSE IF /\ Len(field) = 1 /\ IsInverseAlias(field[1])
          /\ Lookup(kind, inverseAliases[field[1]]) # Unset
       THEN Plain(inverseAliases[field[1]], TRUE)
  ELSE Unknown

\* What every label of the vocabulary means.
Split == [n \in DOMAIN Names |-> splitLabel(Names[n])]
entryKey == [n \in DOMAIN Names |->
               [kind |-> Split[n].kind, index |-> Split[n].index]]
ContainerSwitch == {n \in DOMAIN Names : Names[n] = <<"enable">>}
Malformed == {n \in DOMAIN Names : Split[n].field = <<>>}
IndexSwitch ==
  {n \in DOMAIN Names \ ContainerSwitch :
     ~Split[n].kindSet /\ Split[n].field = <<"enable">>}
Definitions == DOMAIN Names \ (ContainerSwitch \cup Malformed \cup IndexSwitch)
Meaning == [n \in Definitions |-> resolveField(Split[n].kind, Split[n].field)]
Inverted == {n \in Definitions : Meaning[n].inverted}

UnknownNames == {n \in Definitions : Meaning[n] = Unknown}

\* The labels that set each field of each definition.
Slot == [n \in Definitions |-> [block |-> Meaning[n].block, name |-> Meaning[n].name]]
Setters ==
  [key \in {entryKey[n] : n \in Definitions} |->
     [s \in {Slot[n] : n \in Definitions \ UnknownNames} |->
        {n \in Definitions \ UnknownNames : entryKey[n] = key /\ Slot[n] = s}]]

-------------------------------------------------------------------------------
(* Sorting the labels. *)

Carried(c, names) == {n \in names : c.labels[n] # Absent}

\* The values of the opt-in label; with two spellings of it the source takes
\* whichever the iteration of a map comes to first.
lookupEnable(c) == {c.labels[n] : n \in Carried(c, ContainerSwitch)}

hasFieldLabel(c) == Carried(c, Definitions \cup IndexSwitch) # {}

\* What Managed may answer: a value that is no boolean counts as opted out.
Managed(c, o) ==
  IF lookupEnable(c) # {} THEN {ParseBool(v) : v \in lookupEnable(c)}
  ELSE {o.exposedByDefault /\ hasFieldLabel(c)}

\* The labels that cannot be sorted or whose switch cannot be read.
LabelErrors(c) ==
  Carried(c, Malformed)
  \cup {n \in Carried(c, IndexSwitch \cup Inverted) : c.labels[n] \notin Bools}

\* (slip: only what is misspelt within a known kind is reported)
UnknownInKind(c) == {n \in Carried(c, UnknownNames) : Split[n].kindSet}

UnknownLabels(c) == Carried(c, UnknownNames)

\* The indexes switched off, by the last of the switches that can be read.
disabled(c) ==
  LET switches(i) == {n \in Carried(c, IndexSwitch) :
                        Split[n].index = i /\ c.labels[n] \in Bools}
  IN  {i \in {Split[n].index : n \in IndexSwitch} :
         switches(i) # {} /\ ~ParseBool(c.labels[Max(switches(i))])}

groups(c) == {entryKey[n] : n \in Carried(c, Definitions)}
tainted(c, key) == \E n \in UnknownLabels(c) : entryKey[n] = key

Negated(v) == IF v = "true" THEN "false" ELSE "true"

\* The field set of one definition: of the labels that set a field, the last.
fieldSet(c, key) ==
  LET given(s) == {n \in Carried(c, Setters[key][s]) :
                     n \in Inverted => c.labels[n] \in Bools}
      value(n) == IF n \in Inverted THEN Negated(c.labels[n]) ELSE c.labels[n]
  IN  [s \in {s \in DOMAIN Setters[key] : given(s) # {}} |-> value(Max(given(s)))]
================================================================================
