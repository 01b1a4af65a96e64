------------------------------ MODULE LabelTargets ------------------------------
(***************************************************************************)
(* One target per definition (internal/docker/build.go), and the scan of a *)
(* container: its targets, whether it is protected, what was reported      *)
(* (Parse and Scan of labels.go).                                          *)
(*                                                                         *)
(* The source reads the fields one after the other and gives up at the     *)
(* first it cannot use.  Which one that is decides only the wording of the *)
(* error, so a builder here is the condition under which it gives up and   *)
(* the target it makes otherwise.                                          *)
(***************************************************************************)
EXTENDS LabelParser

-------------------------------------------------------------------------------
(* Reading a field of a definition f = [kind, index, values, defaults]. *)

raw(f, block, name) ==
  LET slot == [block |-> block, name |-> name]
  IN  IF slot \in DOMAIN f.values THEN f.values[slot] ELSE Unset

has(f, name) == raw(f, Unset, name) # Unset

\* The label, unless it is empty, else the default.
string(f, name) ==
  IF has(f, name) THEN raw(f, Unset, name) ELSE Value(f.defaults, f.kind, name)

Reads(f, name) == string(f, name) \in Readable(f.kind, name) \cup {Unset}
boolean(f, name) == ParseBool(string(f, name))

\* The mode of the certificate: a lookup by id, name or domain is one mode.
certificateMode(text) ==
  CASE text \in {Unset, Automatic} -> "auto"
    [] text = "new" -> "new"
    [] text = "none" -> "none"
    [] OTHER -> "lookup"

\* Unset leaves the group alone, "none" clears it.
groupSpec(f) ==
  IF string(f, "group") = "none" THEN "cleared" ELSE string(f, "group")

\* The fields read for every kind.  A stream's table has no TLS switches and
\* a dead host no upstream: Reads is true of a field the kind does not have.
CommonFields ==
  {"enabled", "certificate", "ssl_forced", "ssl_hsts", "group",
   "dns_challenge", "propagation_seconds"}

CannotReadCommon(f) == \E name \in CommonFields : ~Reads(f, name)

validateCertificateFails(f, certificate) ==
  \/ boolean(f, "dns_challenge") /\ string(f, "dns_provider") = Unset
  \/ certificate = "none" /\ boolean(f, "ssl_forced")

-------------------------------------------------------------------------------
(* The upstream.  Unset is the address or port of a container that is       *)
(* stopped, GivesUp an error.                                               *)

GivesUp == "error"

\* (slip: a container without an address is broken, stopped or not)
AlwaysNeedsPort(c, f, fallback) ==
  LET port == string(f, "forward_port")
      guess == IF port = Automatic THEN GuessPort(c) ELSE Unset
  IN  IF ~Reads(f, "forward_port") THEN GivesUp
      ELSE IF port \notin {Unset, Automatic} THEN port
      ELSE IF guess # Unset THEN guess
      ELSE IF fallback # Unset THEN fallback ELSE GivesUp

resolvePort(c, f, fallback) ==
  LET port == string(f, "forward_port")
      guess == IF port = Automatic THEN GuessPort(c) ELSE Unset
  IN  IF ~Reads(f, "forward_port") THEN GivesUp
      ELSE IF port \notin {Unset, Automatic} THEN port
      ELSE IF guess # Unset THEN guess
      ELSE IF fallback # Unset THEN fallback
      ELSE IF Running(c) THEN GivesUp ELSE Unset

\* resolve_ip is only read where no host is given, and its own default is
\* the process's setting.
resolveForwardHost(c, o, f) ==
  LET explicit == string(f, "forward_host")
      resolveIP == IF has(f, "resolve_ip") THEN boolean(f, "resolve_ip")
                   ELSE o.resolveIP
      host == ResolveHost(c, o, resolveIP)
  IN  IF explicit # Unset THEN explicit
      ELSE IF has(f, "resolve_ip") /\ ~Reads(f, "resolve_ip") THEN GivesUp
      ELSE IF host # Unset THEN host
      ELSE IF Running(c) THEN GivesUp ELSE Unset

-------------------------------------------------------------------------------
(* Access lists and location blocks. *)

AccessListFails(lists, type, defaultType) ==
  \/ lists \notin Readable("proxy", "access_list") \cup {Unset}
  \/ type = "custom" /\ lists = Unset
  \/ type = "global" /\ defaultType # "global"
  \/ type \notin {Unset, "public", "custom", "global"}

\* The type follows from the lists when it is not given; "public" and
\* "global" drop them.
AccessListOf(lists, type, defaultType) ==
  LET effective == IF type # Unset THEN type
                   ELSE IF lists # Unset THEN "custom" ELSE defaultType
  IN  [type |-> effective, lists |-> IF effective = "custom" THEN lists ELSE Unset]

Blocks(f) == {s.block : s \in DOMAIN f.values} \ {Unset}

LocationFails(f, b) ==
  LET of(name) == raw(f, b, name)
      bad(name) == of(name) \notin Readable("proxy", name) \cup {Unset}
  IN  \/ of("path") = Unset
      \/ bad("type")
      \/ of("type") # "named" /\ bad("path")
      \/ bad("forward_scheme") \/ bad("enabled") \/ bad("crowdsec_appsec")
      \/ of("forward_port") \notin Ports \cup {Unset}
      \/ AccessListFails(of("access_list"), of("access_list_type"), "global")

\* Whatever a block does not set it takes from the host.
buildLocation(f, b, t) ==
  LET or(name, inherited) == IF raw(f, b, name) # Unset THEN raw(f, b, name) ELSE inherited
  IN  [path |-> raw(f, b, "path"), type |-> or("type", "prefix"),
       host |-> or("forward_host", t.host), port |-> or("forward_port", t.port),
       scheme |-> or("forward_scheme", t.scheme), enabled |-> or("enabled", "true"),
       crowdsec |-> or("crowdsec_appsec", t.crowdsec),
       access |-> AccessListOf(raw(f, b, "access_list"),
                               raw(f, b, "access_list_type"), "global")]

-------------------------------------------------------------------------------
(* The four builders. *)

DomainsFail(f) == string(f, "domains") = Unset \/ ~Reads(f, "domains")

\* The settings of a target: those of every kind and those of its own.
Extended(base, own) ==
  [setting \in DOMAIN base \cup DOMAIN own |->
     IF setting \in DOMAIN own THEN own[setting] ELSE base[setting]]

Base(f) ==
  [kind |-> f.kind, index |-> f.index, enabled |-> boolean(f, "enabled"),
   certificate |-> string(f, "certificate"), forced |-> string(f, "ssl_forced"),
   hsts |-> boolean(f, "ssl_hsts"), group |-> groupSpec(f),
   advanced |-> string(f, "advanced_config")]

buildProxy(c, o, f) ==
  LET host == resolveForwardHost(c, o, f)
      port == resolvePort(c, f, Unset)
      t == Extended(Base(f),
             [key |-> string(f, "domains"), host |-> host, port |-> port,
              scheme |-> string(f, "forward_scheme"),
              crowdsec |-> string(f, "crowdsec_appsec"),
              access |-> AccessListOf(string(f, "access_list"),
                                      string(f, "access_list_type"), "public")])
  IN  IF \/ DomainsFail(f) \/ host = GivesUp \/ port = GivesUp
         \/ ~Reads(f, "forward_scheme") \/ ~Reads(f, "crowdsec_appsec")
         \/ AccessListFails(string(f, "access_list"),
                            string(f, "access_list_type"), "public")
         \/ \E b \in Blocks(f) : LocationFails(f, b)
      THEN Error
      ELSE Extended(t, [locations |-> {buildLocation(f, b, t) : b \in Blocks(f)}])

buildRedirect(f) ==
  IF \/ DomainsFail(f)
     \/ string(f, "forward_domain") = Unset \/ ~Reads(f, "forward_domain")
     \/ \E name \in {"forward_scheme", "http_code", "preserve_path"} : ~Reads(f, name)
  THEN Error
  ELSE Extended(Base(f),
         [key |-> string(f, "domains"), to |-> string(f, "forward_domain"),
          scheme |-> string(f, "forward_scheme"), code |-> string(f, "http_code")])

\* The transport: the protocol, overridden by the switches that are set; with
\* no protocol the switches and their defaults.
Forwards(f, name) ==
  LET protocol == string(f, "protocol")
  IN  IF has(f, name) \/ protocol = Unset THEN boolean(f, name)
      ELSE protocol \in {name, "both"}

TransportFails(f) ==
  \/ ~Reads(f, "protocol")
  \/ \E name \in {"tcp", "udp"} :
       (has(f, name) \/ string(f, "protocol") = Unset) /\ ~Reads(f, name)
  \/ ~Forwards(f, "tcp") /\ ~Forwards(f, "udp")

\* A stream cannot ask for a new certificate, and TLS works over TCP only: an
\* error if a label says so, dropped if it only comes from a default.
StreamCertificate(f) ==
  LET mode == certificateMode(string(f, "certificate"))
      unusable == mode = "new" \/ (Forwards(f, "udp") /\ mode = "lookup")
  IN  IF ~unusable THEN string(f, "certificate")
      ELSE IF has(f, "certificate") THEN GivesUp ELSE "none"

validateStreamFails(f) ==
  \/ StreamCertificate(f) = GivesUp
  \/ Forwards(f, "udp") /\ (boolean(f, "proxy_tls")
                            \/ string(f, "proxy_protocol") = "v1")

buildStream(c, o, f) ==
  LET incoming == string(f, "incoming_port")
      host == resolveForwardHost(c, o, f)
      port == resolvePort(c, f, incoming)
  IN  IF \/ incoming \in {Unset, Automatic} \/ ~Reads(f, "incoming_port")
         \/ host = GivesUp \/ port = GivesUp \/ TransportFails(f)
         \/ ~Reads(f, "proxy_protocol") \/ ~Reads(f, "proxy_tls")
         \/ validateStreamFails(f)
      THEN Error
      ELSE Extended(Base(f),
             [certificate |-> StreamCertificate(f),
              key |-> incoming, host |-> host, port |-> port,
              tcp |-> Forwards(f, "tcp"), udp |-> Forwards(f, "udp"),
              proxyProtocol |-> string(f, "proxy_protocol"),
              proxyTLS |-> boolean(f, "proxy_tls"),
              description |-> IF string(f, "description") # Unset
                              THEN string(f, "description") ELSE "name"])

buildDead(f) ==
  IF DomainsFail(f) THEN Error ELSE Extended(Base(f), [key |-> string(f, "domains")])

buildTarget(c, o, f) ==
  LET t == CASE f.kind = "proxy" -> buildProxy(c, o, f)
             [] f.kind = "redirect" -> buildRedirect(f)
             [] f.kind = "stream" -> buildStream(c, o, f)
             [] f.kind = "dead" -> buildDead(f)
  IN  IF \/ CannotReadCommon(f) \/ t = Error
         \/ validateCertificateFails(f, certificateMode(t.certificate))
      THEN Error ELSE t

\* Everything a create or an update needs.
Complete(t) == t.kind \in {"redirect", "dead"} \/ (t.host # Unset /\ t.port # Unset)

\* The identity of a target, and of the host it becomes.
Key(t) == <<t.kind, t.key>>

-------------------------------------------------------------------------------
(* Parse and Scan. *)

FieldSet(c, o, key) ==
  [kind |-> key.kind, index |-> key.index,
   values |-> fieldSet(c, key), defaults |-> o.defaults]

\* The definitions that are built at all.
Built(c, o) ==
  {key \in groups(c) :
     key.index \notin disabled(c) /\ ~(o.strictLabels /\ tainted(c, key))}

Results(c, o) ==
  {buildTarget(c, o, f) : f \in {FieldSet(c, o, key) : key \in Built(c, o)}}

\* (slip: a container with one broken definition yields nothing)
AllOrNothing(results) == IF Error \in results THEN {} ELSE results

\* The targets: one broken definition does not take the others with it.
Targets(results) == results \ {Error}

\* A definition that is built was tainted, and strict labels skip it.
Skipped(c, o) ==
  o.strictLabels /\ \E key \in groups(c) :
                       key.index \notin disabled(c) /\ tainted(c, key)

\* (slip: a resource skipped under STRICT_LABELS is not protected)
ProtectedOnErrorsOnly(c, o, errors) == errors

\* The hosts of a container with an error stay, whatever the labels ask for.
Protected(c, o, errors) == errors \/ Skipped(c, o)

\* What one scan makes of a container; reported says that there was an error
\* or a warning.
Scan(c, o, managed, results) ==
  LET errors == managed /\ (LabelErrors(c) # {} \/ Error \in results)
  IN  [targets |-> Targets(results), errors |-> errors,
       protected |-> managed /\ Protected(c, o, errors),
       reported |-> errors \/ (managed /\ UnknownLabels(c) # {})]
Scans(c, o, managed) ==
  {Scan(c, o, managed, results) : results \in {IF managed THEN Results(c, o) ELSE {}}}
================================================================================
