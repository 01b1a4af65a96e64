------------------------------ MODULE LabelFields ------------------------------
(***************************************************************************)
(* The field registry: which labels every kind of resource takes, under    *)
(* which spellings, what their values may be, and what an unset one falls  *)
(* back to (internal/fields/fields.go and defaults.go).                    *)
(*                                                                         *)
(* One field stands for all that are read in the same way: of the plain    *)
(* switches of a proxy host only crowdsec_appsec, the one with an inverse  *)
(* spelling, is kept, of the TLS switches ssl_forced and ssl_hsts, and of  *)
(* the free texts advanced_config.  A value is a short name for the texts  *)
(* its reader tells apart; "?" is a text that no field with a format       *)
(* accepts, "" no text.  '.', '_' and '-' are interchangeable in the       *)
(* source's field names, so ssl.forced is written ssl_forced.              *)
(***************************************************************************)
EXTENDS Sequences, TLC

\* npm.Kinds, in the order a run handles them.
Kinds == <<"proxy", "redirect", "stream", "dead">>
KindNames == {"proxy", "redirect", "stream", "dead"}

Unset == ""
Automatic == "auto"

sslFields == [certificate |-> Automatic, ssl_forced |-> Automatic, ssl_hsts |-> "false"]

letsencryptFields ==
  [dns_challenge |-> "false", dns_provider |-> Unset,
   propagation_seconds |-> "0"]

\* enabledField, groupField and the snippet every kind carries.
commonFields ==
  [enabled |-> "true", group |-> Unset, advanced_config |-> Unset]

proxyFields ==
  [domains |-> Unset, forward_host |-> Unset, forward_port |-> Automatic,
   resolve_ip |-> Unset, forward_scheme |-> "http", access_list |-> Unset,
   access_list_type |-> Unset, crowdsec_appsec |-> "true"]
  @@ commonFields @@ sslFields @@ letsencryptFields

redirectFields ==
  [domains |-> Unset, forward_domain |-> Unset, forward_scheme |-> Automatic,
   http_code |-> "301", preserve_path |-> "true"]
  @@ commonFields @@ sslFields @@ letsencryptFields

\* A stream has the common fields as well, and a certificate of its own.
streamFields ==
  [incoming_port |-> Unset, forward_host |-> Unset, forward_port |-> Unset,
   resolve_ip |-> Unset, tcp |-> "true", udp |-> "false", protocol |-> Unset,
   proxy_protocol |-> "off", proxy_tls |-> "false", description |-> Unset,
   certificate |-> Automatic,
   enabled |-> "true", group |-> Unset, advanced_config |-> Unset]

deadFields == [domains |-> Unset] @@ commonFields @@ sslFields @@ letsencryptFields

\* Every field of a kind, with its built-in default.
Table ==
  [proxy |-> proxyFields, redirect |-> redirectFields,
   stream |-> streamFields, dead |-> deadFields]

LocationFields ==
  {"path", "type", "forward_host", "forward_port", "forward_scheme",
   "access_list", "access_list_type", "enabled", "crowdsec_appsec"}

\* Other spellings of a field: of the aliases of the source those a vocabulary
\* uses, so that a name the source does not know is not one of these either.
\* `host` is the upstream of a proxy host or a stream and the domain of the
\* kinds that have no upstream, `port` the port a proxy host forwards to and
\* the one a stream listens on.
Aliases ==
  [proxy |-> [domain |-> "domains", host |-> "forward_host",
              port |-> "forward_port", enable |-> "enabled"],
   redirect |-> [domain |-> "domains", host |-> "domains",
                 to |-> "forward_domain", enable |-> "enabled"],
   stream |-> [port |-> "incoming_port", listen |-> "incoming_port",
               listen_port |-> "incoming_port", host |-> "forward_host",
               ssl |-> "certificate", enable |-> "enabled"],
   dead |-> [domain |-> "domains", host |-> "domains", enable |-> "enabled"]]

LocationAliases == [host |-> "forward_host", port |-> "forward_port",
                    enable |-> "enabled"]

inverseAliases == [disable_crowdsec |-> "crowdsec_appsec"]

\* The canonical name of a spelling, Unset when no field has it.
Lookup(kind, name) ==
  IF name \in DOMAIN Table[kind] THEN name
  ELSE IF name \in DOMAIN Aliases[kind] THEN Aliases[kind][name]
  ELSE Unset

LookupLocation(name) ==
  IF name \in LocationFields THEN name
  ELSE IF name \in DOMAIN LocationAliases THEN LocationAliases[name]
  ELSE Unset

IsInverseAlias(name) == name \in DOMAIN inverseAliases

-------------------------------------------------------------------------------
(* Values. *)

Bools == {"true", "false"}

ParseBool(raw) == raw = "true"

BoolFields ==
  {"enabled", "ssl_hsts", "dns_challenge", "resolve_ip", "crowdsec_appsec",
   "preserve_path", "tcp", "udp", "proxy_tls"}

Ports == {"25", "80", "8080", "9000", "9001"}

\* The texts the reader of a field accepts when the field is set: a switch, a
\* port, an enum, and the texts that have a format of their own (a domain, a
\* group name that is not too long, a certificate, an access list id, the path
\* of a location).
Readable(kind, field) ==
  CASE field \in BoolFields -> Bools
    [] field = "ssl_forced" -> Bools \cup {Automatic}
    [] field \in {"forward_port", "incoming_port"} -> Ports \cup {Automatic}
    [] field = "http_code" -> {"301", "308"}
    [] field = "propagation_seconds" -> {"0", "30"}
    [] field = "forward_scheme" ->
         IF kind = "redirect" THEN {Automatic, "http", "https"}
         ELSE {"http", "https", "grpc"}
    [] field = "protocol" -> {"tcp", "udp", "both"}
    [] field = "proxy_protocol" -> {"off", "v1", "v2"}
    [] field = "access_list_type" -> {"public", "custom", "global"}
    [] field = "access_list" -> {"admins", "4"}
    [] field = "certificate" -> {Automatic, "new", "none", "7", "name:main", "a.org"}
    [] field \in {"domains", "forward_domain"} -> {"a.org", "b.org", "c.org"}
    [] field = "group" -> {"media", "none"}
    [] field = "path" -> {"/api", "/admin"}
    [] field = "type" -> {"prefix", "exact", "named"}
    [] OTHER -> {"10.0.0.9", "text", "?"}

\* A default is validated when the process starts, but only as far as its type
\* goes: texts, lists, domains, certificates and any number are taken.
Parse(kind, field, raw) ==
  \/ field \in {"domains", "forward_domain", "group", "access_list", "certificate"}
  \/ field = "http_code" /\ raw = "200"
  \/ raw \in Readable(kind, field) \ (IF field = "access_list_type"
                                      THEN {"global"} ELSE {})

-------------------------------------------------------------------------------
(* Defaults.  An environment is a function from <<scope, field>> to a text: *)
(* NPM_<KIND>_<FIELD>, or NPM_DEFAULT_<FIELD> with the scope "default".     *)

EnvOf(env, kind, field) ==
  IF <<kind, field>> \in DOMAIN env THEN env[<<kind, field>>]
  ELSE IF <<"default", field>> \in DOMAIN env THEN env[<<"default", field>>]
  ELSE Unset

\* The process does not start with a default it cannot read.
LoadFails(env) ==
  \E kind \in KindNames : \E field \in DOMAIN Table[kind] :
     /\ EnvOf(env, kind, field) # Unset
     /\ ~Parse(kind, field, EnvOf(env, kind, field))

LoadDefaults(env) ==
  [kind \in KindNames |->
     [field \in DOMAIN Table[kind] |->
        IF EnvOf(env, kind, field) # Unset THEN EnvOf(env, kind, field)
        ELSE Table[kind][field]]]

\* The effective default of a field; a field the kind does not have has none.
Value(defaults, kind, field) ==
  IF field \in DOMAIN defaults[kind] THEN defaults[kind][field] ELSE Unset
================================================================================
