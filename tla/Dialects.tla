----------------------------- MODULE Dialects -----------------------------
(***************************************************************************)
(* What a request body may carry (internal/npm/flavor.go, capabilities.go, *)
(* and the payload types of payloads.go).  NPM and NPMplus refuse a body   *)
(* with a property their release does not know; which ones it knows is     *)
(* read from GET /api/schema, or guessed from the flavour, the version and *)
(* the shape of the hosts the server returns.                              *)
(*                                                                         *)
(* Four releases stand for the generations the code tells apart: NPM       *)
(* before and from 2.12, NPMplus before and after it moved the meta object *)
(* into columns.  Of the properties, only those are listed that some       *)
(* release does not have, one for each group that comes and goes together. *)
(***************************************************************************)

Releases == {"npm211", "npm212", "plusMeta", "plusColumns"}
Upstream == {"npm211", "npm212"}
Kinds == {"proxy", "redirect", "stream", "dead"}
None == "none"

FlavourOf(release) == IF release \in Upstream THEN "npm" ELSE "npmplus"

\* The properties of each group: those the code spells "npmplus_", the legacy
\* switches and the columns that replaced the meta object.
PlusFields == {"npmplus_access_list_ids", "npmplus_http3_support",
               "npmplus_advanced_config", "npmplus_directory",
               "locations/npmplus_location_config"}
LegacySwitches(kind) ==
  CASE kind = "proxy" -> {"http2_support", "trust_forwarded_proto"}
    [] kind \in {"redirect", "dead"} -> {"http2_support"}
    [] OTHER -> {}
ColumnFields == {"npmplus_directory"}

---------------------------------------------------------------------------
(* The server.  Takes is its request schema, Reports what GET /api/ says   *)
(* of the version, Shape what its proxy hosts look like.                   *)

Takes(release, kind) ==
  (IF release = "plusColumns" THEN {"npmplus_directory"} ELSE {"meta"})
  \cup (IF kind = "stream"
        THEN IF release \in Upstream THEN {} ELSE {"npmplus_advanced_config"}
        ELSE {"advanced_config"})
  \cup (IF release \in Upstream \/ kind = "stream" THEN {}
        ELSE {"npmplus_http3_support"})
  \cup (IF release = "plusColumns" THEN {}
        ELSE LegacySwitches(kind) \ (IF release = "npm211" THEN {"trust_forwarded_proto"} ELSE {}))
  \cup (IF kind = "stream" /\ release # "npm211" THEN {"certificate_id"} ELSE {})
  \cup (IF kind # "proxy" THEN {}
        ELSE CASE release \in Upstream -> {"access_list_id"}
               [] release = "plusMeta" -> {"npmplus_access_list_ids",
                                           "locations/npmplus_location_config"}
               [] OTHER -> {"npmplus_access_list_ids"})

Reports(release) == IF release = "plusMeta" THEN "" ELSE release

\* flavourOf and metaRetiredFrom on a proxy host of the release.
ShapeFlavour(release) == FlavourOf(release)
ShapeRetired(release) == release = "plusColumns"

---------------------------------------------------------------------------
(* The client's view: the flavour it detected, the version GET /api/       *)
(* reported, the release whose schema it has read, and, without one,       *)
(* whether the server has retired the meta object.                         *)

Dialect == [flavour: {"auto", "npm", "npmplus"}, version: Releases \cup {""},
            schema: Releases \cup {None}, retired: BOOLEAN]
Unread == [flavour |-> "auto", version |-> "", schema |-> None, retired |-> FALSE]

\* dialectLocked: a flavour not detected yet is written as NPMplus.
WrittenAs(d) == IF d.flavour = "npm" THEN "npm" ELSE "npmplus"

\* versionShape: NPM reports an object, NPMplus a string or nothing.
VersionShape(version) ==
  CASE version = "" -> None
    [] version \in Upstream -> "object"
    [] OTHER -> "string"

\* The flavour a version tells, NPMplus when it tells nothing.
VersionFlavour(version) == IF VersionShape(version) = "object" THEN "npm" ELSE "npmplus"

\* parseVersion and AtLeast(2, 12): what cannot be compared is new enough.
AtLeast212(version) == VersionShape(version) # "object" \/ version # "npm211"

\* assumes: the built-in knowledge, used without a schema.
Assumes(d, kind, field) ==
  IF WrittenAs(d) = "npm"
  THEN /\ field \notin PlusFields
       /\ field = "trust_forwarded_proto" \/ (kind = "stream" /\ field = "certificate_id")
            => AtLeast212(d.version)
  ELSE /\ field \in {"meta", "locations/npmplus_location_config"} \cup LegacySwitches(kind)
            => ~d.retired
       /\ field \in ColumnFields => d.retired

\* Accepts: the schema decides when there is one.
Accepts(d, kind, field) ==
  IF d.schema # None THEN field \in Takes(d.schema, kind) ELSE Assumes(d, kind, field)

\* CarriesMarker, KeepsOwnership.
AdvancedField(kind) == IF kind = "stream" THEN "npmplus_advanced_config" ELSE "advanced_config"
CarriesMarker(d, kind) == Accepts(d, kind, AdvancedField(kind))
KeepsOwnership(d, kind) == CarriesMarker(d, kind) \/ Accepts(d, kind, "meta")

\* TypeOf(KindStream, proxy protocol) = "boolean".
ProxyProtocolIsFlag(d) ==
  IF d.schema # None THEN d.schema = "plusMeta"
  ELSE WrittenAs(d) = "npmplus" /\ ~d.retired

\* AcceptsValue(KindRedirect, "forward_scheme", value).
AcceptsScheme(d, value) ==
  IF d.schema # None
  THEN /\ value = "auto" => d.schema # "plusColumns"
       /\ value = "$scheme" => d.schema \notin Upstream
  ELSE /\ value = "$scheme" => WrittenAs(d) # "npm"
       /\ value = "auto" => WrittenAs(d) = "npm" \/ ~d.retired

---------------------------------------------------------------------------
(* The properties a request carries: the ones its payload type always has, *)
(* and the ones left out unless the server accepts them.                   *)

Fixed(flavour, kind) ==
  IF flavour = "npm"
  THEN CASE kind = "proxy" -> {"access_list_id", "http2_support", "advanced_config"}
         [] kind = "stream" -> {}
         [] OTHER -> {"advanced_config"}
  ELSE CASE kind = "proxy" -> {"npmplus_access_list_ids", "npmplus_http3_support",
                               "advanced_config"}
         [] kind = "stream" -> {"certificate_id", "npmplus_advanced_config"}
         [] OTHER -> {"npmplus_http3_support", "advanced_config"}

Optional(flavour, kind) ==
  CASE kind = "proxy" ->
         IF flavour = "npm" THEN {"trust_forwarded_proto", "meta"}
         ELSE {"trust_forwarded_proto", "http2_support", "meta", "npmplus_directory",
               "locations/npmplus_location_config"}
    [] kind = "stream" ->
         IF flavour = "npm" THEN {"certificate_id", "meta"} ELSE {"meta", "npmplus_directory"}
    [] OTHER -> {"http2_support", "meta", "npmplus_directory"}

Body(d, kind) ==
  LET flavour == WrittenAs(d)
  IN  Fixed(flavour, kind) \cup {f \in Optional(flavour, kind) : Accepts(d, kind, f)}

===========================================================================
