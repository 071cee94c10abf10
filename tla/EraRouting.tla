----------------------------- MODULE EraRouting ------------------------------
(***************************************************************************)
(* How one inbound JSON-RPC message is assigned to an era, or refused      *)
(* (current era.py, metadata.py), what a modern client builds (metadata.py,*)
(* discovery.py, subscriptions.py), and what it makes of a server/discover *)
(* result (discovery.py).  Pure operators: no state.                       *)
(***************************************************************************)
EXTENDS SequencesExt

CONSTANTS
  Revisions,    \* MODERN_PROTOCOL_VERSIONS, oldest first
  Handshake,    \* HANDSHAKE_PROTOCOL_VERSIONS
  Missing,      \* the key, or the header, is not there
  Malformed,    \* it is there and is not a non-empty string
  Unknown       \* a string that is no revision anyone knows

Modernity == Range(Revisions)
Stated == Modernity \cup Handshake \cup {Malformed, Unknown}

ASSUME RoutingAssumption ==
  /\ Revisions \in Seq(Modernity) /\ Revisions # <<>>
  /\ Missing \notin Stated
  /\ (Handshake \cup {Malformed, Unknown}) \cap Modernity = {}

(* "" stands for a method that is absent or not a string.                  *)
Lifecycle == {"initialize", "notifications/initialized"}
LegacyOnly == Lifecycle \cup {"resources/subscribe"}
NameBearing == {"tools/call", "prompts/get", "resources/read"}
Methods == {"", "server/discover", "subscriptions/listen", "ping"}
             \cup LegacyOnly \cup NameBearing
Names == {"ours", "another", Missing}

NoHeaders == [version |-> Missing, method |-> Missing, name |-> Missing,
              session |-> FALSE]

(* A body with its headers.  meta is the version under _meta, capabilities *)
(* whether the client's are there beside it, proposed is                   *)
(* params.protocolVersion, name the parameter Mcp-Name mirrors, session a  *)
(* legacy session header.                                                  *)
Request ==
  [method : Methods, meta : Stated \cup {Missing}, capabilities : BOOLEAN,
   proposed : Stated \cup {Missing}, name : Names,
   headers : [version : Stated \cup {Missing}, method : Methods \cup {Missing},
              name : Names, session : BOOLEAN]]

-----------------------------------------------------------------------------
(* Inbound *)

HasModernEnvelope(r) == r.meta # Missing
IsHandshakeMethod(r) == r.method \in Lifecycle

(* A header that is there says what the body says.                         *)
Mirrors(header, value) == header \in {Missing, value}

HeadersMatch(r) ==
  /\ Mirrors(r.headers.version, r.meta)
  /\ Mirrors(r.headers.method, r.method)
  /\ (r.method \in NameBearing /\ r.name # Missing)
       => Mirrors(r.headers.name, r.name)

(* The three rungs, in their order.                                        *)
ClassifyRequest(r) ==
  IF r.meta = Malformed \/ ~r.capabilities THEN "MalformedEnvelope"
  ELSE IF ~HeadersMatch(r) THEN "HeaderMismatch"
  ELSE IF r.meta \notin Modernity THEN "UnsupportedProtocolVersion"
  ELSE "current"

(* Mutated form: the method decides, and the envelope is not looked at. *)
ConfusedByMethod(r) ==
  \/ r.method = ""
  \/ ~HasModernEnvelope(r) /\ ~IsHandshakeMethod(r)
  \/ IsHandshakeMethod(r) /\ r.proposed \in Modernity

(* Mutated form: a handshake may propose any version. *)
ConfusedByBody(r) ==
  \/ r.method = ""
  \/ HasModernEnvelope(r) /\ r.method \in LegacyOnly
  \/ ~HasModernEnvelope(r) /\ ~IsHandshakeMethod(r)

(* Evidence of both eras, or of neither.                                   *)
Confused(r) ==
  \/ r.method = ""
  \/ HasModernEnvelope(r) /\ r.method \in LegacyOnly
  \/ ~HasModernEnvelope(r) /\ ~IsHandshakeMethod(r)
  \/ IsHandshakeMethod(r) /\ r.proposed \in Modernity

(* The era that will answer, or the exception that refuses.                *)
Route(r) ==
  IF Confused(r) THEN "CrossEraConfusion"
  ELSE IF IsHandshakeMethod(r) THEN "handshake"
  ELSE ClassifyRequest(r)

Eras == {"current", "handshake"}

(* Legacy headers that arrived on a modern request, and were dropped.      *)
LeakedLegacyHeaders(r) == Route(r) = "current" /\ r.headers.session

-----------------------------------------------------------------------------
(* Outbound *)

(* Mutated form: Mcp-Method says what the client asked for last. *)
StaleMethodHeader(method, name, revision) ==
  [method |-> method, meta |-> revision, capabilities |-> TRUE,
   proposed |-> Missing, name |-> name,
   headers |-> [version |-> revision, method |-> "server/discover",
                name |-> name, session |-> FALSE]]

(* build_request(): envelope and mirrored headers.                         *)
BuildRequest(method, name, revision) ==
  [method |-> method, meta |-> revision, capabilities |-> TRUE,
   proposed |-> Missing, name |-> name,
   headers |-> [version |-> revision, method |-> method, name |-> name,
                session |-> FALSE]]

BuildDiscoverRequest == BuildRequest("server/discover", Missing, Last(Revisions))
BuildReadRequest(n) == BuildRequest("resources/read", "ours", n.revision)
BuildListenRequest(n) == BuildRequest("subscriptions/listen", Missing, n.revision)

-----------------------------------------------------------------------------
(* Discovery *)

(* What a server/discover result says: the revisions offered, the version  *)
(* of the heartbeat extension, and whether it is said to deliver hints.    *)
Discovered ==
  [versions : SUBSET (Stated \ {Malformed}),
   extension : {"absent", "other_version", "ours"}, hints : BOOLEAN]

(* The capability's own flag is published as it stands: serves_listen only *)
(* decides resources.subscribe and listChanged, which nobody here reads.   *)
BuildDiscoverResult(changeHints) ==
  [versions |-> Modernity, extension |-> "ours", hints |-> changeHints]

HighestMutualVersion(offered) ==
  LET mutual == {i \in DOMAIN Revisions : Revisions[i] \in offered} IN
  IF mutual = {} THEN Missing ELSE Revisions[Max(mutual)]

(* A peer with handshake revisions only: no mutual era, and no error.      *)
DowngradeRefused(offered) ==
  /\ offered \cap Modernity = {}
  /\ offered \cap Handshake # {}

(* negotiate(): fatal without a mutual revision (revision Missing), while  *)
(* an unusable extension only disables heartbeat.                          *)
Negotiate(d) ==
  LET revision == HighestMutualVersion(d.versions)
      enabled == revision # Missing /\ d.extension = "ours"
  IN [revision |-> revision, enabled |-> enabled, hints |-> enabled /\ d.hints]

Negotiation ==
  [revision : Modernity \cup {Missing}, enabled : BOOLEAN, hints : BOOLEAN]

ServesChangeHints(n) == n.enabled /\ n.hints
=============================================================================
