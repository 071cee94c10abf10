------------------------------- MODULE DualEra -------------------------------
(***************************************************************************)
(* One endpoint that serves both eras (DualEraServer, cross_era.py): every *)
(* message is classified, then dispatched to the legacy session or to the  *)
(* modern path, or refused.  Its clients are LegacyClientSession and a     *)
(* modern client that discovers, then reads and listens; other clients     *)
(* send what they like, and a gateway may rewrite any message in flight.   *)
(*                                                                         *)
(* The legacy half is LegacySession itself, message for message: that      *)
(* modern traffic leaves it as it was is the refinement ImplementsLegacy.  *)
(***************************************************************************)
EXTENDS EraRouting

CONSTANTS
  Supported,    \* SUPPORTED_PROTOCOL_VERSIONS of the legacy sessions
  Modern,       \* their MODERN_ERA
  NoEra,
  Strays,       \* messages of other legacy clients
  Foreign,      \* requests of other modern clients
  Offers        \* server/discover results of other servers

VARIABLES
  config, client, server, wire, from, refusals,    \* LegacySession
  modern,      \* the modern client
  requests,    \* the modern client's requests
  replies,     \* answers on the way to it
  last         \* how the last call of serve() ended

legacy == <<config, client, server, wire, from, refusals>>
vars == <<legacy, modern, requests, replies, last>>

Legacy == INSTANCE LegacySession

(* A bare handshake method is a legacy client's: it is among Strays, as    *)
(* what it does to the session must not be left out.                       *)
ASSUME DualAssumption ==
  /\ Legacy!SessionConstants
  /\ Supported \subseteq Handshake
  /\ Modern \in Modernity
  /\ Foreign \subseteq Request
  /\ \A r \in Foreign : Route(r) # "handshake"
  /\ Offers \subseteq Discovered

Unasked == [revision |-> Missing, enabled |-> FALSE, hints |-> FALSE]
Idle == [era |-> "none", owner |-> "none", how |-> "as_sent", method |-> "",
         outcome |-> "none"]

(* LEGACY_IMPLEMENTED is a list of names: the session can call none.       *)
Init ==
  /\ Legacy!Init
  /\ config.serves = "declared"
  /\ modern = [state |-> "created", negotiation |-> Unasked]
  /\ requests = {}
  /\ replies = {}
  /\ last = Idle

-----------------------------------------------------------------------------
(* Messages in flight *)

(* The body a legacy message is.                                           *)
Body(m) ==
  [method |-> CASE m.kind = "initialize"  -> "initialize"
                [] m.kind = "initialized" -> "notifications/initialized"
                [] OTHER                  -> "resources/read",
   meta |-> Missing, capabilities |-> FALSE,
   proposed |-> IF m.kind = "initialize" THEN m.version ELSE Missing,
   name |-> IF m.kind = "read" THEN "ours" ELSE Missing,
   headers |-> NoHeaders]

(* What a gateway may make of a legacy message, and of a modern one.       *)
LegacyWays == {"as_sent", "session_header", "stamped", "enveloped"}
ModernWays == {"as_sent", "bare", "session_header", "stripped", "relabelled"}
Ways == LegacyWays \cup ModernWays

Rewritten(r, how) ==
  CASE how = "as_sent"        -> r
    [] how = "bare"           -> [r EXCEPT !.headers = NoHeaders]
    [] how = "session_header" -> [r EXCEPT !.headers.session = TRUE]
    [] how = "stamped"        -> [r EXCEPT !.headers.version = Modern]
    [] how = "enveloped"      -> [r EXCEPT !.meta = Modern, !.capabilities = TRUE]
    [] how = "stripped"       -> [r EXCEPT !.meta = Missing, !.capabilities = FALSE]
    [] how = "relabelled"     -> [r EXCEPT !.headers.version = Unknown,
                                           !.headers.method = "ping"]

(* era is the one the sender speaks, and owner says whose message it is.   *)
Report(era, owner, how, r, outcome) ==
  last' = [era |-> era, owner |-> owner, how |-> how, method |-> r.method,
           outcome |-> outcome]

-----------------------------------------------------------------------------
(* The endpoint *)

(* The session raises, after the dispatch was recorded.                    *)
OutOfOrder(m) ==
  \/ m.kind = "initialize" /\ server.state # "created"
  \/ m.kind = "initialized" /\ server.state # "initializing"

(* Mutated form: an initialize with an envelope is answered too, by the    *)
(* modern leg, and the client takes that for a negotiated session.         *)
AnswerBothEras(m, how) ==
  LET r == Rewritten(Body(m), how) IN
  /\ m.kind # "result"
  /\ Report("handshake", m.owner, how, r, Route(r))
  /\ wire' = IF m.kind = "initialize" /\ how = "enveloped"
             THEN wire \cup {[kind |-> "result", owner |-> m.owner,
                              version |-> m.version,
                              capabilities |-> Legacy!Says(TRUE)]}
             ELSE wire
  /\ UNCHANGED <<config, client, server, from, refusals, modern, requests,
                 replies>>

(* A message of a legacy client.  A lifecycle method goes to the session   *)
(* as it is; anything else of that era has no era to go to.                *)
ServeLegacy(m, how) ==
  LET r == Rewritten(Body(m), how) IN
  /\ m.kind # "result"
  /\ Report("handshake", m.owner, how, r, Route(r))
  /\ \/ /\ Route(r) = "handshake"
        /\ \/ Legacy!HandleInitialize(m)
           \/ Legacy!HandleInitialized(m)
           \/ OutOfOrder(m) /\ UNCHANGED legacy
     \/ Route(r) # "handshake" /\ UNCHANGED legacy
  /\ UNCHANGED <<modern, requests, replies>>

(* The modern leg answers two methods; for any other it has recorded the   *)
(* dispatch when it raises KeyError.                                       *)
Answers(r) ==
  CASE r.method = "server/discover" ->
         {[kind |-> "discovered", result |-> BuildDiscoverResult(TRUE)]}
    [] r.method = "resources/read" ->
         {[kind |-> "document"]}
    [] OTHER -> {}

Outcome(r) ==
  IF Route(r) = "current" /\ Answers(r) = {} THEN "KeyError" ELSE Route(r)

(* Mutated form: after a confusing message the endpoint serves no more. *)
ServeUntilConfused(r, how) ==
  LET seen == Rewritten(r, how) IN
  /\ last.outcome # "CrossEraConfusion"
  /\ Report("current", "ours", how, seen, Outcome(seen))
  /\ replies' = IF Route(seen) = "current" THEN replies \cup Answers(seen)
                ELSE replies
  /\ UNCHANGED <<legacy, modern, requests>>

ServeModern(r, how) ==
  LET seen == Rewritten(r, how) IN
  /\ Report("current", "ours", how, seen, Outcome(seen))
  /\ replies' = IF Route(seen) = "current" THEN replies \cup Answers(seen)
                ELSE replies
  /\ UNCHANGED <<legacy, modern, requests>>

(* Another client's request: its answer goes elsewhere.                    *)
ServeForeign(r) ==
  /\ Report("current", "stray", "as_sent", r, Outcome(r))
  /\ UNCHANGED <<legacy, modern, requests, replies>>

-----------------------------------------------------------------------------
(* The clients *)

LegacyClient ==
  /\ \/ Legacy!InitializeRequest
     \/ Legacy!InitializedNotification
     \/ Legacy!Read
     \/ \E m \in wire : Legacy!ConsumeInitializeResult(m)
  /\ UNCHANGED <<modern, requests, replies, last>>

Send(r) ==
  /\ requests' = requests \cup {r}
  /\ UNCHANGED <<legacy, modern, replies, last>>

(* A caller may ask again at any time.                                     *)
SendDiscover == Send(BuildDiscoverRequest)

(* build_read_request refuses to build without a usable extension.         *)
SendRead == modern.negotiation.enabled /\ Send(BuildReadRequest(modern.negotiation))

SendListen ==
  ServesChangeHints(modern.negotiation) /\ Send(BuildListenRequest(modern.negotiation))

(* negotiate(), on an answer of this endpoint or of another server a       *)
(* gateway has put in its place.                                           *)
Discover(d) ==
  LET n == Negotiate(d) IN
  /\ requests # {}
  /\ modern' = [state |-> IF DowngradeRefused(d.versions) THEN "no_mutual_era"
                          ELSE IF n.revision = Missing THEN "refused"
                          ELSE "negotiated",
                negotiation |-> n]
  /\ UNCHANGED <<legacy, requests, replies, last>>

Next ==
  \/ \E m \in wire, how \in LegacyWays : ServeLegacy(m, how)
  \/ \E r \in requests, how \in ModernWays : ServeModern(r, how)
  \/ \E r \in Foreign : ServeForeign(r)
  \/ LegacyClient
  \/ SendDiscover
  \/ SendRead
  \/ SendListen
  \/ \E a \in replies : a.kind = "discovered" /\ Discover(a.result)
  \/ \E d \in Offers : Discover(d)

Spec == Init /\ [][Next]_vars

(* What the modern client says reaches the endpoint as it was sent, sooner *)
(* or later, and a client that can ask does.  Nothing is assumed of        *)
(* gateways or of other clients.                                           *)
Answered(method) ==
  \E r \in requests : r.method = method /\ ServeModern(r, "as_sent")

Fairness ==
  /\ WF_vars(SendDiscover) /\ WF_vars(SendRead)
  /\ WF_vars(Answered("server/discover"))
  /\ WF_vars(Answered("resources/read"))
  /\ WF_vars(\E a \in replies : a.kind = "discovered" /\ Discover(a.result))

FairSpec == Spec /\ Fairness

-----------------------------------------------------------------------------
(* Types: every variable stays in its domain.                              *)
TypeOK ==
  /\ Legacy!TypeOK
  /\ modern \in [state : {"created", "negotiated", "refused", "no_mutual_era"},
                 negotiation : Negotiation]
  /\ requests \subseteq Request
  /\ replies \subseteq [kind : {"discovered"}, result : Discovered]
                        \cup [kind : {"document"}]
  /\ last \in [era : Eras \cup {"none"}, owner : {"ours", "stray", "none"},
               how : Ways, method : Methods,
               outcome : Eras \cup {"none", "KeyError", "CrossEraConfusion",
                           "MalformedEnvelope", "HeaderMismatch",
                           "UnsupportedProtocolVersion"}]

(* Whatever modern clients send and a gateway rewrites, the endpoint's     *)
(* legacy leg is the session of LegacySession and nothing else: the modern *)
(* path never touches it (cross_era.py, DualEraServer).                    *)
ImplementsLegacy == Legacy!Spec

(* A message is answered by the era its sender speaks or by none, and one  *)
(* that a gateway has made into something of both eras, or of neither, is  *)
(* dispatched nowhere.  A legacy read in a whole modern envelope is the one*)
(* that cannot be told from the real thing (era.py, route).                *)
ErasDoNotMix ==
  /\ last.outcome = "handshake" =>
       last.era = "handshake" /\ last.how # "enveloped"
  /\ last.outcome \in {"current", "KeyError"} =>
       /\ last.era = "current" \/ last.how = "enveloped"
       /\ last.method \notin LegacyOnly
       /\ last.how \notin {"stripped", "relabelled"}

(* What our own builders make is never refused by our own router, whatever *)
(* was negotiated before, with whom, and whatever legacy headers or none a *)
(* gateway leaves on it (discovery.py, build_read_request; metadata.py).   *)
HonestTrafficServed ==
  (last.owner = "ours" /\ last.how \in {"as_sent", "bare", "session_header"}
     /\ ~(last.era = "handshake" /\ last.method = "resources/read"))
  => last.outcome \in Eras \cup {"KeyError"}

(* A modern revision is refused by the router, before it can end the       *)
(* session that other clients may still be about to open.                  *)
ModernOfferSpoilsNothing ==
  "modern_era_refused" \notin Range(server.disagreements)

(* The endpoint never wedges: among confusing messages of others a modern  *)
(* client that keeps a usable negotiation gets its document (cross_era.py, *)
(* downgrade_confusion: "honest traffic still served afterwards").         *)
ModernServed ==
  <>[]modern.negotiation.enabled => <>(\E a \in replies : a.kind = "document")

(* What an endpoint advertises it serves: a legacy client that negotiated  *)
(* the extension is not refused the authoritative read (cross_era.py,      *)
(* LEGACY_IMPLEMENTED).                                                    *)
LegacyReadsServed ==
  (last.era = "handshake" /\ last.owner = "ours" /\ last.method = "resources/read"
     /\ last.how = "as_sent" /\ from.initialize = "ours")
  => last.outcome \in Eras

(* Nor is a stream claimed that the server will not open (discovery.py,    *)
(* build_discover_result).                                                 *)
ListenServed ==
  (modern.negotiation = Negotiate(BuildDiscoverResult(TRUE))
     /\ last.method = "subscriptions/listen" /\ last.owner = "ours")
  => last.outcome # "KeyError"
=============================================================================
