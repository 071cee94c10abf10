----------------------------- MODULE DualEra_proofs -----------------------------
(***************************************************************************)
(* One endpoint for both eras, for every set of revisions, of other        *)
(* clients' messages and of other servers' results, whatever a gateway     *)
(* makes of messages in flight.                                            *)
(*                                                                         *)
(* Argument.  No step touches the legacy half but by a step of             *)
(* LegacySession, so everything proved of that module holds here (Session  *)
(* is its module of proofs, and LegacyIsSession the bridge).  A request of *)
(* our modern client was made by build_request for a modern revision       *)
(* (Built), and each rewriting leaves enough of it to say which rung of    *)
(* the router it reaches.                                                  *)
(***************************************************************************)
EXTENDS DualEra, WellFoundedInduction, TLAPS

Session == INSTANCE LegacySession_proofs

(* What build_request makes for a negotiated revision.                     *)
Built(r) ==
  \E method \in {"server/discover", "resources/read", "subscriptions/listen"},
     name \in Names, revision \in Modernity :
    r = BuildRequest(method, name, revision)

AllBuilt == \A r \in requests : Built(r)

(* Heartbeat is enabled only for a modern revision.                        *)
EnabledIsModern ==
  /\ modern.negotiation.enabled \in BOOLEAN
  /\ modern.negotiation.enabled => modern.negotiation.revision \in Modernity

(* What the server may hold against a client.                              *)
Recorded ==
  server.disagreements \in Seq(Legacy!Disagreements \ {"modern_era_refused"})

IInv == AllBuilt /\ EnabledIsModern /\ Recorded /\ ErasDoNotMix /\ HonestTrafficServed

-----------------------------------------------------------------------------
(* The router *)

LEMMA RoutedCurrent ==
  ASSUME NEW r, Route(r) = "current"
  PROVE  /\ r.meta \in Modernity /\ r.meta # Missing
         /\ r.method \notin LegacyOnly
         /\ HeadersMatch(r)
<1>1. ~Confused(r) /\ ClassifyRequest(r) = "current"
  BY DEF Route
<1>2. r.meta \in Modernity /\ HeadersMatch(r)
  BY <1>1 DEF ClassifyRequest
<1>3. r.meta # Missing
  BY <1>2, RoutingAssumption DEF Stated
<1> QED BY <1>1, <1>2, <1>3 DEF Confused, HasModernEnvelope

LEMMA RoutedHandshake ==
  ASSUME NEW r, Route(r) = "handshake"
  PROVE  r.method \in Lifecycle /\ r.meta = Missing /\ r.proposed \notin Modernity
<1>1. ~Confused(r) /\ IsHandshakeMethod(r)
  BY DEF Route, ClassifyRequest
<1> QED BY <1>1 DEF Confused, IsHandshakeMethod, HasModernEnvelope, LegacyOnly

LEMMA Outcomes ==
  ASSUME NEW r
  PROVE  /\ Outcome(r) = "handshake" => Route(r) = "handshake"
         /\ Outcome(r) \in {"current", "KeyError"} <=> Route(r) = "current"
BY DEF Outcome, Route, ClassifyRequest

-----------------------------------------------------------------------------
(* A legacy message, however rewritten, keeps its method and its proposal, *)
(* and has an envelope only if it was given one.                           *)
LEMMA RewrittenLegacy ==
  ASSUME NEW m, NEW how \in LegacyWays
  PROVE  LET r == Rewritten(Body(m), how) IN
         /\ r.method = Body(m).method
         /\ r.proposed = Body(m).proposed
         /\ r.meta = IF how = "enveloped" THEN Modern ELSE Missing
BY DEF Rewritten, Body, LegacyWays

LEMMA BodyOf ==
  ASSUME NEW m
  PROVE  /\ Body(m).method \in {"initialize", "notifications/initialized", "resources/read"}
         /\ Body(m).method \in Lifecycle <=> m.kind \in {"initialize", "initialized"}
         /\ Body(m).proposed = IF m.kind = "initialize" THEN m.version ELSE Missing
BY DEF Body, Lifecycle

(* What becomes of our own requests on the way.                            *)
LEMMA RewrittenModern ==
  ASSUME NEW r, Built(r), NEW how \in ModernWays
  PROVE  LET seen == Rewritten(r, how) IN
         /\ seen.method = r.method
         /\ how \in {"as_sent", "bare", "session_header"} => Route(seen) = "current"
         /\ how \in {"stripped", "relabelled"} => Route(seen) # "current"
         /\ Route(seen) # "handshake"
<1>1. PICK method \in {"server/discover", "resources/read", "subscriptions/listen"},
           name \in Names, revision \in Modernity : r = BuildRequest(method, name, revision)
  BY DEF Built
<1> DEFINE seen == Rewritten(r, how)
<1>2. r.method = method /\ seen.method = method /\ r.meta = revision
  BY <1>1 DEF Rewritten, BuildRequest, ModernWays
<1>3. method \notin LegacyOnly /\ method \notin Lifecycle /\ method # ""
  BY DEF LegacyOnly, Lifecycle
<1>4. Route(seen) # "handshake"
  BY <1>2, <1>3, RoutedHandshake
<1>5. revision # Missing /\ revision # Malformed /\ Unknown # revision /\ Unknown # Missing
  BY RoutingAssumption DEF Stated
<1>6. ASSUME how \in {"as_sent", "bare", "session_header"}
      PROVE  Route(seen) = "current"
  <2>1. seen.meta = revision /\ seen.capabilities = TRUE
    BY <1>1, <1>6 DEF Rewritten, BuildRequest
  <2>2. HeadersMatch(seen)
    BY <1>1, <1>6 DEF Rewritten, BuildRequest, HeadersMatch, Mirrors, NoHeaders
  <2>3. ClassifyRequest(seen) = "current"
    BY <1>5, <2>1, <2>2 DEF ClassifyRequest
  <2>4. ~Confused(seen)
    BY <1>2, <1>3, <1>5, <2>1 DEF Confused, HasModernEnvelope, IsHandshakeMethod
  <2> QED BY <1>2, <1>3, <2>3, <2>4 DEF Route, IsHandshakeMethod
<1>7. how = "stripped" => seen.meta = Missing
  BY <1>1 DEF Rewritten, BuildRequest
<1>8. how = "relabelled" => ~HeadersMatch(seen)
  <2> SUFFICES ASSUME how = "relabelled" PROVE ~HeadersMatch(seen)
    OBVIOUS
  <2>1. seen.headers.version = Unknown /\ seen.meta = revision
    BY <1>1 DEF Rewritten, BuildRequest
  <2> QED BY <1>5, <2>1 DEF HeadersMatch, Mirrors
<1> QED BY <1>2, <1>4, <1>6, <1>7, <1>8, RoutedCurrent

-----------------------------------------------------------------------------
(* Discovery *)

(* A nonempty set of positions of a sequence has a highest one.            *)
LEMMA HighestPosition ==
  ASSUME NEW n \in Nat, NEW S, S \subseteq 1..n, S # {}
  PROVE  Max(S) \in S
<1> DEFINE T == {n - i : i \in S}
<1>1. T \subseteq Nat /\ T # {}
  <2>1. \A i \in S : n - i \in Nat
    OBVIOUS
  <2>2. PICK i \in S : TRUE
    OBVIOUS
  <2>3. n - i \in T
    BY <2>2
  <2> QED BY <2>1, <2>3
<1>2. PICK x \in T : \A y \in T : ~(<<y, x>> \in OpToRel(<, Nat))
  BY <1>1, NatLessThanWellFounded, WFMin
<1>3. PICK i \in S : x = n - i
  BY <1>2
<1>4. \A j \in S : i >= j
  <2> SUFFICES ASSUME NEW j \in S PROVE i >= j
    OBVIOUS
  <2>1. n - j \in T /\ n - j \in Nat /\ x \in Nat
    BY <1>1
  <2>2. ~(n - j < x)
    BY <1>2, <2>1 DEF OpToRel
  <2>3. i \in Nat /\ j \in Nat
    OBVIOUS
  <2> QED BY <1>3, <2>2, <2>3
<1> QED BY <1>4 DEF Max

(* negotiate() enables heartbeat for a modern revision or not at all.      *)
LEMMA NegotiatedIsModern ==
  ASSUME NEW d
  PROVE  LET n == Negotiate(d) IN
         n.enabled \in BOOLEAN /\ (n.enabled => n.revision \in Modernity)
<1> DEFINE mutual == {i \in DOMAIN Revisions : Revisions[i] \in d.versions}
<1>1. mutual # {} => Revisions[Max(mutual)] \in Modernity
  <2> SUFFICES ASSUME mutual # {} PROVE Max(mutual) \in DOMAIN Revisions
    BY DEF Modernity, Range
  <2>1. DOMAIN Revisions = 1..Len(Revisions) /\ Len(Revisions) \in Nat
    BY RoutingAssumption
  <2> QED BY <2>1, HighestPosition
<1>2. HighestMutualVersion(d.versions) \in Modernity \cup {Missing}
  BY <1>1 DEF HighestMutualVersion
<1> HIDE DEF mutual
<1> QED BY <1>2 DEF Negotiate

LEMMA NewestIsModern == Last(Revisions) \in Modernity
BY RoutingAssumption DEF Last, Modernity, Range

-----------------------------------------------------------------------------
(* The legacy half *)

(* Every step leaves it alone or is one of LegacySession's.                *)
LEMMA LegacyStep ==
  ASSUME [Next]_vars
  PROVE  [Legacy!Next]_(Legacy!vars)
<1>1. ASSUME NEW m \in wire, NEW how \in LegacyWays, ServeLegacy(m, how)
      PROVE  [Legacy!Next]_(Legacy!vars)
  BY <1>1 DEF ServeLegacy, legacy, Legacy!Next, Legacy!vars
<1>2. CASE LegacyClient
  BY <1>2 DEF LegacyClient, Legacy!Next
<1>3. CASE UNCHANGED legacy
  BY <1>3 DEF legacy, Legacy!vars
<1>4. \/ \E m \in wire, how \in LegacyWays : ServeLegacy(m, how)
      \/ LegacyClient
      \/ UNCHANGED legacy
  BY DEF Next, vars, ServeModern, ServeForeign, SendDiscover, SendRead, SendListen,
         Send, Discover
<1> QED BY <1>1, <1>2, <1>3, <1>4

(* Whatever modern clients send and a gateway rewrites, the endpoint's     *)
(* legacy leg is the session of LegacySession and nothing else             *)
(* (cross_era.py, DualEraServer).                                          *)
THEOREM LegacyLegImplementsSession == Spec => ImplementsLegacy
<1>1. Init => Legacy!Init
  BY DEF Init
<1>2. [Next]_vars => [Legacy!Next]_(Legacy!vars)
  BY LegacyStep
<1> QED BY <1>1, <1>2, PTL DEF Spec, ImplementsLegacy, Legacy!Spec

(* The session of the proofs is the endpoint's.                            *)
LEMMA LegacyIsSession == Legacy!Spec => Session!Spec
<1>1. Legacy!Init => Session!Init
  BY DEF Legacy!Init, Session!Init, Legacy!Registries, Session!Registries,
         Legacy!Nothing, Session!Nothing
<1>2. [Legacy!Next]_(Legacy!vars) => [Session!Next]_(Session!vars)
  BY DEF Legacy!vars, Session!vars, Legacy!Next, Session!Next,
    Legacy!InitializeRequest, Legacy!InitializedNotification, Legacy!Read,
    Legacy!ConsumeInitializeResult, Legacy!HandleInitialize,
    Legacy!HandleInitialized, Legacy!HandleRead, Legacy!Send, Legacy!Says,
    Legacy!Bilateral, Legacy!Accepted, Legacy!NegotiateHeartbeat,
    Legacy!NegotiateProtocol, Legacy!Advertise, Legacy!Serves,
    Legacy!HeartbeatReady, Legacy!Nothing,
    Session!InitializeRequest, Session!InitializedNotification, Session!Read,
    Session!ConsumeInitializeResult, Session!HandleInitialize,
    Session!HandleInitialized, Session!HandleRead, Session!Send, Session!Says,
    Session!Bilateral, Session!Accepted, Session!NegotiateHeartbeat,
    Session!NegotiateProtocol, Session!Advertise, Session!Serves,
    Session!HeartbeatReady, Session!Nothing
<1> QED BY <1>1, <1>2, PTL DEF Legacy!Spec, Session!Spec

-----------------------------------------------------------------------------
(* What our client proposes is of the handshake era.                       *)
LEMMA OurProposal ==
  ASSUME Session!IInv, NEW m \in wire, m.owner = "ours", m.kind = "initialize"
  PROVE  m.version \notin Modernity
<1>1. m.version = config.requested
  BY DEF Session!IInv, Session!Asked, Session!OursIn
<1>2. config.requested \in Supported
  BY DEF Session!IInv, Session!TypeOK
<1> QED BY <1>1, <1>2, DualAssumption, RoutingAssumption

(* Its handshake reaches the session, unless a gateway has put an envelope *)
(* on it.                                                                  *)
LEMMA HonestHandshake ==
  ASSUME Session!IInv, NEW m \in wire, m.owner = "ours",
         NEW how \in LegacyWays, how \in {"as_sent", "session_header"},
         Body(m).method # "resources/read"
  PROVE  Route(Rewritten(Body(m), how)) = "handshake"
<1> DEFINE r == Rewritten(Body(m), how)
<1>1. /\ r.method = Body(m).method /\ r.proposed = Body(m).proposed
      /\ r.meta = Missing
  BY RewrittenLegacy
<1>2. r.method \in Lifecycle /\ r.method # ""
  BY <1>1, BodyOf DEF Lifecycle
<1>3. r.proposed \notin Modernity
  <2>1. CASE m.kind = "initialize"
    BY <1>1, <2>1, BodyOf, OurProposal
  <2>2. CASE m.kind # "initialize"
    BY <1>1, <2>2, BodyOf, RoutingAssumption DEF Stated
  <2> QED BY <2>1, <2>2
<1> HIDE DEF r
<1>4. Route(r) = "handshake"
  BY <1>1, <1>2, <1>3 DEF Route, Confused, IsHandshakeMethod, HasModernEnvelope
<1> QED BY <1>4 DEF r

-----------------------------------------------------------------------------
(* The last call of serve(), case by case *)

LEMMA LegacyServed ==
  ASSUME Session!IInv, Recorded, NEW m \in wire, NEW how \in LegacyWays,
         ServeLegacy(m, how)
  PROVE  ErasDoNotMix' /\ HonestTrafficServed' /\ Recorded'
<1> DEFINE r == Rewritten(Body(m), how)
<1>1. /\ last'.era = "handshake" /\ last'.owner = m.owner /\ last'.how = how
      /\ last'.method = r.method /\ last'.outcome = Route(r)
  BY DEF ServeLegacy, Report
<1>2. /\ r.method = Body(m).method /\ r.proposed = Body(m).proposed
      /\ r.meta = IF how = "enveloped" THEN Modern ELSE Missing
  BY RewrittenLegacy
<1>3. Modern # Missing
  BY DualAssumption, RoutingAssumption DEF Stated
<1> HIDE DEF r
<1>4. Route(r) = "handshake" => how # "enveloped"
  BY <1>2, <1>3, RoutedHandshake
<1>5. Route(r) = "current" => how = "enveloped" /\ r.method \notin LegacyOnly
  BY <1>2, RoutedCurrent
<1>6. Route(r) # "KeyError"
  BY DEF Route, ClassifyRequest
<1>7. ErasDoNotMix'
  BY <1>1, <1>4, <1>5, <1>6 DEF ErasDoNotMix, LegacyWays
<1>8. HonestTrafficServed'
  BY <1>1, <1>2, HonestHandshake DEF HonestTrafficServed, LegacyWays, Eras, r
<1>9. Recorded'
  <2>1. CASE UNCHANGED legacy \/ Legacy!HandleInitialized(m)
    <3>1. server' = server \/ server' = [server EXCEPT !.state = "ready"]
      BY <2>1 DEF legacy, Legacy!HandleInitialized
    <3>2. server'.disagreements = server.disagreements
      BY <3>1 DEF Session!IInv, Session!TypeOK
    <3> QED BY <3>2 DEF Recorded
  <2>2. CASE Route(r) = "handshake" /\ Legacy!HandleInitialize(m)
    <3> DEFINE code == Legacy!NegotiateProtocol(m.version)
    <3>1. m.version \notin Modernity /\ m.version # Modern
      BY <1>2, <2>2, BodyOf, RoutedHandshake, DualAssumption DEF Legacy!HandleInitialize
    <3>2. code \in {"version_missing", "version_malformed", "unsupported_version",
                    "supported_version"}
      BY <3>1 DEF Legacy!NegotiateProtocol
    <3>3. \/ /\ code # "supported_version"
             /\ server' = [server EXCEPT !.state = "failed",
                             !.disagreements = Append(@, code)]
          \/ server' = [server EXCEPT !.state = "initializing", !.era = m.version,
               !.heartbeat = Legacy!Bilateral(m.capabilities, Legacy!Serves)]
      BY <2>2 DEF Legacy!HandleInitialize
    <3> HIDE DEF code
    <3>4. \/ /\ code # "supported_version"
             /\ server'.disagreements = Append(server.disagreements, code)
          \/ server'.disagreements = server.disagreements
      BY <3>3 DEF Session!IInv, Session!TypeOK
    <3>5. code # "supported_version" =>
            code \in Legacy!Disagreements \ {"modern_era_refused"}
      BY <3>2 DEF Legacy!Disagreements
    <3> QED BY <3>4, <3>5 DEF Recorded
  <2> QED BY <2>1, <2>2 DEF ServeLegacy, r
<1> QED BY <1>7, <1>8, <1>9

LEMMA ModernServedRight ==
  ASSUME AllBuilt, NEW q \in requests, NEW how \in ModernWays, ServeModern(q, how)
  PROVE  ErasDoNotMix' /\ HonestTrafficServed'
<1> DEFINE seen == Rewritten(q, how)
<1>1. /\ last'.era = "current" /\ last'.how = how /\ last'.method = seen.method
      /\ last'.outcome = Outcome(seen)
  BY DEF ServeModern, Report
<1>2. /\ how \in {"as_sent", "bare", "session_header"} => Route(seen) = "current"
      /\ how \in {"stripped", "relabelled"} => Route(seen) # "current"
      /\ Route(seen) # "handshake"
  BY RewrittenModern DEF AllBuilt
<1> HIDE DEF seen
<1>3. Outcome(seen) # "handshake"
  BY <1>2, Outcomes
<1>4. Outcome(seen) \in {"current", "KeyError"} <=> Route(seen) = "current"
  BY Outcomes
<1>5. ErasDoNotMix'
  BY <1>1, <1>2, <1>3, <1>4, RoutedCurrent DEF ErasDoNotMix
<1> QED BY <1>1, <1>2, <1>4, <1>5 DEF HonestTrafficServed, Eras

LEMMA ForeignServed ==
  ASSUME NEW q \in Foreign, ServeForeign(q)
  PROVE  ErasDoNotMix' /\ HonestTrafficServed'
<1>1. /\ last'.era = "current" /\ last'.owner = "stray" /\ last'.how = "as_sent"
      /\ last'.method = q.method /\ last'.outcome = Outcome(q)
  BY DEF ServeForeign, Report
<1>2. Outcome(q) # "handshake"
  BY DualAssumption, Outcomes
<1> QED BY <1>1, <1>2, Outcomes, RoutedCurrent DEF ErasDoNotMix, HonestTrafficServed

-----------------------------------------------------------------------------
LEMMA InitHolds == Init => IInv
<1> SUFFICES ASSUME Init PROVE IInv
  OBVIOUS
<1>1. AllBuilt /\ EnabledIsModern
  BY DEF Init, AllBuilt, EnabledIsModern, Unasked
<1>2. Recorded
  BY DEF Init, Legacy!Init, Recorded
<1>3. ErasDoNotMix /\ HonestTrafficServed
  BY DEF Init, Idle, ErasDoNotMix, HonestTrafficServed
<1> QED BY <1>1, <1>2, <1>3 DEF IInv

(* The modern client's steps: it asks, and reads an answer.                *)
LEMMA ModernClientKeeps ==
  ASSUME IInv, SendDiscover \/ SendRead \/ SendListen \/ \E d : Discover(d)
  PROVE  IInv'
<1>1. UNCHANGED <<server, last>>
  BY DEF SendDiscover, SendRead, SendListen, Send, Discover, legacy
<1>2. ErasDoNotMix' /\ HonestTrafficServed' /\ Recorded'
  BY <1>1 DEF IInv, ErasDoNotMix, HonestTrafficServed, Recorded
<1>3. CASE SendDiscover \/ SendRead \/ SendListen
  <2>1. PICK r : Send(r) /\ Built(r)
    <3>1. CASE SendDiscover
      <4>1. Missing \in Names
        BY DEF Names
      <4> QED BY <3>1, <4>1, NewestIsModern DEF SendDiscover, BuildDiscoverRequest, Built
    <3>2. CASE SendRead
      <4>1. modern.negotiation.revision \in Modernity /\ "ours" \in Names
        BY <3>2 DEF SendRead, IInv, EnabledIsModern, Names
      <4> QED BY <3>2, <4>1 DEF SendRead, BuildReadRequest, Built
    <3>3. CASE SendListen
      <4>1. modern.negotiation.revision \in Modernity /\ Missing \in Names
        BY <3>3 DEF SendListen, ServesChangeHints, IInv, EnabledIsModern, Names
      <4> QED BY <3>3, <4>1 DEF SendListen, BuildListenRequest, Built
    <3> QED BY <1>3, <3>1, <3>2, <3>3
  <2>2. requests' = requests \cup {r} /\ modern' = modern
    BY <2>1 DEF Send
  <2>3. AllBuilt'
    BY <2>1, <2>2 DEF IInv, AllBuilt, Built
  <2>4. EnabledIsModern'
    BY <2>2 DEF IInv, EnabledIsModern
  <2> QED BY <1>2, <2>3, <2>4 DEF IInv
<1>4. CASE \E d : Discover(d)
  <2>1. PICK d : Discover(d)
    BY <1>4
  <2>2. modern'.negotiation = Negotiate(d) /\ requests' = requests
    BY <2>1 DEF Discover
  <2>3. EnabledIsModern'
    BY <2>2, NegotiatedIsModern DEF EnabledIsModern
  <2>4. AllBuilt'
    BY <2>2 DEF IInv, AllBuilt, Built
  <2> QED BY <1>2, <2>3, <2>4 DEF IInv
<1> QED BY <1>3, <1>4

LEMMA StepKeeps == Session!IInv /\ IInv /\ [Next]_vars => IInv'
<1> SUFFICES ASSUME Session!IInv, IInv, [Next]_vars PROVE IInv'
  OBVIOUS
<1>1. CASE \E m \in wire, how \in LegacyWays : ServeLegacy(m, how)
  <2>1. PICK m \in wire, how \in LegacyWays : ServeLegacy(m, how)
    BY <1>1
  <2>2. UNCHANGED <<modern, requests>>
    BY <2>1 DEF ServeLegacy
  <2> QED BY <2>1, <2>2, LegacyServed DEF IInv, AllBuilt, Built, EnabledIsModern
<1>2. CASE \/ \E r \in requests, how \in ModernWays : ServeModern(r, how)
           \/ \E r \in Foreign : ServeForeign(r)
  <2>1. UNCHANGED <<modern, requests, server>>
    BY <1>2 DEF ServeModern, ServeForeign, legacy
  <2> QED BY <1>2, <2>1, ModernServedRight, ForeignServed
          DEF IInv, AllBuilt, Built, EnabledIsModern, Recorded
<1>3. CASE LegacyClient
  <2>1. UNCHANGED <<modern, requests, last>> /\ server' = server
    BY <1>3 DEF LegacyClient, Legacy!InitializeRequest, Legacy!InitializedNotification,
                Legacy!Read, Legacy!ConsumeInitializeResult
  <2> QED BY <2>1 DEF IInv, AllBuilt, Built, EnabledIsModern, Recorded, ErasDoNotMix,
                      HonestTrafficServed
<1>4. CASE SendDiscover \/ SendRead \/ SendListen \/ \E d : Discover(d)
  BY <1>4, ModernClientKeeps
<1>5. CASE UNCHANGED vars
  BY <1>5 DEF vars, legacy, IInv, AllBuilt, Built, EnabledIsModern, Recorded,
              ErasDoNotMix, HonestTrafficServed
<1> QED BY <1>1, <1>2, <1>3, <1>4, <1>5 DEF Next

(* What LegacySession's proofs show of any connection holds of this one.   *)
LEMMA ConstantsFit == Session!SessionConstants
BY DualAssumption DEF Legacy!SessionConstants, Session!SessionConstants,
   Legacy!Versions, Session!Versions, Legacy!Message, Session!Message,
   Legacy!Advertisement, Session!Advertisement, Legacy!Owners, Session!Owners

LEMMA SessionInvariant == Spec => []Session!IInv
<1>1. Session!Spec => []Session!IInv
  BY ConstantsFit, Session!HandshakeInvariant
<1> QED BY <1>1, LegacyLegImplementsSession, LegacyIsSession, PTL DEF ImplementsLegacy

THEOREM EndpointInvariant == Spec => []IInv
<1>1. Init => IInv
  BY InitHolds
<1>2. Session!IInv /\ IInv /\ [Next]_vars => IInv'
  BY StepKeeps
<1> QED BY <1>1, <1>2, SessionInvariant, PTL DEF Spec

-----------------------------------------------------------------------------
(* A message is answered by the era its sender speaks or by none, whatever *)
(* a gateway has made of it (era.py, route).                               *)
THEOREM ErasNeverMix == Spec => []ErasDoNotMix
<1>1. IInv => ErasDoNotMix
  BY DEF IInv
<1> QED BY <1>1, EndpointInvariant, PTL

(* What our own builders make is never refused by our own router, whatever *)
(* was negotiated, with whom, and whatever legacy headers or none a        *)
(* gateway leaves on it (metadata.py, build_request).                      *)
THEOREM HonestNeverRefused == Spec => []HonestTrafficServed
<1>1. IInv => HonestTrafficServed
  BY DEF IInv
<1> QED BY <1>1, EndpointInvariant, PTL

(* A modern revision is refused by the router, before it can end the       *)
(* session that other clients may still be about to open (era.py, route).  *)
THEOREM ModernOfferIsHarmless == Spec => []ModernOfferSpoilsNothing
<1>1. IInv => ModernOfferSpoilsNothing
  BY DEF IInv, Recorded, ModernOfferSpoilsNothing, Range
<1> QED BY <1>1, EndpointInvariant, PTL

(* Both ends of a legacy connection agree on the era and the extension     *)
(* behind this endpoint too, among modern traffic and gateways that make   *)
(* one era's messages look like the other's (session.py, "Negotiation is   *)
(* bilateral").                                                            *)
THEOREM EndsAgreeAmongEras == Spec => []Legacy!EndsAgree
<1>1. Session!Spec => []Session!EndsAgree
  BY ConstantsFit, Session!EndsAlwaysAgree
<1>2. Session!EndsAgree => Legacy!EndsAgree
  BY DEF Session!EndsAgree, Legacy!EndsAgree
<1> QED BY <1>1, <1>2, LegacyLegImplementsSession, LegacyIsSession, PTL
        DEF ImplementsLegacy
=============================================================================
