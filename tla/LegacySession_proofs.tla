-------------------------- MODULE LegacySession_proofs --------------------------
(***************************************************************************)
(* What the two ends of a handshake agree on, for every set of versions    *)
(* and of other clients' messages, however often and in whatever order     *)
(* messages are delivered.                                                 *)
(*                                                                         *)
(* Argument.  A server answers one initialize, so all answers to our       *)
(* client say the same (Answered); a client that has negotiated has read   *)
(* one of them (Taken), and only such a client sends the notification and  *)
(* the reads (Follows).                                                    *)
(***************************************************************************)
EXTENDS LegacySession, TLAPS

OursIn(kind) == {m \in wire : m.owner = "ours" /\ m.kind = kind}

(* What our client asks, whichever retry it is.                            *)
Asked ==
  \A m \in OursIn("initialize") :
    m.version = config.requested /\ m.capabilities = Says(config.offers)

(* The server took our client's initialize, and has what comes of it.      *)
ServedOurs ==
  /\ from.initialize = "ours"
  /\ server.state \in {"initializing", "ready"}
  /\ server.era = config.requested
  /\ server.heartbeat <=> (config.offers /\ Serves)

(* Every answer in our client's version says the same.                     *)
Answered ==
  \A m \in OursIn("result") : m.version = config.requested =>
    m.capabilities = Says(Serves) /\ ServedOurs

(* A client with an era has it from such an answer.                        *)
Taken ==
  /\ client.era # NoEra => client.state # "created" /\ client.era = config.requested
                             /\ ServedOurs
  /\ client.state \in {"initializing", "ready"} =>
       client.era # NoEra /\ (client.heartbeat <=> (config.offers /\ Serves))

(* What else our client sends, it sends with an era, and reads only for an *)
(* extension that the server has.                                          *)
Follows ==
  /\ OursIn("initialized") # {} => client.era # NoEra
  /\ OursIn("read") # {} => Serves
  /\ from.initialized = "ours" => client.era # NoEra

ServerInOrder ==
  /\ server.state = "created" => server.era = NoEra
  /\ server.state \in {"initializing", "ready"} => from.initialize # Nothing

RefusedAsDeclared ==
  "method_not_implemented" \in refusals => config.serves = "declared"

IInv ==
  /\ TypeOK
  /\ Asked
  /\ Answered
  /\ Taken
  /\ Follows
  /\ ServerInOrder
  /\ RefusedAsDeclared

-----------------------------------------------------------------------------
(* An honest advertisement is accepted exactly if it offers the extension. *)
LEMMA SaysAccepted ==
  ASSUME NEW x \in BOOLEAN
  PROVE  Accepted(Says(x)) <=> x
  BY DEF Accepted, Says, NegotiateHeartbeat

LEMMA SaysType ==
  ASSUME NEW x \in BOOLEAN
  PROVE  Says(x) \in Advertisement
  BY DEF Says, Advertisement

LEMMA ConfigType ==
  ASSUME TypeOK
  PROVE  /\ config.offers \in BOOLEAN /\ Serves \in BOOLEAN
         /\ config.requested \in Supported
         /\ config.requested # NoEra
         /\ NegotiateProtocol(config.requested) = "supported_version"
  <1>1. config.requested \in Supported /\ config.offers \in BOOLEAN
    BY DEF TypeOK
  <1>2. /\ config.requested # Modern /\ config.requested # Missing
        /\ config.requested # Malformed /\ config.requested # Unknown
    BY <1>1, SessionAssumption DEF SessionConstants
  <1>3. config.requested # NoEra
    BY <1>1, SessionAssumption DEF SessionConstants, Versions
  <1>4. NegotiateProtocol(config.requested) = "supported_version"
    BY <1>2 DEF NegotiateProtocol
  <1> QED BY <1>1, <1>3, <1>4 DEF Serves

(* A version the negotiation supports is one of the supported.             *)
LEMMA SupportedVersion ==
  ASSUME NEW v \in Versions, NegotiateProtocol(v) = "supported_version"
  PROVE  v \in Supported /\ v # NoEra
  <1>1. v # Missing /\ v # Malformed /\ v # Modern /\ v # Unknown
    BY SessionAssumption DEF SessionConstants, NegotiateProtocol
  <1> QED BY <1>1, SessionAssumption DEF SessionConstants, Versions

(* A message of a kind has the members of its kind.                        *)
LEMMA MessageKinds ==
  ASSUME NEW m \in Message
  PROVE  /\ m.owner \in Owners
         /\ m.kind \in {"initialize", "result"} =>
              m.version \in Versions /\ m.capabilities \in Advertisement
  BY DEF Message

-----------------------------------------------------------------------------
LEMMA InitHolds == Init => IInv
<1> SUFFICES ASSUME Init PROVE IInv
  OBVIOUS
<1>1. \A m \in wire : m.owner = "ours" =>
        m.kind = "result" /\ m.version \notin Supported
  BY SessionAssumption DEF SessionConstants, Init
<1>2. config.requested \in Supported
  BY DEF Init
<1>3. TypeOK
  <2>1. client \in [state : States, era : Supported \cup {NoEra}, heartbeat : BOOLEAN]
    BY DEF Init, States
  <2>2. server \in [state : States, era : Supported \cup {NoEra},
                   heartbeat : BOOLEAN, disagreements : Seq(Disagreements)]
    <3>1. <<>> \in Seq(Disagreements)
      OBVIOUS
    <3> QED BY <3>1 DEF Init, States
  <2>3. wire \subseteq Message
    BY SessionAssumption DEF SessionConstants, Init
  <2>4. from \in [initialize : Owners \cup {Nothing}, initialized : Owners \cup {Nothing}]
    BY DEF Init
  <2> QED BY <2>1, <2>2, <2>3, <2>4 DEF Init, TypeOK
<1>4. Asked /\ Answered
  BY <1>1, <1>2 DEF Asked, Answered, OursIn
<1>5. Taken /\ ServerInOrder
  BY DEF Init, Taken, ServerInOrder
<1>6. Follows
  BY <1>1 DEF Init, Follows, OursIn, Nothing
<1>7. RefusedAsDeclared
  BY DEF Init, RefusedAsDeclared
<1> QED BY <1>3, <1>4, <1>5, <1>6, <1>7 DEF IInv

(* The client's steps: it asks again, reads an answer or follows one up.   *)
LEMMA ClientKeeps ==
  ASSUME IInv, \/ InitializeRequest
               \/ InitializedNotification
               \/ Read
               \/ \E m \in wire : ConsumeInitializeResult(m)
  PROVE  IInv'
<1>0. /\ config.offers \in BOOLEAN /\ Serves \in BOOLEAN
      /\ config.requested \in Supported /\ config.requested # NoEra
      /\ client \in [state : States, era : Supported \cup {NoEra}, heartbeat : BOOLEAN]
      /\ wire \subseteq Message
  BY ConfigType DEF IInv, TypeOK
<1>1. CASE InitializeRequest
  <2> DEFINE n == [kind |-> "initialize", owner |-> "ours",
                   version |-> config.requested, capabilities |-> Says(config.offers)]
  <2>1. /\ wire' = wire \cup {n}
        /\ UNCHANGED <<config, client, server, from, refusals>>
    BY <1>1 DEF InitializeRequest, Send
  <2>2. n \in Message
    BY <1>0, SaysType DEF Message, Owners, Versions
  <2>3. TypeOK'
    BY <2>1, <2>2 DEF IInv, TypeOK
  <2>4. Asked'
    BY <2>1 DEF IInv, Asked, OursIn
  <2>5. OursIn("result")' = OursIn("result") /\ OursIn("initialized")' = OursIn("initialized")
        /\ OursIn("read")' = OursIn("read")
    BY <2>1 DEF OursIn
  <2> QED BY <2>1, <2>3, <2>4, <2>5 DEF IInv, Answered, Taken, Follows, ServerInOrder,
             RefusedAsDeclared, ServedOurs, Serves
<1>2. CASE InitializedNotification
  <2> DEFINE n == [kind |-> "initialized", owner |-> "ours"]
  <2>1. /\ wire' = wire \cup {n} /\ client.state = "initializing"
        /\ client' = [client EXCEPT !.state = "ready"]
        /\ UNCHANGED <<config, server, from, refusals>>
    BY <1>2 DEF InitializedNotification, Send
  <2>2. n \in Message
    BY DEF Message, Owners
  <2>3. client' \in [state : States, era : Supported \cup {NoEra}, heartbeat : BOOLEAN]
        /\ client'.state = "ready" /\ client'.era = client.era
        /\ client'.heartbeat = client.heartbeat
    BY <1>0, <2>1 DEF States
  <2>4. TypeOK'
    BY <2>1, <2>2, <2>3 DEF IInv, TypeOK
  <2>5. client.era # NoEra
    BY <2>1 DEF IInv, Taken
  <2>6. OursIn("result")' = OursIn("result") /\ OursIn("initialize")' = OursIn("initialize")
        /\ OursIn("read")' = OursIn("read")
    BY <2>1 DEF OursIn
  <2>7. Taken'
    BY <2>1, <2>3 DEF IInv, Taken, ServedOurs, Serves
  <2> QED BY <2>1, <2>3, <2>4, <2>5, <2>6, <2>7 DEF IInv, Asked, Answered, Follows,
             ServerInOrder, RefusedAsDeclared, ServedOurs, Serves
<1>3. CASE Read
  <2> DEFINE n == [kind |-> "read", owner |-> "ours"]
  <2>1. /\ wire' = wire \cup {n} /\ client.state = "ready" /\ client.heartbeat
        /\ UNCHANGED <<config, client, server, from, refusals>>
    BY <1>3 DEF Read, Send, HeartbeatReady
  <2>2. n \in Message
    BY DEF Message, Owners
  <2>3. TypeOK'
    BY <2>1, <2>2 DEF IInv, TypeOK
  <2>4. Serves
    BY <2>1 DEF IInv, Taken
  <2>5. OursIn("result")' = OursIn("result") /\ OursIn("initialize")' = OursIn("initialize")
        /\ OursIn("initialized")' = OursIn("initialized")
    BY <2>1 DEF OursIn
  <2> QED BY <2>1, <2>3, <2>4, <2>5 DEF IInv, Asked, Answered, Taken, Follows,
             ServerInOrder, RefusedAsDeclared, ServedOurs, Serves
<1>4. CASE \E m \in wire : ConsumeInitializeResult(m)
  <2>1. PICK m \in wire : ConsumeInitializeResult(m)
    BY <1>4
  <2>2. /\ m \in OursIn("result")
        /\ UNCHANGED <<config, server, wire, from, refusals>>
    BY <2>1 DEF ConsumeInitializeResult, OursIn
  <2>3. CASE m.version # config.requested
    <3>1. client' = [client EXCEPT !.state = "failed"]
      BY <2>1, <2>3 DEF ConsumeInitializeResult
    <3>2. client' \in [state : States, era : Supported \cup {NoEra}, heartbeat : BOOLEAN]
          /\ client'.state = "failed" /\ client'.era = client.era
      BY <1>0, <3>1 DEF States
    <3>3. TypeOK'
      BY <2>2, <3>2 DEF IInv, TypeOK
    <3>4. Taken'
      BY <2>2, <3>2 DEF IInv, Taken, ServedOurs, Serves
    <3> QED BY <2>2, <3>2, <3>3, <3>4 DEF IInv, Asked, Answered, Follows, ServerInOrder,
               RefusedAsDeclared, ServedOurs, Serves, OursIn
  <2>4. CASE m.version = config.requested
    <3>1. m.capabilities = Says(Serves) /\ ServedOurs
      BY <2>2, <2>4 DEF IInv, Answered
    <3>2. client' = [state |-> "initializing", era |-> m.version,
                     heartbeat |-> Bilateral(m.capabilities, config.offers)]
      BY <2>1, <2>4 DEF ConsumeInitializeResult
    <3>3. Bilateral(m.capabilities, config.offers) <=> (config.offers /\ Serves)
      BY <1>0, <3>1, SaysAccepted DEF Bilateral
    <3>4. Bilateral(m.capabilities, config.offers) \in BOOLEAN
      BY <1>0 DEF Bilateral, Accepted
    <3>5. /\ client'.state = "initializing" /\ client'.era = config.requested
          /\ client'.heartbeat <=> (config.offers /\ Serves)
          /\ client' \in [state : States, era : Supported \cup {NoEra}, heartbeat : BOOLEAN]
      BY <1>0, <2>4, <3>2, <3>3, <3>4 DEF States
    <3>6. TypeOK'
      BY <2>2, <3>5 DEF IInv, TypeOK
    <3>7. Taken'
      BY <1>0, <2>2, <3>1, <3>5 DEF Taken, ServedOurs, Serves
    <3> QED BY <1>0, <2>2, <3>5, <3>6, <3>7 DEF IInv, Asked, Answered, Follows,
               ServerInOrder, RefusedAsDeclared, ServedOurs, Serves, OursIn
  <2> QED BY <2>3, <2>4
<1> QED BY <1>1, <1>2, <1>3, <1>4

(* The server's steps: it answers one initialize, completes the handshake, *)
(* or serves a read.                                                       *)
LEMMA ServerKeeps ==
  ASSUME IInv, NEW m \in wire,
         HandleInitialize(m) \/ HandleInitialized(m) \/ HandleRead(m)
  PROVE  IInv'
<1>0. /\ config.offers \in BOOLEAN /\ Serves \in BOOLEAN
      /\ config.requested \in Supported /\ config.requested # NoEra
      /\ NegotiateProtocol(config.requested) = "supported_version"
      /\ server \in [state : States, era : Supported \cup {NoEra},
                    heartbeat : BOOLEAN, disagreements : Seq(Disagreements)]
      /\ from \in [initialize : Owners \cup {Nothing}, initialized : Owners \cup {Nothing}]
      /\ m \in Message /\ m.owner \in Owners
  BY ConfigType, MessageKinds DEF IInv, TypeOK
<1>1. CASE HandleInitialize(m)
  <2> DEFINE code == NegotiateProtocol(m.version)
  <2>1. m.kind = "initialize" /\ server.state = "created"
        /\ UNCHANGED <<config, client, refusals>>
    BY <1>1 DEF HandleInitialize
  <2>2. m.version \in Versions /\ m.capabilities \in Advertisement
    BY <1>0, <2>1, MessageKinds
  <2>3. ~ServedOurs /\ client.era = NoEra /\ client.state \notin {"initializing", "ready"}
    BY <2>1 DEF IInv, Taken, ServedOurs
  <2>4. \A r \in OursIn("result") : r.version # config.requested
    BY <2>3 DEF IInv, Answered
  <2>5. CASE code # "supported_version"
    <3>1. /\ server' = [server EXCEPT !.state = "failed", !.disagreements = Append(@, code)]
          /\ UNCHANGED <<wire, from>>
      BY <1>1, <2>5 DEF HandleInitialize
    <3>2. code \in Disagreements
      BY <2>5 DEF NegotiateProtocol, Disagreements
    <3>3. Append(server.disagreements, code) \in Seq(Disagreements)
      BY <1>0, <3>2
    <3>4. server' \in [state : States, era : Supported \cup {NoEra},
                      heartbeat : BOOLEAN, disagreements : Seq(Disagreements)]
          /\ server'.state = "failed"
      BY <1>0, <3>1, <3>3 DEF States
    <3>5. TypeOK'
      BY <2>1, <3>1, <3>4 DEF IInv, TypeOK
    <3>6. Answered' /\ Taken'
      BY <2>1, <2>3, <2>4, <3>1 DEF Answered, Taken, OursIn
    <3> QED BY <2>1, <3>1, <3>4, <3>5, <3>6
            DEF IInv, Asked, Follows, ServerInOrder, RefusedAsDeclared, Serves, OursIn
  <2>6. CASE code = "supported_version"
    <3> DEFINE n == [kind |-> "result", owner |-> m.owner, version |-> m.version,
                     capabilities |-> Advertise(Serves)]
    <3>1. /\ server' = [server EXCEPT !.state = "initializing", !.era = m.version,
                          !.heartbeat = Bilateral(m.capabilities, Serves)]
          /\ from' = [from EXCEPT !.initialize = m.owner]
          /\ wire' = wire \cup {n}
      BY <1>1, <2>6 DEF HandleInitialize, Send
    <3>2. n.capabilities = Says(Serves) /\ n \in Message
      BY <1>0, <2>2, SaysType DEF Message, Advertise
    <3>3. m.version \in Supported
      BY <2>2, <2>6, SupportedVersion
    <3>4. Bilateral(m.capabilities, Serves) \in BOOLEAN
      BY <1>0 DEF Bilateral, Accepted
    <3>5. /\ server' \in [state : States, era : Supported \cup {NoEra},
                         heartbeat : BOOLEAN, disagreements : Seq(Disagreements)]
          /\ server'.state = "initializing" /\ server'.era = m.version
          /\ server'.heartbeat = Bilateral(m.capabilities, Serves)
      BY <1>0, <3>1, <3>3, <3>4 DEF States
    <3>6. /\ from' \in [initialize : Owners \cup {Nothing}, initialized : Owners \cup {Nothing}]
          /\ from'.initialize = m.owner /\ from'.initialized = from.initialized
      BY <1>0, <3>1
    <3>7. TypeOK'
      BY <2>1, <3>1, <3>2, <3>5, <3>6 DEF IInv, TypeOK
    <3>8. m.owner = "ours" => ServedOurs'
      <4> SUFFICES ASSUME m.owner = "ours" PROVE ServedOurs'
        OBVIOUS
      <4>1. m.version = config.requested /\ m.capabilities = Says(config.offers)
        BY <2>1 DEF IInv, Asked, OursIn
      <4>2. Bilateral(m.capabilities, Serves) <=> (config.offers /\ Serves)
        BY <1>0, <4>1, SaysAccepted DEF Bilateral
      <4> QED BY <2>1, <3>5, <3>6, <4>1, <4>2 DEF ServedOurs, Serves
    <3>9. OursIn("initialize")' = OursIn("initialize")
          /\ OursIn("initialized")' = OursIn("initialized")
          /\ OursIn("read")' = OursIn("read")
      BY <3>1 DEF OursIn
    <3>10. \A r \in OursIn("result")' : r \in OursIn("result") \/ (r = n /\ m.owner = "ours")
      BY <3>1 DEF OursIn
    <3>11. Answered'
      BY <2>1, <2>4, <3>2, <3>8, <3>10 DEF Answered, Serves
    <3>12. Taken'
      BY <2>1, <2>3 DEF Taken
    <3>13. ServerInOrder'
      BY <1>0, <3>5, <3>6 DEF ServerInOrder, Owners, Nothing
    <3> HIDE DEF n
    <3> QED BY <2>1, <3>6, <3>7, <3>9, <3>11, <3>12, <3>13
            DEF IInv, Asked, Follows, RefusedAsDeclared, Serves
  <2> QED BY <2>5, <2>6
<1>2. CASE HandleInitialized(m)
  <2>1. /\ m.kind = "initialized" /\ server.state = "initializing"
        /\ server' = [server EXCEPT !.state = "ready"]
        /\ from' = [from EXCEPT !.initialized = m.owner]
        /\ UNCHANGED <<config, client, wire, refusals>>
    BY <1>2 DEF HandleInitialized
  <2>2. /\ server' \in [state : States, era : Supported \cup {NoEra},
                       heartbeat : BOOLEAN, disagreements : Seq(Disagreements)]
        /\ server'.state = "ready" /\ server'.era = server.era
        /\ server'.heartbeat = server.heartbeat
    BY <1>0, <2>1 DEF States
  <2>3. /\ from' \in [initialize : Owners \cup {Nothing}, initialized : Owners \cup {Nothing}]
        /\ from'.initialize = from.initialize /\ from'.initialized = m.owner
    BY <1>0, <2>1
  <2>4. ServedOurs => ServedOurs'
    BY <2>1, <2>2, <2>3 DEF ServedOurs, Serves
  <2>5. TypeOK'
    BY <2>1, <2>2, <2>3 DEF IInv, TypeOK
  <2>6. Answered' /\ Taken'
    BY <2>1, <2>4 DEF IInv, Answered, Taken, OursIn, Serves
  <2>7. Follows'
    <3>1. m.owner = "ours" => client.era # NoEra
      BY <2>1 DEF IInv, Follows, OursIn
    <3> QED BY <2>1, <2>3, <3>1 DEF IInv, Follows, OursIn, Serves
  <2>8. ServerInOrder'
    BY <2>1, <2>2, <2>3 DEF IInv, ServerInOrder
  <2> QED BY <2>1, <2>5, <2>6, <2>7, <2>8
          DEF IInv, Asked, RefusedAsDeclared, OursIn
<1>3. CASE HandleRead(m)
  <2>1. /\ m.kind = "read" /\ UNCHANGED <<config, client, server, wire, from>>
        /\ \/ refusals' = refusals
           \/ /\ m.owner = "ours" /\ config.serves = "routed"
              /\ refusals' \subseteq refusals \cup {"session_not_initialized"}
           \/ /\ m.owner = "ours" /\ config.serves # "routed"
              /\ refusals' \subseteq
                   refusals \cup {"session_not_initialized", "method_not_implemented"}
    BY <1>3 DEF HandleRead
  <2>2. m.owner = "ours" => Serves
    BY <2>1 DEF IInv, Follows, OursIn
  <2>3. TypeOK'
    BY <2>1 DEF IInv, TypeOK
  <2>4. RefusedAsDeclared'
    <3>1. Serves /\ config.serves # "routed" => config.serves = "declared"
      BY DEF IInv, TypeOK, Serves, Registries
    <3> QED BY <2>1, <2>2, <3>1 DEF IInv, RefusedAsDeclared
  <2> QED BY <2>1, <2>3, <2>4 DEF IInv, Asked, Answered, Taken, Follows, ServerInOrder,
             ServedOurs, Serves, OursIn
<1> QED BY <1>1, <1>2, <1>3

(* The invariant of every connection.                                      *)
THEOREM HandshakeInvariant == Spec => []IInv
<1>1. Init => IInv
  BY InitHolds
<1>2. IInv /\ [Next]_vars => IInv'
  <2>1. IInv /\ UNCHANGED vars => IInv'
    BY DEF vars, IInv, TypeOK, Asked, Answered, Taken, Follows, ServerInOrder,
           RefusedAsDeclared, ServedOurs, Serves, OursIn
  <2> QED BY <2>1, ClientKeeps, ServerKeeps DEF Next
<1> QED BY <1>1, <1>2, PTL DEF Spec

-----------------------------------------------------------------------------
(* Every variable stays in its domain, so no version is ever echoed: an    *)
(* era, once there is one, is a supported one (era.py).                    *)
THEOREM TypeCorrect == Spec => []TypeOK
<1>1. IInv => TypeOK
  BY DEF IInv
<1> QED BY <1>1, HandshakeInvariant, PTL

(* Neither end believes in an extension, or an era, that the other does    *)
(* not have, whatever is repeated, reordered or another client's           *)
(* (session.py, "Negotiation is bilateral").                               *)
THEOREM EndsAlwaysAgree == Spec => []EndsAgree
<1>1. IInv => EndsAgree
  <2> SUFFICES ASSUME IInv, client.state = "ready"
               PROVE  client.era = server.era /\ client.heartbeat = server.heartbeat
    BY DEF EndsAgree
  <2>1. /\ client.era = config.requested /\ ServedOurs
        /\ client.heartbeat <=> (config.offers /\ Serves)
    BY DEF IInv, Taken
  <2>2. client.heartbeat <=> server.heartbeat
    BY <2>1 DEF ServedOurs
  <2>3. client.heartbeat \in BOOLEAN /\ server.heartbeat \in BOOLEAN
    BY DEF IInv, TypeOK
  <2> QED BY <2>1, <2>2, <2>3 DEF ServedOurs
<1> QED BY <1>1, HandshakeInvariant, PTL

(* A server is ready only through both halves of the handshake, and if     *)
(* both were our client's, that client is in its era (session.py,          *)
(* handle_initialized).                                                    *)
THEOREM ReadyWasNegotiated == Spec => []ReadyMeansNegotiated
<1>1. IInv => ReadyMeansNegotiated
  BY DEF IInv, ReadyMeansNegotiated, ServerInOrder, Follows, Taken, ServedOurs
<1> QED BY <1>1, HandshakeInvariant, PTL

(* A client that believes in the extension is never told that the read is  *)
(* not implemented by a server that does its own routing                   *)
(* (capabilities.py, advertise).                                           *)
THEOREM ReadsAlwaysImplemented == Spec => []ReadsAreImplemented
<1>1. IInv => ReadsAreImplemented
  BY DEF IInv, RefusedAsDeclared, ReadsAreImplemented
<1> QED BY <1>1, HandshakeInvariant, PTL

(* A server session moves forward only (session.py, the state checks of    *)
(* handle_initialize and handle_initialized).                              *)
THEOREM ServerMovesForward == Spec => ServerNeverGoesBack
<1> DEFINE Forward ==
      /\ <<server.state, server'.state>> \in
           {<<"created", "initializing">>, <<"created", "failed">>,
            <<"initializing", "ready">>}
      /\ server.era # NoEra => server'.era = server.era
      /\ IsPrefix(server.disagreements, server'.disagreements)
<1>1. ASSUME IInv, [Next]_vars PROVE server' # server => Forward
  <2> SUFFICES ASSUME server' # server PROVE Forward
    OBVIOUS
  <2>0. server \in [state : States, era : Supported \cup {NoEra},
                   heartbeat : BOOLEAN, disagreements : Seq(Disagreements)]
    BY <1>1 DEF IInv, TypeOK
  <2>1. \A q \in Seq(Disagreements) : IsPrefix(q, q)
    BY DEF IsPrefix
  <2>2. \A q \in Seq(Disagreements) : \A x : IsPrefix(q, Append(q, x))
    <3> SUFFICES ASSUME NEW q \in Seq(Disagreements), NEW x
                 PROVE  IsPrefix(q, Append(q, x))
      OBVIOUS
    <3>1. Len(q) \in Nat /\ Len(Append(q, x)) = Len(q) + 1
      OBVIOUS
    <3>2. SubSeq(q, 1, Len(q)) = SubSeq(Append(q, x), 1, Len(q))
      BY <3>1
    <3> QED BY <3>1, <3>2 DEF IsPrefix
  <2>3. CASE \E m \in wire : HandleInitialize(m)
    <3>1. PICK m \in wire : HandleInitialize(m)
      BY <2>3
    <3>2. server.state = "created" /\ server.era = NoEra
      BY <1>1, <3>1 DEF HandleInitialize, IInv, ServerInOrder
    <3>3. \/ /\ server'.state = "failed"
             /\ server'.disagreements = Append(server.disagreements, NegotiateProtocol(m.version))
          \/ /\ server'.state = "initializing"
             /\ server'.disagreements = server.disagreements
      BY <2>0, <3>1 DEF HandleInitialize
    <3> QED BY <2>0, <2>1, <2>2, <3>2, <3>3
  <2>4. CASE \E m \in wire : HandleInitialized(m)
    <3>1. /\ server.state = "initializing" /\ server'.state = "ready"
          /\ server'.era = server.era /\ server'.disagreements = server.disagreements
      BY <2>0, <2>4 DEF HandleInitialized
    <3> QED BY <2>0, <2>1, <3>1
  <2> QED
    BY <1>1, <2>3, <2>4
       DEF Next, vars, InitializeRequest, InitializedNotification, Read,
           ConsumeInitializeResult, HandleRead
<1> QED BY <1>1, HandshakeInvariant, PTL DEF Spec, ServerNeverGoesBack
=============================================================================
