---------------------------- MODULE LegacySession ----------------------------
(***************************************************************************)
(* The legacy handshake: one LegacyClientSession and one                   *)
(* LegacyServerSession over a connection (session.py), with the era and    *)
(* capability negotiation both ends run (era.py, capabilities.py).         *)
(*                                                                         *)
(* The sessions take methods and params in and give results out; what      *)
(* brings these is not theirs.  So the wire keeps every message, and one   *)
(* may arrive late, again, out of order or never.  It may start with       *)
(* Strays: requests of a client other than LegacyClientSession, and a      *)
(* result that names a version our client did not choose.  A message says  *)
(* whose it is, for the properties; neither session can look.              *)
(***************************************************************************)
EXTENDS SequencesExt

CONSTANTS
  Supported,     \* SUPPORTED_PROTOCOL_VERSIONS
  Modern,        \* MODERN_ERA
  Missing,       \* no protocolVersion in the request
  Malformed,     \* a protocolVersion that is not a non-empty string
  Unknown,       \* any other string
  NoEra,         \* nothing negotiated yet
  Strays         \* requests of other clients, and foreign results

Versions == Supported \cup {Modern, Missing, Malformed, Unknown}

(* What a `capabilities` object says of the heartbeat extension. *)
Advertisement ==
  [object : BOOLEAN, modern : BOOLEAN,
   legacy : {"absent", "malformed", "other_version", "ours"}]

Owners == {"ours", "stray"}

Message ==
  [kind : {"initialize", "result"}, owner : Owners, version : Versions,
   capabilities : Advertisement]
    \cup [kind : {"initialized", "read"}, owner : Owners]

(* Named apart so that a module that instantiates this one can assume it.  *)
SessionConstants ==
  /\ Modern \notin Supported
  /\ {Missing, Malformed, Unknown} \cap (Supported \cup {Modern}) = {}
  /\ Missing # Malformed
  /\ NoEra \notin Versions
  /\ Strays \subseteq Message
  \* what reaches our client without our server is in no supported version
  /\ \A m \in Strays : m.owner = "ours" =>
       m.kind = "result" /\ m.version \notin Supported

ASSUME SessionAssumption == SessionConstants

VARIABLES
  config,    \* how the two sessions were constructed
  client,    \* LegacyClientSession
  server,    \* LegacyServerSession
  wire,      \* messages sent so far
  from,      \* history: whose messages the server's handshake accepted
  refusals   \* history: reasons for which our reads were refused

vars == <<config, client, server, wire, from, refusals>>

States == {"created", "initializing", "ready", "failed"}
Nothing == "none"

(* Whether the server implements the authoritative read: not at all, as a  *)
(* name only (the deployment routes it elsewhere), or as a method it calls.*)
Registries == {"none", "declared", "routed"}
Serves == config.serves # "none"

Init ==
  /\ config \in [requested : Supported, offers : BOOLEAN,
                serves : Registries]
  /\ client = [state |-> "created", era |-> NoEra, heartbeat |-> FALSE]
  /\ server = [state |-> "created", era |-> NoEra, heartbeat |-> FALSE,
               disagreements |-> <<>>]
  /\ wire = Strays
  /\ from = [initialize |-> Nothing, initialized |-> Nothing]
  /\ refusals = {}

-----------------------------------------------------------------------------
(* Negotiation *)

Disagreements == {"version_missing", "version_malformed", "modern_era_refused",
                  "unsupported_version"}

NegotiateProtocol(v) ==
  CASE v = Missing   -> "version_missing"
    [] v = Malformed -> "version_malformed"
    [] v = Modern    -> "modern_era_refused"
    [] v = Unknown   -> "unsupported_version"
    [] OTHER         -> "supported_version"

NegotiateHeartbeat(a) ==
  IF ~a.object THEN "capability_malformed"
  ELSE IF a.legacy # "absent" /\ a.modern THEN "capability_ambiguous"
  ELSE IF a.legacy = "absent"
       THEN IF a.modern THEN "modern_era_refused" ELSE "capability_absent"
  ELSE IF a.legacy = "malformed" THEN "capability_malformed"
  ELSE IF a.legacy = "other_version" THEN "unsupported_extension_version"
  ELSE "capability_accepted"

Accepted(a) == NegotiateHeartbeat(a) = "capability_accepted"

(* Mutated form: reads the peer's advertisement alone. *)
Unilateral(a, able) == Accepted(a)
(* Negotiation is bilateral: the peer offers it and this side is able.     *)
Bilateral(a, able) == Accepted(a) /\ able

Says(extension) ==
  [object |-> TRUE, modern |-> FALSE,
   legacy |-> IF extension THEN "ours" ELSE "absent"]

(* Mutated form: the extension is advertised as a literal. *)
AdvertiseAlways(serves) == Says(TRUE)
(* advertise(): the extension is claimed only with the authoritative read. *)
Advertise(serves) == Says(serves)

-----------------------------------------------------------------------------
(* The client *)

HeartbeatReady(s) == s.state = "ready" /\ s.heartbeat

Send(m) == wire' = wire \cup {m}

(* initialize_request leaves the state alone: a caller may retry it. *)
InitializeRequest ==
  /\ client.state = "created"
  /\ Send([kind |-> "initialize", owner |-> "ours",
           version |-> config.requested, capabilities |-> Says(config.offers)])
  /\ UNCHANGED <<config, client, server, from, refusals>>

(* Whatever the state of the client is. *)
ConsumeInitializeResult(m) ==
  /\ m.kind = "result" /\ m.owner = "ours"
  /\ client' =
       IF m.version # config.requested THEN [client EXCEPT !.state = "failed"]
       ELSE [state |-> "initializing", era |-> m.version,
             heartbeat |-> Bilateral(m.capabilities, config.offers)]
  /\ UNCHANGED <<config, server, wire, from, refusals>>

(* Mutated form: the notification is never sent. *)
SilentlyReady ==
  /\ client.state = "initializing"
  /\ client' = [client EXCEPT !.state = "ready"]
  /\ UNCHANGED <<config, server, wire, from, refusals>>

InitializedNotification ==
  /\ client.state = "initializing"
  /\ client' = [client EXCEPT !.state = "ready"]
  /\ Send([kind |-> "initialized", owner |-> "ours"])
  /\ UNCHANGED <<config, server, from, refusals>>

(* An authoritative read, which the heartbeat consumer sends only on a     *)
(* session that is heartbeat_ready.                                        *)
Read ==
  /\ HeartbeatReady(client)
  /\ Send([kind |-> "read", owner |-> "ours"])
  /\ UNCHANGED <<config, client, server, from, refusals>>

-----------------------------------------------------------------------------
(* The server *)

(* Mutated form: a new initialize starts the session over. *)
InitializeAgain(m) ==
  /\ m.kind = "initialize"
  /\ NegotiateProtocol(m.version) = "supported_version"
  /\ server' = [server EXCEPT !.state = "initializing", !.era = m.version,
                  !.heartbeat = Bilateral(m.capabilities, Serves)]
  /\ from' = [from EXCEPT !.initialize = m.owner]
  /\ Send([kind |-> "result", owner |-> m.owner, version |-> m.version,
           capabilities |-> Advertise(Serves)])
  /\ UNCHANGED <<config, client, refusals>>

(* Mutated form: answers with the version it was asked for, whatever it is.*)
EchoVersion(m) ==
  /\ m.kind = "initialize"
  /\ server.state = "created"
  /\ server' = [server EXCEPT !.state = "initializing", !.era = m.version,
                  !.heartbeat = Bilateral(m.capabilities, Serves)]
  /\ from' = [from EXCEPT !.initialize = m.owner]
  /\ Send([kind |-> "result", owner |-> m.owner, version |-> m.version,
           capabilities |-> Advertise(Serves)])
  /\ UNCHANGED <<config, client, refusals>>

(* Out of order it raises and changes nothing; an unacceptable version     *)
(* ends the session and is recorded.                                       *)
HandleInitialize(m) ==
  LET code == NegotiateProtocol(m.version) IN
  /\ m.kind = "initialize"
  /\ server.state = "created"
  /\ IF code # "supported_version"
     THEN /\ server' = [server EXCEPT !.state = "failed",
                          !.disagreements = Append(@, code)]
          /\ UNCHANGED <<wire, from>>
     ELSE /\ server' = [server EXCEPT !.state = "initializing",
                          !.era = m.version,
                          !.heartbeat = Bilateral(m.capabilities, Serves)]
          /\ from' = [from EXCEPT !.initialize = m.owner]
          /\ Send([kind |-> "result", owner |-> m.owner, version |-> m.version,
                   capabilities |-> Advertise(Serves)])
  /\ UNCHANGED <<config, client, refusals>>

(* Mutated form: takes the notification in any state. *)
InitializedAnyTime(m) ==
  /\ m.kind = "initialized"
  /\ server.state # "failed"
  /\ server' = [server EXCEPT !.state = "ready"]
  /\ from' = [from EXCEPT !.initialized = m.owner]
  /\ UNCHANGED <<config, client, wire, refusals>>

HandleInitialized(m) ==
  /\ m.kind = "initialized"
  /\ server.state = "initializing"
  /\ server' = [server EXCEPT !.state = "ready"]
  /\ from' = [from EXCEPT !.initialized = m.owner]
  /\ UNCHANGED <<config, client, wire, refusals>>

(* An ordinary request: served, or refused with a reason. *)
HandleRead(m) ==
  LET reason == IF server.state # "ready" THEN "session_not_initialized"
                ELSE IF config.serves # "routed" THEN "method_not_implemented"
                ELSE Nothing
  IN
  /\ m.kind = "read"
  /\ refusals' = IF m.owner = "ours" THEN refusals \cup ({reason} \ {Nothing})
                 ELSE refusals
  /\ UNCHANGED <<config, client, server, wire, from>>

Next ==
  \/ InitializeRequest
  \/ InitializedNotification
  \/ Read
  \/ \E m \in wire : \/ ConsumeInitializeResult(m)
                     \/ HandleInitialize(m)
                     \/ HandleInitialized(m)
                     \/ HandleRead(m)

Spec == Init /\ [][Next]_vars

(* The client's caller asks, and completes the handshake once it is        *)
(* answered; what our client and the server say to each other is not lost  *)
(* for ever.  Nothing is assumed of other clients, nor of reads.           *)
Ours(kind) == {m \in wire : m.owner = "ours" /\ m.kind = kind}

Fairness ==
  /\ WF_vars(InitializeRequest)
  /\ WF_vars(InitializedNotification)
  /\ WF_vars(\E m \in Ours("initialize") : HandleInitialize(m))
  /\ WF_vars(\E m \in Ours("result") : ConsumeInitializeResult(m))
  /\ WF_vars(\E m \in Ours("initialized") : HandleInitialized(m))

FairSpec == Spec /\ Fairness

-----------------------------------------------------------------------------
(* Types: every variable stays in its domain; an era, once there is one,   *)
(* is a supported one, because no version is ever echoed (era.py).         *)
TypeOK ==
  /\ config \in [requested : Supported, offers : BOOLEAN, serves : Registries]
  /\ client \in [state : States, era : Supported \cup {NoEra},
                 heartbeat : BOOLEAN]
  /\ server \in [state : States, era : Supported \cup {NoEra},
                 heartbeat : BOOLEAN, disagreements : Seq(Disagreements)]
  /\ wire \subseteq Message
  /\ from \in [initialize : Owners \cup {Nothing},
               initialized : Owners \cup {Nothing}]
  /\ refusals \subseteq {"session_not_initialized", "method_not_implemented"}

(* Neither end believes in an extension the other does not have, or in     *)
(* another era, whatever is repeated or reordered on the way, and whatever *)
(* our client was answered before (session.py, "Negotiation is bilateral").*)
EndsAgree ==
  (client.state = "ready" /\ from.initialize = "ours") =>
    /\ client.era = server.era
    /\ client.heartbeat = server.heartbeat

(* A server is ready only through both halves of the handshake: someone's  *)
(* initialize and a notification after it.  If both are our client's, that *)
(* client has taken the server's answer and is in the same era.            *)
ReadyMeansNegotiated ==
  server.state = "ready" =>
    /\ from.initialize # Nothing
    /\ (from = [initialize |-> "ours", initialized |-> "ours"]) =>
         /\ client.state # "created"
         /\ client.era = server.era

(* A client that believes in the extension is never told that the read is  *)
(* not implemented, by a server it negotiated with and that does its own   *)
(* routing (capabilities.py: the extension is advertised only when the     *)
(* authoritative read exists).                                             *)
ReadsAreImplemented ==
  (from.initialize = "ours" /\ config.serves # "declared") =>
    "method_not_implemented" \notin refusals

(* A server session moves forward only: what it negotiated, that it failed *)
(* and every disagreement it has recorded stand.                           *)
ServerNeverGoesBack ==
  [][server' # server =>
       /\ <<server.state, server'.state>> \in
            {<<"created", "initializing">>, <<"created", "failed">>,
             <<"initializing", "ready">>}
       /\ server.era # NoEra => server'.era = server.era
       /\ IsPrefix(server.disagreements, server'.disagreements)]_vars

(* The handshake completes at both ends, though the client is ready before *)
(* the server knows it, unless another client took or spoilt the server's  *)
(* one initialize, or ours has refused an answer.                          *)
Completes ==
  <>(\/ client.state = "ready" /\ server.state = "ready"
     \/ client.state = "failed"
     \/ server.state = "failed"
     \/ from.initialize = "stray")
=============================================================================
