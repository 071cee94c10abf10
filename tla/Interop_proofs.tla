----------------------------- MODULE Interop_proofs -----------------------------
(***************************************************************************)
(* The two eras' consumers over the same answers, for every policy, every  *)
(* set of replicas, epochs, clocks and misrouted documents.                *)
(***************************************************************************)
EXTENDS Interop, FiniteSetTheorems, TLAPS

-----------------------------------------------------------------------------
(* The core's operators, for every document, tracker state and limit. *)

(* Rounding down to wire resolution stays among the instants. *)
LEMMA TruncateType ==
  ASSUME NEW t \in Int
  PROVE  Truncate(t) \in Int
  BY CoreAssumption DEF Truncate

(* What from_dict returns for a document it does not raise on.             *)
LEMMA FromDictType ==
  ASSUME NEW d \in Document, ~FromDictRaises(d)
  PROVE  FromDict(d) \in Heartbeat
  BY DEF FromDict, FromDictRaises, Document, Heartbeat

(* An accepted document passed every check of admit().                     *)
LEMMA AcceptedPassed ==
  ASSUME NEW s, NEW d, NEW t, Verdict(s, d, t) = "accepted"
  PROVE  /\ DocumentReason(d) = "none"
         /\ ~FromDictRaises(d)
         /\ FromDict(d).node = s.participant
         /\ ~IsDuplicate(s, FromDict(d))
         /\ ~ComparisonRaises(s, FromDict(d))
         /\ CheckLineage(s, FromDict(d)) = "none"
         /\ CheckFreshness(FromDict(d), t) = "none"
  <1>1. DocumentReason(d) = "none"
    <2>1. DocumentReason(d) # "accepted"
      BY DEF DocumentReason, ExpiryWindowViolation
    <2> QED BY <2>1 DEF Verdict
  <1>2. CheckLineage(s, FromDict(d)) # "accepted"
    BY DEF CheckLineage
  <1>3. CheckFreshness(FromDict(d), t) # "accepted"
    BY DEF CheckFreshness
  <1> QED BY <1>1, <1>2, <1>3 DEF Verdict

(* ... so it is a forward move: higher in the held epoch, or an epoch not  *)
(* yet retired.                                                            *)
LEMMA AcceptedMoves ==
  ASSUME NEW s \in LineageState, NEW d \in Document, d.seq # Null, NEW t,
         Verdict(s, d, t) = "accepted"
  PROVE  LET c == FromDict(d) IN
         \/ /\ SameEpoch(s, c)
            /\ s.held \in Heartbeat
            /\ s.held.seq \in Nat
            /\ c.seq > s.held.seq
         \/ /\ ~SameEpoch(s, c)
            /\ c.boot \notin s.retired
  <1> DEFINE c == FromDict(d)
  <1>1. /\ ~IsDuplicate(s, c)
        /\ ~ComparisonRaises(s, c)
        /\ CheckLineage(s, c) = "none"
        /\ ~FromDictRaises(d)
    BY AcceptedPassed
  <1>2. c \in Heartbeat /\ c.seq \in Nat
    BY <1>1, FromDictType DEF Heartbeat, Document, FromDict
  <1>3. CASE SameEpoch(s, c)
    <2>1. s.held \in Heartbeat
      BY <1>3 DEF SameEpoch, LineageState
    <2>2. s.held.seq \in Nat
      BY <1>1, <1>3, <2>1 DEF ComparisonRaises, Heartbeat
    <2>3. ~(c.seq < s.held.seq)
      BY <1>1, <1>3 DEF CheckLineage
    <2>4. c.seq # s.held.seq
      BY <1>1, <1>3, <2>3 DEF CheckLineage, IsDuplicate
    <2>5. c.seq > s.held.seq
      BY <1>2, <2>2, <2>3, <2>4
    <2> QED BY <1>3, <2>1, <2>2, <2>5
  <1>4. CASE ~SameEpoch(s, c)
    BY <1>1, <1>4 DEF CheckLineage
  <1> QED BY <1>3, <1>4

(* What goes on the wire is a document. *)
LEMMA ToDictType ==
  ASSUME NEW h \in Heartbeat
  PROVE  ToDict(h) \in Document
  <1>1. Truncate(h.issued) \in Int /\ Truncate(h.expires) \in Int
    BY TruncateType DEF Heartbeat
  <1> QED BY <1>1 DEF ToDict, Heartbeat, Document, Versions

(* Rounding down what is rounded down already changes nothing.             *)
LEMMA TruncateTwice ==
  ASSUME NEW t \in Int
  PROVE  Truncate(Truncate(t)) = Truncate(t)
  <1> DEFINE q == t \div MsTicks
  <1>1. MsTicks \in Nat \ {0} /\ q \in Int
    BY CoreAssumption
  <1> HIDE DEF q
  <1>2. (q * MsTicks) \div MsTicks = q
    BY <1>1
  <1> QED BY <1>2 DEF Truncate, q

-----------------------------------------------------------------------------
(* The two binders over one policy *)

(* A policy in compact keys opines on a principal as the table it was made *)
(* from does.                                                              *)
LEMMA CompactLookup ==
  ASSUME NEW table, NEW principal
  PROVE  /\ Compact(principal) \in DOMAIN InCompactKeys(table)
              <=> principal \in DOMAIN table
         /\ principal \in DOMAIN table =>
              InCompactKeys(table)[Compact(principal)] = table[principal]
<1>1. \A p, q : Compact(p) = Compact(q) <=> p = q
  BY DEF Compact
<1>2. DOMAIN InCompactKeys(table) = {Compact(p) : p \in DOMAIN table}
  BY DEF InCompactKeys
<1>3. Compact(principal) \in DOMAIN InCompactKeys(table)
        <=> principal \in DOMAIN table
  BY <1>1, <1>2
<1>4. ASSUME principal \in DOMAIN table
      PROVE  InCompactKeys(table)[Compact(principal)] = table[principal]
  <2>1. (CHOOSE p \in DOMAIN table : Compact(p) = Compact(principal)) = principal
    BY <1>1, <1>4
  <2>2. Compact(principal) \in {Compact(p) : p \in DOMAIN table}
    BY <1>4
  <2> QED BY <2>1, <2>2 DEF InCompactKeys
<1> QED BY <1>3, <1>4

(* Decision D2: for every policy and participant the two eras bind alike   *)
(* whoever is, or is not, there to vouch (identity_matrix.py,              *)
(* eras_agree_on_every_input).  The principal without a name is the one    *)
(* they part over: an empty Principal is no evidence, "" is a name.        *)
THEOREM BindAlike ==
  ASSUME NEW table, NEW callable, NEW principal, NEW participant,
         principal # NoOne
  PROVE  Evaluate(InCompactKeys(table), principal, participant).binding
           = Evidence(table, callable, principal, participant).binding
<1>1. CASE principal = NoPrincipal
  BY <1>1 DEF Evaluate, Evidence, IsEmpty, Unverified
<1>2. CASE principal # NoPrincipal /\ principal \notin DOMAIN table
  <2>1. Permits(InCompactKeys(table), principal, participant) = "no_opinion"
    BY <1>2, CompactLookup DEF Permits
  <2>2. Evaluate(InCompactKeys(table), principal, participant)
          = Unbound("no_policy_for_principal")
    BY <1>2, <2>1 DEF Evaluate, IsEmpty
  <2>3. ~IsPermitted(table, principal, participant)
    BY <1>2 DEF IsPermitted
  <2> QED BY <1>2, <2>2, <2>3 DEF Evidence, Unbound
<1>3. CASE principal # NoPrincipal /\ principal \in DOMAIN table
           /\ participant \in table[principal]
  <2>1. Permits(InCompactKeys(table), principal, participant) = "yes"
    BY <1>3, CompactLookup DEF Permits
  <2>2. Evaluate(InCompactKeys(table), principal, participant) = Bound
    BY <1>3, <2>1 DEF Evaluate, IsEmpty
  <2>3. IsPermitted(table, principal, participant)
    BY <1>3 DEF IsPermitted
  <2> QED BY <1>3, <2>2, <2>3 DEF Evidence, Bound
<1>4. CASE principal # NoPrincipal /\ principal \in DOMAIN table
           /\ participant \notin table[principal]
  <2>1. Permits(InCompactKeys(table), principal, participant) = "no"
    BY <1>4, CompactLookup DEF Permits
  <2>2. Evaluate(InCompactKeys(table), principal, participant)
          = Unbound("principal_not_permitted")
    BY <1>4, <2>1 DEF Evaluate, IsEmpty
  <2>3. ~IsPermitted(table, principal, participant)
    BY <1>4 DEF IsPermitted
  <2> QED BY <1>4, <2>2, <2>3 DEF Evidence, Unbound
<1> QED BY <1>1, <1>2, <1>3, <1>4

(* Somebody who authenticated is always told one way or the other.         *)
LEMMA AuthenticatedIsDecided ==
  ASSUME NEW table, NEW principal, NEW participant,
         principal \notin {NoPrincipal, NoOne}
  PROVE  Evaluate(table, principal, participant).binding \in {"bound", "unbound"}
BY DEF Evaluate, IsEmpty, Bound, Unbound

-----------------------------------------------------------------------------
(* The two consumers *)

(* A HeartbeatConsumer of this participant. *)
Reader(binds) ==
  {c \in [tracker : LineageState, binds : {binds}] : c.tracker.participant = Self}

Shapes ==
  /\ current \in Reader(TRUE) /\ newcomer \in Reader(TRUE) /\ bare \in Reader(FALSE)
  /\ legacy \in [tracker : LineageState, binds : {TRUE}]
  /\ legacy.tracker.participant = Self

(* What a replica serves is its own document, the last it has issued, for  *)
(* the participant it is.                                                  *)
ServesSelf ==
  /\ now \in Int
  /\ replica \in [Replicas -> [next : Nat, doc : Document \cup {NoDocument}]]
  /\ \A r \in Replicas : replica[r].doc # NoDocument =>
       /\ replica[r].doc.version = "0.1"
       /\ replica[r].doc.node = Self
       /\ replica[r].doc.boot = EpochOf[r]
       /\ replica[r].doc.seq = replica[r].next - 1
       /\ replica[r].doc.seq \in Nat
       /\ OnGrid(replica[r].doc)

IInv == Shapes /\ ServesSelf /\ ErasAgree

-----------------------------------------------------------------------------
(* Accepting keeps a tracker a tracker, of the same participant.           *)
LEMMA AcceptKeeps ==
  ASSUME NEW s \in LineageState, NEW d \in Document, NEW t,
         Verdict(s, d, t) = "accepted"
  PROVE  /\ Accept(s, FromDict(d)) \in LineageState
         /\ Accept(s, FromDict(d)).participant = s.participant
<1>1. FromDict(d) \in Heartbeat
  BY AcceptedPassed, FromDictType
<1>2. FromDict(d).boot \in Epochs \cup {Null}
  BY <1>1 DEF Heartbeat
<1> QED BY <1>1, <1>2 DEF Accept, LineageState

(* What one answer leaves of a HeartbeatConsumer, with a binder or without.*)
Advances(c, d, pr) ==
  /\ c.binds => Evaluate(CompactTable, pr, Self).binding = "bound"
  /\ Verdict(c.tracker, d, now) = "accepted"

LEMMA ReaderJudges ==
  ASSUME NEW binds \in BOOLEAN, NEW c \in Reader(binds),
         NEW d \in Document, NEW pr \in Anyone
  PROVE  LET a == [doc |-> d, principal |-> pr] IN
         /\ Judge(c, a) \in Reader(binds)
         /\ Judge(c, a).tracker =
              IF Advances(c, d, pr) THEN Accept(c.tracker, FromDict(d)) ELSE c.tracker
<1> DEFINE a == [doc |-> d, principal |-> pr]
           concludes == Concludes(c, CompactTable, a, now)
           facet == Evaluate(CompactTable, pr, Self)
           moved == IF concludes = "advanced"
                    THEN Accept(c.tracker, FromDict(d)) ELSE c.tracker
<1>0. /\ c.tracker \in LineageState /\ c.tracker.participant = Self
      /\ c.binds = binds /\ a # Unreachable
  BY InteropAssumption DEF Reader, Anyone
<1>1. concludes = "advanced" <=> Advances(c, d, pr)
  <2>1. /\ binds => FacetOf(c, CompactTable, a) = facet
        /\ ~binds => FacetOf(c, CompactTable, a).binding = "none"
    BY <1>0 DEF FacetOf
  <2>2. concludes =
          IF EnforceRaises(FacetOf(c, CompactTable, a)) THEN "identity_unbound"
          ELSE IF binds /\ ~Authoritative(FacetOf(c, CompactTable, a))
               THEN "non_authoritative"
          ELSE CASE Verdict(c.tracker, d, now) = "accepted"  -> "advanced"
                 [] Verdict(c.tracker, d, now) = "duplicate" -> "unchanged"
                 [] Verdict(c.tracker, d, now) = "raised"    -> "raised"
                 [] OTHER -> "refused"
    BY <1>0 DEF Concludes
  <2>3. CASE binds
    BY <1>0, <2>1, <2>2, <2>3 DEF Advances, EnforceRaises, Authoritative
  <2>4. CASE ~binds
    BY <1>0, <2>1, <2>2, <2>4 DEF Advances, EnforceRaises, Authoritative
  <2> QED BY <2>3, <2>4
<1>2. moved \in LineageState /\ moved.participant = Self
  BY <1>0, <1>1, AcceptKeeps DEF Advances
<1>3. Judge(c, a) = [c EXCEPT !.tracker = moved]
  BY DEF Judge, Refetch, Reader
<1> HIDE DEF moved
<1>4. Judge(c, a) \in Reader(binds) /\ Judge(c, a).tracker = moved
  BY <1>2, <1>3 DEF Reader
<1> QED BY <1>1, <1>4 DEF moved

(* What it leaves of the legacy era's: the claim judged is the consumer's  *)
(* own participant whenever the document would be accepted.                *)
LEMMA LegacyJudges ==
  ASSUME Shapes, NEW d \in Document, NEW pr
  PROVE  LET a == [doc |-> d, principal |-> pr] IN
         LET j == LegacyRefetch(legacy, TRUE, Table, Callable, a, now) IN
         LET accepts == /\ a # Unreachable
                        /\ Evidence(Table, Callable, pr, Self).binding # "unbound"
                        /\ Verdict(legacy.tracker, d, now) = "accepted"
         IN
         /\ j \in [tracker : LineageState, binds : {TRUE}]
         /\ j.tracker.participant = Self
         /\ j.tracker = IF accepts THEN Accept(legacy.tracker, FromDict(d))
                        ELSE legacy.tracker
<1> DEFINE a == [doc |-> d, principal |-> pr]
           evidence == EvidenceOf(legacy, Table, Callable, pr, d)
           v == Verdict(legacy.tracker, d, now)
           accepts == /\ a # Unreachable
                      /\ Evidence(Table, Callable, pr, Self).binding # "unbound"
                      /\ v = "accepted"
<1>0. /\ legacy \in [tracker : LineageState, binds : {TRUE}]
      /\ legacy.tracker \in LineageState /\ legacy.tracker.participant = Self
      /\ legacy.binds = TRUE
  BY DEF Shapes
<1>1. v = "accepted" => evidence = Evidence(Table, Callable, pr, Self)
  <2> SUFFICES ASSUME v = "accepted" PROVE evidence = Evidence(Table, Callable, pr, Self)
    OBVIOUS
  <2>1. FromDict(d).node = Self
    BY <1>0, AcceptedPassed
  <2>2. d.node = Self /\ Self # Null
    BY <2>1, CoreAssumption, InteropAssumption DEF FromDict
  <2> QED BY <1>0, <2>2 DEF EvidenceOf, Claimed
<1>2. LegacyConcludes(legacy, TRUE, Table, Callable, a, now) =
        IF a = Unreachable THEN "raised"
        ELSE IF v = "raised" THEN "raised"
        ELSE IF evidence.binding = "unbound" THEN "identity_unbound" ELSE v
  BY DEF LegacyConcludes
<1> HIDE DEF v, evidence
<1>3. LegacyConcludes(legacy, TRUE, Table, Callable, a, now) = "accepted" <=> accepts
  BY <1>1, <1>2
<1>4. CASE accepts
  <2>1. LegacyRefetch(legacy, TRUE, Table, Callable, a, now)
          = [legacy EXCEPT !.tracker = Accept(legacy.tracker, FromDict(d))]
    BY <1>3, <1>4 DEF LegacyRefetch
  <2>2. /\ Accept(legacy.tracker, FromDict(d)) \in LineageState
        /\ Accept(legacy.tracker, FromDict(d)).participant = Self
    BY <1>0, <1>4, AcceptKeeps DEF v
  <2> QED BY <1>0, <1>4, <2>1, <2>2 DEF v
<1>5. CASE ~accepts
  <2>1. LegacyRefetch(legacy, TRUE, Table, Callable, a, now) = legacy
    BY <1>3, <1>5 DEF LegacyRefetch
  <2> QED BY <1>0, <1>5, <2>1 DEF v
<1> QED BY <1>4, <1>5

(* One answer moves both or neither, if somebody vouches for it.           *)
LEMMA JudgedAlike ==
  ASSUME Shapes, legacy.tracker = current.tracker,
         NEW d \in Document, NEW pr \in Principals
  PROVE  LET a == [doc |-> d, principal |-> pr] IN
         LegacyRefetch(legacy, TRUE, Table, Callable, a, now).tracker
           = Judge(current, a).tracker
<1>1. pr \notin {NoPrincipal, NoOne}
  BY InteropAssumption
<1>2. Evaluate(CompactTable, pr, Self).binding = Evidence(Table, Callable, pr, Self).binding
  BY <1>1, BindAlike DEF CompactTable
<1>3. Evaluate(CompactTable, pr, Self).binding \in {"bound", "unbound"}
  BY <1>1, AuthenticatedIsDecided
<1>4. Evaluate(CompactTable, pr, Self).binding = "bound"
        <=> Evidence(Table, Callable, pr, Self).binding # "unbound"
  BY <1>2, <1>3
<1> DEFINE a == [doc |-> d, principal |-> pr]
<1>5. /\ Judge(current, a).tracker =
           IF Advances(current, d, pr)
           THEN Accept(current.tracker, FromDict(d)) ELSE current.tracker
      /\ current.binds = TRUE /\ a # Unreachable
  <2>1. current \in Reader(TRUE) /\ pr \in Anyone
    BY DEF Shapes, Anyone
  <2>2. current.binds = TRUE
    BY <2>1 DEF Reader
  <2>3. a # Unreachable
    BY InteropAssumption
  <2> QED BY <2>1, <2>2, <2>3, ReaderJudges
<1>6. LegacyRefetch(legacy, TRUE, Table, Callable, a, now).tracker =
        IF /\ a # Unreachable
           /\ Evidence(Table, Callable, pr, Self).binding # "unbound"
           /\ Verdict(legacy.tracker, d, now) = "accepted"
        THEN Accept(legacy.tracker, FromDict(d)) ELSE legacy.tracker
  BY LegacyJudges
<1> QED BY <1>4, <1>5, <1>6 DEF Advances

-----------------------------------------------------------------------------
(* A consumer that has just connected has heard nothing. *)
LEMMA NewReader ==
  ASSUME NEW binds \in BOOLEAN
  PROVE  NewConsumer(Self, binds) \in Reader(binds)
<1>1. Self \in Participants
  BY InteropAssumption
<1>2. EmptyLineage(Self) \in LineageState /\ EmptyLineage(Self).participant = Self
  BY <1>1 DEF EmptyLineage, LineageState
<1> QED BY <1>2 DEF NewConsumer, Reader

(* The initial state, in which nobody has.                                 *)
LEMMA InitHolds == Init => IInv
<1> SUFFICES ASSUME Init PROVE IInv
  OBVIOUS
<1>1. Self \in Participants
  BY InteropAssumption
<1>2. EmptyLineage(Self) \in LineageState /\ EmptyLineage(Self).participant = Self
  BY <1>1 DEF EmptyLineage, LineageState
<1>3. Shapes
  BY <1>2, NewReader DEF Init, NewLegacyConsumer, Shapes
<1>4. ErasAgree
  BY DEF Init, NewConsumer, NewLegacyConsumer, ErasAgree
<1>5. ServesSelf
  BY DEF Init, ServesSelf
<1> QED BY <1>3, <1>4, <1>5 DEF IInv

(* A beat issues a document for the participant the replicas are.          *)
LEMMA BeatKeeps ==
  ASSUME IInv, NEW r \in Replicas, Beat(r)
  PROVE  ServesSelf'
<1> DEFINE t == now + SkewOf[r]
           h == [node |-> Self, boot |-> EpochOf[r], seq |-> replica[r].next,
                 issued |-> t, expires |-> t + Lease, body |-> NoBody]
<1>1. /\ now \in Int /\ t \in Int /\ t + Lease \in Int
      /\ replica[r].next \in Nat /\ replica[r].next + 1 \in Nat
      /\ EpochOf[r] \in Epochs
  <2>1. Lease \in Int
    BY InteropAssumption, CoreAssumption
  <2> QED BY <2>1, InteropAssumption DEF IInv, ServesSelf
<1>2. h \in Heartbeat
  BY <1>1, InteropAssumption, CoreAssumption DEF Heartbeat
<1>3. /\ ToDict(h) \in Document /\ ToDict(h).version = "0.1" /\ ToDict(h).node = Self
      /\ ToDict(h).boot = EpochOf[r] /\ ToDict(h).seq = replica[r].next
  BY <1>2, ToDictType DEF ToDict
<1>5. OnGrid(ToDict(h))
  BY <1>1, TruncateTwice DEF OnGrid, ToDict
<1>4. replica' = [replica EXCEPT ![r] = [next |-> replica[r].next + 1, doc |-> ToDict(h)]]
      /\ now' = now
  BY DEF Beat
<1> HIDE DEF h, t
<1> QED BY <1>1, <1>3, <1>4, <1>5 DEF IInv, ServesSelf

(* Every step preserves the invariant.                                     *)
LEMMA StepKeeps == IInv /\ [Next]_vars => IInv'
<1> SUFFICES ASSUME IInv, [Next]_vars PROVE IInv'
  OBVIOUS
<1>1. CASE \E r \in Replicas : Beat(r)
  <2>1. PICK r \in Replicas : Beat(r)
    BY <1>1
  <2>2. UNCHANGED <<current, legacy, bare, newcomer, apart>>
    BY <2>1 DEF Beat, readers
  <2>3. ServesSelf'
    BY <2>1, BeatKeeps
  <2> QED BY <2>2, <2>3 DEF IInv, Shapes, ErasAgree
<1>2. CASE Tick
  <2>1. now' = now + 1 /\ UNCHANGED <<replica, current, legacy, bare, newcomer, apart>>
    BY <1>2 DEF Tick, readers
  <2>2. now' \in Int
    BY <2>1 DEF IInv, ServesSelf
  <2> QED BY <2>1, <2>2 DEF IInv, Shapes, ServesSelf, ErasAgree
<1>3. CASE \E d \in Served \cup Misrouted, pr \in Anyone : Read(d, pr)
  <2>1. PICK d \in Served \cup Misrouted, pr \in Anyone : Read(d, pr)
    BY <1>3
  <2>2. d \in Document
    BY InteropAssumption DEF Served, IInv, ServesSelf
  <2> DEFINE a == [doc |-> d, principal |-> pr]
  <2>3. /\ current' = Judge(current, a) /\ bare' = Judge(bare, a)
        /\ newcomer' = Judge(newcomer, a)
        /\ legacy' = LegacyRefetch(legacy, TRUE, Table, Callable, a, now)
        /\ apart' = apart \cup Excuses(d, pr)
        /\ UNCHANGED <<now, replica>>
    BY <2>1 DEF Read
  <2>4. Shapes'
    BY <2>2, <2>3, ReaderJudges, LegacyJudges DEF IInv, Shapes
  <2>5. ServesSelf'
    BY <2>3 DEF IInv, ServesSelf
  <2>6. ASSUME "unverified" \notin apart' PROVE legacy'.tracker = current'.tracker
    <3>1. pr # NoPrincipal
      BY <2>3, <2>6 DEF Excuses
    <3>2. pr \in Principals
      BY <3>1 DEF Anyone
    <3>3. legacy.tracker = current.tracker
      BY <2>3, <2>6 DEF IInv, ErasAgree
    <3> QED BY <2>2, <2>3, <3>2, <3>3, JudgedAlike DEF IInv
  <2> QED BY <2>4, <2>5, <2>6 DEF IInv, ErasAgree
<1>4. CASE Reconnect
  <2>1. newcomer' \in Reader(TRUE)
    BY <1>4, NewReader DEF Reconnect
  <2> QED BY <1>4, <2>1 DEF Reconnect, IInv, Shapes, ServesSelf, ErasAgree
<1>5. CASE UNCHANGED vars
  BY <1>5 DEF vars, IInv, Shapes, ServesSelf, ErasAgree
<1> QED BY <1>1, <1>2, <1>3, <1>4, <1>5 DEF Next

(* The invariant of every deployment.                                      *)
THEOREM ConsumersInvariant == Spec => []IInv
<1>1. Init => IInv
  BY InitHolds
<1>2. IInv /\ [Next]_vars => IInv'
  BY StepKeeps
<1> QED BY <1>1, <1>2, PTL DEF Spec

-----------------------------------------------------------------------------
(* Both eras bind alike whatever a replica serves and whoever vouches for  *)
(* it, under every policy (identity_matrix.py, eras_agree_on_every_input). *)
THEOREM BoundAlike == Spec => []ErasBindAlike
<1>1. IInv => ErasBindAlike
  <2> SUFFICES ASSUME IInv, NEW d \in Served, NEW pr \in Anyone
               PROVE  Evaluate(CompactTable, pr, current.tracker.participant).binding
                        = EvidenceOf(legacy, Table, Callable, pr, d).binding
    BY DEF ErasBindAlike
  <2>1. d.node = Self
    BY DEF Served, IInv, ServesSelf
  <2>2. EvidenceOf(legacy, Table, Callable, pr, d) = Evidence(Table, Callable, pr, Self)
    <3>1. legacy.binds = TRUE /\ legacy.tracker.participant = Self
      BY DEF IInv, Shapes
    <3> QED BY <2>1, <3>1 DEF EvidenceOf, Claimed
  <2>3. pr # NoOne
    BY InteropAssumption, IdentityAssumption DEF Anyone
  <2>4. current.tracker.participant = Self
    BY DEF IInv, Shapes, Reader
  <2> QED BY <2>2, <2>3, <2>4, BindAlike DEF CompactTable
<1> QED BY <1>1, ConsumersInvariant, PTL

(* As long as every answer was authenticated the two eras' consumers hold  *)
(* and have retired the same, under every policy and whatever the replicas *)
(* and their clocks do.                                                    *)
THEOREM AgreedWhileAuthenticated == Spec => []ErasAgree
<1>1. IInv => ErasAgree
  BY DEF IInv
<1> QED BY <1>1, ConsumersInvariant, PTL

-----------------------------------------------------------------------------
(* The clean-room consumer *)

(* A document of the wire declares a version, has a sequence, and instants *)
(* the wire can carry.                                                     *)
LEMMA ServedWhole ==
  ASSUME MisroutedWhole, IInv, NEW d \in Served \cup Misrouted
  PROVE  /\ d \in Document
         /\ d.version # Null
         /\ d.seq \in Nat
         /\ ~FromDictRaises(d) => OnGrid(d)
<1>1. CASE d \in Served
  <2>1. PICK r \in Replicas : d = replica[r].doc /\ replica[r].doc # NoDocument
    BY <1>1 DEF Served
  <2> QED BY <2>1, CoreAssumption DEF IInv, ServesSelf, Versions
<1>2. CASE d \in Misrouted
  BY <1>2, InteropAssumption DEF MisroutedWhole, Document
<1> QED BY <1>1, <1>2

(* The schema's reader sees what the core sees.                            *)
Mirrors ==
  /\ clean.seen = bare.tracker.retired
  /\ clean.held = IF HeldBy(bare) = NoHeartbeat THEN NoHeartbeat
                  ELSE ToDict(HeldBy(bare))

CleanInv ==
  /\ clean \in [participant : {Self}, held : Document \cup {NoHeartbeat},
                 seen : SUBSET (Epochs \cup {Null})]
  /\ HeldBy(bare) # NoHeartbeat => HeldBy(bare).seq \in Nat
  /\ "skewed" \notin apart => Mirrors

(* Two readings of the contract give one verdict: the core looks at        *)
(* lineage, then at skew and expiry, the clean room at expiry, then at     *)
(* lineage; they digest different forms, and it does not matter, as a      *)
(* duplicate and a conflict are both left alone.                           *)
LEMMA SameVerdict ==
  ASSUME IInv, CleanInv, Mirrors, NEW d \in Document, d.version # Null,
         d.seq \in Nat,
         ~(d.issued - now > MaxSkew \/ now - d.issued > MaxSkew)
  PROVE  Verdict(bare.tracker, d, now) = "accepted"
           <=> CleanVerdict(clean, d, now) = "ok"
<1> DEFINE s == bare.tracker
           c == FromDict(d)
<1>0. /\ s \in LineageState /\ s.participant = Self /\ clean.participant = Self
      /\ now \in Int
      /\ HeldBy(bare) = s.held
      /\ c.boot = d.boot /\ c.seq = d.seq /\ c.node = d.node
      /\ c.issued = d.issued /\ c.expires = d.expires
  BY DEF IInv, Shapes, Reader, ServesSelf, CleanInv, HeldBy, FromDict
<1>1. CleanValid(d) <=> DocumentReason(d) = "none" /\ ~FromDictRaises(d)
  <2>1. ~FromDictRaises(d) => d.issued \in Int /\ d.expires \in Int
    BY DEF FromDictRaises, Document
  <2>2. ~FromDictRaises(d) =>
          ((d.expires > d.issued /\ d.expires - d.issued <= MaxLease)
             <=> ExpiryWindowViolation(d) = "none")
    BY <2>1, CoreAssumption DEF ExpiryWindowViolation
  <2> QED BY <2>2 DEF CleanValid, DocumentReason
<1>2. ~FromDictRaises(d) =>
        (CheckFreshness(c, now) = "none" <=> ~(now >= d.expires))
  <2>1. ~FromDictRaises(d) => d.issued \in Int /\ d.expires \in Int
    BY DEF FromDictRaises, Document
  <2> QED BY <1>0, <2>1 DEF CheckFreshness, IsFresh
<1>3. (s.held = NoHeartbeat <=> clean.held = NoHeartbeat)
      /\ (s.held # NoHeartbeat =>
            /\ clean.held.boot = s.held.boot /\ clean.held.seq = s.held.seq
            /\ s.held.seq \in Nat)
  <2>1. s.held # NoHeartbeat => ToDict(s.held) \in Document
    BY <1>0, ToDictType DEF LineageState
  <2>2. clean.held = IF s.held = NoHeartbeat THEN NoHeartbeat ELSE ToDict(s.held)
    BY <1>0 DEF Mirrors
  <2>3. s.held # NoHeartbeat => s.held.seq \in Nat
    BY <1>0 DEF CleanInv
  <2> HIDE DEF s
  <2>4. ToDict(s.held).boot = s.held.boot /\ ToDict(s.held).seq = s.held.seq
    BY DEF ToDict
  <2> QED BY <2>1, <2>2, <2>3, <2>4, InteropAssumption
<1> DEFINE forward == \/ ~SameEpoch(s, c) /\ d.boot \notin s.retired
                      \/ SameEpoch(s, c) /\ d.seq > s.held.seq
<1>4. SameEpoch(s, c) <=> clean.held # NoHeartbeat /\ d.boot = clean.held.boot
  BY <1>0, <1>3 DEF SameEpoch
<1>5. (/\ ~IsDuplicate(s, c)
       /\ ~ComparisonRaises(s, c)
       /\ CheckLineage(s, c) = "none") <=> forward
  <2>1. SameEpoch(s, c) => s.held.seq \in Nat
    BY <1>3 DEF SameEpoch
  <2>2. CASE SameEpoch(s, c)
    <3>1. ~ComparisonRaises(s, c)
      BY <1>0, <2>1, <2>2, CoreAssumption DEF ComparisonRaises
    <3>2. (/\ ~IsDuplicate(s, c) /\ CheckLineage(s, c) = "none")
            <=> ~(d.seq < s.held.seq) /\ d.seq # s.held.seq
      BY <1>0, <2>2 DEF IsDuplicate, CheckLineage
    <3> QED BY <2>1, <2>2, <3>1, <3>2
  <2>3. CASE ~SameEpoch(s, c)
    BY <1>0, <2>3 DEF IsDuplicate, ComparisonRaises, CheckLineage
  <2> QED BY <2>2, <2>3
<1>6. Verdict(s, d, now) = "accepted" <=>
        /\ DocumentReason(d) = "none" /\ ~FromDictRaises(d)
        /\ d.node = Self
        /\ forward
        /\ CheckFreshness(c, now) = "none"
  <2>1. Verdict(s, d, now) = "accepted" =>
          /\ DocumentReason(d) = "none" /\ ~FromDictRaises(d) /\ d.node = Self
          /\ forward /\ CheckFreshness(c, now) = "none"
    <3> HIDE DEF forward, s
    <3> QED BY <1>0, <1>5, AcceptedPassed
  <2> HIDE DEF forward, s, c
  <2>2. (/\ DocumentReason(d) = "none" /\ ~FromDictRaises(d) /\ d.node = Self
         /\ forward /\ CheckFreshness(c, now) = "none")
          => Verdict(s, d, now) = "accepted"
    BY <1>0, <1>5 DEF Verdict, c
  <2> QED BY <2>1, <2>2
<1>7. CleanVerdict(clean, d, now) = "ok" <=>
        /\ CleanValid(d)
        /\ d.node = Self
        /\ ~(now >= d.expires)
        /\ forward
  <2> DEFINE known == clean.held # NoHeartbeat /\ d.boot = clean.held.boot
  <2>1. known => /\ clean.held.seq \in Nat /\ clean.held.seq = s.held.seq
    BY <1>3
  <2>2. forward <=> (\/ ~known /\ d.boot \notin clean.seen
                     \/ known /\ d.seq > clean.held.seq)
    BY <1>4, <2>1 DEF Mirrors
  <2>3. known => (d.seq > clean.held.seq
                   <=> ~(d.seq < clean.held.seq) /\ d.seq # clean.held.seq)
    BY <2>1
  <2>4. known => d.seq # Null /\ clean.held.seq # Null
    BY <2>1, CoreAssumption
  <2> HIDE DEF forward, s, c
  <2> QED BY <1>0, <2>2, <2>3, <2>4 DEF CleanVerdict
<1> QED BY <1>1, <1>2, <1>6, <1>7

LEMMA CleanKept ==
  ASSUME MisroutedWhole, IInv, CleanInv, [Next]_vars
  PROVE  CleanInv'
<1>1. CASE \E d \in Served \cup Misrouted, pr \in Anyone : Read(d, pr)
  <2>1. PICK d \in Served \cup Misrouted, pr \in Anyone : Read(d, pr)
    BY <1>1
  <2> DEFINE s == bare.tracker
             accepted == Verdict(s, d, now) = "accepted"
  <2>2. /\ bare' = Judge(bare, [doc |-> d, principal |-> pr])
        /\ clean' = CleanAdmit(clean, d, now)
        /\ apart' = apart \cup Excuses(d, pr)
    BY <2>1 DEF Read
  <2>3. /\ d \in Document /\ d.version # Null /\ d.seq \in Nat
        /\ ~FromDictRaises(d) => OnGrid(d)
    BY ServedWhole
  <2>4. bare \in Reader(FALSE) /\ s \in LineageState /\ bare.binds = FALSE
    BY DEF IInv, Shapes, Reader
  <2>5. bare'.tracker = IF accepted THEN Accept(s, FromDict(d)) ELSE s
    BY <2>2, <2>3, <2>4, ReaderJudges DEF Advances
  <2>6. /\ accepted => HeldBy(bare)' = FromDict(d) /\ FromDict(d).seq = d.seq
                       /\ bare'.tracker.retired = s.retired \cup {d.boot}
        /\ ~accepted => bare'.tracker = s
    BY <2>4, <2>5 DEF HeldBy, Accept, FromDict, LineageState
  <2> DEFINE ok == CleanVerdict(clean, d, now) = "ok"
  <2>7. /\ ok => /\ clean' = [clean EXCEPT !.held = d, !.seen = @ \cup {d.boot}]
                 /\ clean'.held = d /\ clean'.seen = clean.seen \cup {d.boot}
        /\ ~ok => clean' = clean
    BY <2>2 DEF CleanAdmit, CleanInv
  <2>8. clean' \in [participant : {Self}, held : Document \cup {NoHeartbeat},
                    seen : SUBSET (Epochs \cup {Null})]
    <3>1. d.boot \in Epochs \cup {Null}
      BY <2>3 DEF Document
    <3> QED BY <2>3, <2>7, <3>1 DEF CleanInv
  <2>9. HeldBy(bare)' # NoHeartbeat => HeldBy(bare)'.seq \in Nat
    BY <2>3, <2>6 DEF CleanInv, HeldBy
  <2>10. ASSUME "skewed" \notin apart' PROVE Mirrors'
    <3>1. "skewed" \notin apart
          /\ ~(d.issued - now > MaxSkew \/ now - d.issued > MaxSkew)
      BY <2>2, <2>10 DEF Excuses
    <3>2. Mirrors
      BY <3>1 DEF CleanInv
    <3>3. accepted <=> ok
      BY <2>3, <3>1, <3>2, SameVerdict
    <3>4. CASE ~accepted
      BY <2>6, <2>7, <3>2, <3>3, <3>4 DEF Mirrors, HeldBy
    <3>5. CASE accepted
      <4>1. DocumentReason(d) = "none" /\ ~FromDictRaises(d)
        BY <3>5, AcceptedPassed
      <4>2. d.version = "0.1" /\ d.wellFormed = TRUE
        BY <2>3, <4>1 DEF DocumentReason, Document
      <4>3. d = ToDict(FromDict(d))
        BY <2>3, <4>1, <4>2 DEF ToDict, FromDict, OnGrid, Document
      <4>4. FromDict(d) # NoHeartbeat
        BY <2>3, <4>1, FromDictType, InteropAssumption
      <4> QED BY <2>6, <2>7, <3>2, <3>3, <3>5, <4>3, <4>4 DEF Mirrors
    <3> QED BY <3>4, <3>5
  <2> QED BY <2>8, <2>9, <2>10 DEF CleanInv
<1>2. CASE UNCHANGED <<bare, clean, apart>>
  BY <1>2 DEF CleanInv, Mirrors, HeldBy
<1> QED
  BY <1>1, <1>2 DEF Next, Beat, Tick, Reconnect, readers, vars

LEMMA CleanInvariant ==
  ASSUME MisroutedWhole
  PROVE  Spec => []CleanInv
<1>1. Init => CleanInv
  BY DEF Init, CleanInv, Mirrors, NewCleanRoom, NewConsumer, HeldBy, EmptyLineage
<1>2. IInv /\ CleanInv /\ [Next]_vars => CleanInv'
  BY CleanKept
<1> QED BY <1>1, <1>2, ConsumersInvariant, PTL DEF Spec

(* The schema alone says enough: a consumer written from it holds what the *)
(* core holds, whatever the replicas, the gateway and the clocks do, until *)
(* it reads a document that clocks do not agree about                      *)
(* (cleanroom/hb_cleanroom/participant.py against lineage.py).             *)
THEOREM CleanRoomAlwaysAgrees ==
  ASSUME MisroutedWhole
  PROVE  Spec => []CleanRoomAgrees
<1>1. CleanInv => CleanRoomAgrees
  BY DEF CleanInv, Mirrors, CleanRoomAgrees
<1> QED BY <1>1, CleanInvariant, PTL

-----------------------------------------------------------------------------
(* Three registers *)

(* What is held is on record, and so is its epoch and every epoch before.  *)
Recorded(h, retired, past) ==
  /\ \A q \in past : q.boot \in retired
  /\ h # NoHeartbeat =>
       /\ Revision(h) \in [boot : Epochs \cup {Null}, seq : Nat]
       /\ Revision(h) \in past

(* c may take h's place: it is later in the same epoch, or of an epoch     *)
(* that was not held before.                                               *)
Overtakes(h, retired, c) ==
  /\ c # NoHeartbeat
  /\ Revision(c) \in [boot : Epochs \cup {Null}, seq : Nat]
  /\ \/ h # NoHeartbeat /\ c.boot = h.boot /\ c.seq > h.seq
     \/ c.boot \notin retired

(* From h to c, or nothing.                                                *)
Moves(h, retired, past, c, retired2, past2) ==
  /\ past2 = past \cup Shows(c)
  /\ \/ c = h /\ retired2 = retired
     \/ Overtakes(h, retired, c) /\ retired2 = retired \cup {c.boot}

RegisterInv ==
  /\ Recorded(HeldBy(current), current.tracker.retired, shown.current)
  /\ Recorded(HeldBy(legacy), legacy.tracker.retired, shown.legacy)
  /\ Recorded(clean.held, clean.seen, shown.clean)

LEMMA StillRecorded ==
  ASSUME NEW h, NEW retired, NEW past, NEW c, NEW retired2, NEW past2,
         Recorded(h, retired, past), Moves(h, retired, past, c, retired2, past2)
  PROVE  Recorded(c, retired2, past2)
<1>1. CASE c = h /\ retired2 = retired
  BY <1>1 DEF Recorded, Moves, Shows
<1>2. CASE Overtakes(h, retired, c) /\ retired2 = retired \cup {c.boot}
  <2>1. past2 = past \cup {Revision(c)} /\ Revision(c).boot = c.boot
    BY <1>2 DEF Moves, Overtakes, Shows, Revision
  <2> QED BY <1>2, <2>1 DEF Recorded, Overtakes
<1> QED BY <1>1, <1>2 DEF Moves

(* Such a move is a step of a register, or none.                           *)
LEMMA MovesForward ==
  ASSUME NEW h, NEW retired, NEW past, NEW c, NEW retired2, NEW past2,
         Recorded(h, retired, past), Moves(h, retired, past, c, retired2, past2)
  PROVE  \/ Showing(c) = Showing(h) /\ past2 = past
         \/ /\ Showing(c) \in [boot : Epochs \cup {Null}, seq : Nat]
            /\ \/ /\ Showing(h) # NoHeartbeat
                  /\ Showing(c).boot = Showing(h).boot
                  /\ Showing(c).seq > Showing(h).seq
               \/ \A q \in past : q.boot # Showing(c).boot
            /\ past2 = past \cup {Showing(c)}
<1>1. CASE c = h /\ retired2 = retired
  BY <1>1 DEF Recorded, Moves, Shows
<1>2. CASE Overtakes(h, retired, c) /\ retired2 = retired \cup {c.boot}
  <2>1. past2 = past \cup {Revision(c)} /\ Showing(c) = Revision(c)
    BY <1>2 DEF Moves, Overtakes, Shows, Showing
  <2>2. Revision(c).boot = c.boot /\ Revision(c).seq = c.seq
    BY DEF Revision
  <2>3. h # NoHeartbeat =>
          /\ Showing(h) = Revision(h) /\ Showing(h) # NoHeartbeat
          /\ Showing(h).boot = h.boot /\ Showing(h).seq = h.seq
    <3>1. h # NoHeartbeat => Revision(h) # NoHeartbeat
      BY InteropAssumption DEF Recorded
    <3> QED BY <3>1 DEF Showing, Revision
  <2>4. \/ /\ Showing(h) # NoHeartbeat
           /\ Showing(c).boot = Showing(h).boot
           /\ Showing(c).seq > Showing(h).seq
        \/ \A q \in past : q.boot # Showing(c).boot
    BY <1>2, <2>1, <2>2, <2>3 DEF Overtakes, Recorded
  <2>5. Showing(c) \in [boot : Epochs \cup {Null}, seq : Nat]
    BY <1>2, <2>1 DEF Overtakes
  <2> QED BY <2>1, <2>4, <2>5
<1> QED BY <1>1, <1>2 DEF Moves

(* The core lets a tracker move only so ...                                *)
LEMMA AcceptOvertakes ==
  ASSUME NEW s \in LineageState, NEW d \in Document, d.seq \in Nat,
         Verdict(s, d, now) = "accepted"
  PROVE  /\ Overtakes(s.held, s.retired, FromDict(d))
         /\ Accept(s, FromDict(d)).held = FromDict(d)
         /\ Accept(s, FromDict(d)).retired = s.retired \cup {FromDict(d).boot}
<1> DEFINE c == FromDict(d)
<1>1. c \in Heartbeat /\ c # NoHeartbeat /\ c.seq \in Nat
  <2>1. c \in Heartbeat
    BY AcceptedPassed, FromDictType
  <2> QED BY <2>1, InteropAssumption DEF FromDict
<1>2. \/ s.held # NoHeartbeat /\ c.boot = s.held.boot /\ c.seq > s.held.seq
      \/ c.boot \notin s.retired
  <2>1. d.seq # Null
    BY CoreAssumption
  <2> QED BY <2>1, AcceptedMoves DEF SameEpoch
<1>3. Revision(c) \in [boot : Epochs \cup {Null}, seq : Nat]
  BY <1>1 DEF Heartbeat, Revision
<1>4. Accept(s, c).held = c /\ Accept(s, c).retired = s.retired \cup {c.boot}
  BY DEF Accept, LineageState
<1> QED BY <1>1, <1>2, <1>3, <1>4 DEF Overtakes

(* ... and the clean room, by checks of its own, no further.               *)
LEMMA CleanOvertakes ==
  ASSUME CleanInv, NEW d \in Document, d.seq \in Nat
  PROVE  LET c == CleanAdmit(clean, d, now) IN
         \/ c = clean
         \/ /\ Overtakes(clean.held, clean.seen, d)
            /\ c.held = d /\ c.seen = clean.seen \cup {d.boot}
<1>1. CASE CleanVerdict(clean, d, now) # "ok"
  BY <1>1 DEF CleanAdmit
<1>2. CASE CleanVerdict(clean, d, now) = "ok"
  <2>1. /\ CleanAdmit(clean, d, now).held = d
        /\ CleanAdmit(clean, d, now).seen = clean.seen \cup {d.boot}
    BY <1>2 DEF CleanAdmit, CleanInv
  <2>2. \/ clean.held # NoHeartbeat /\ d.boot = clean.held.boot /\ d.seq > clean.held.seq
        \/ d.boot \notin clean.seen
    BY <1>2 DEF CleanVerdict
  <2>3. d # NoHeartbeat /\ Revision(d) \in [boot : Epochs \cup {Null}, seq : Nat]
    BY InteropAssumption DEF Document, Revision
  <2> QED BY <2>1, <2>2, <2>3 DEF Overtakes
<1> QED BY <1>1, <1>2

(* One answer moves each of the three forward, or not at all.              *)
LEMMA ReadMoves ==
  ASSUME MisroutedWhole, IInv, CleanInv, RegisterInv,
         NEW d \in Served \cup Misrouted, NEW pr \in Anyone, Read(d, pr)
  PROVE  /\ Moves(HeldBy(current), current.tracker.retired, shown.current,
                  HeldBy(current'), current'.tracker.retired, shown'.current)
         /\ Moves(HeldBy(legacy), legacy.tracker.retired, shown.legacy,
                  HeldBy(legacy'), legacy'.tracker.retired, shown'.legacy)
         /\ Moves(clean.held, clean.seen, shown.clean,
                  clean'.held, clean'.seen, shown'.clean)
<1> DEFINE a == [doc |-> d, principal |-> pr]
<1>1. d \in Document /\ d.seq \in Nat
  BY ServedWhole
<1>2. /\ current' = Judge(current, a)
      /\ legacy' = LegacyRefetch(legacy, TRUE, Table, Callable, a, now)
      /\ clean' = CleanAdmit(clean, d, now)
      /\ shown'.current = shown.current \cup Shows(HeldBy(current'))
      /\ shown'.legacy = shown.legacy \cup Shows(HeldBy(legacy'))
      /\ shown'.clean = shown.clean \cup Shows(clean'.held)
  BY DEF Read
<1>3. Moves(HeldBy(current), current.tracker.retired, shown.current,
            HeldBy(current'), current'.tracker.retired, shown'.current)
  <2>1. /\ current \in Reader(TRUE) /\ current.tracker \in LineageState
        /\ current'.tracker = IF Advances(current, d, pr)
                              THEN Accept(current.tracker, FromDict(d))
                              ELSE current.tracker
    <3>1. current \in Reader(TRUE) /\ TRUE \in BOOLEAN
      BY DEF IInv, Shapes
    <3>2. Judge(current, a).tracker = IF Advances(current, d, pr)
                                      THEN Accept(current.tracker, FromDict(d))
                                      ELSE current.tracker
      BY <1>1, <3>1, ReaderJudges
    <3> QED BY <1>2, <3>1, <3>2 DEF Reader
  <2>2. CASE Advances(current, d, pr)
    BY <1>1, <1>2, <2>1, <2>2, AcceptOvertakes DEF Advances, Moves, HeldBy
  <2>3. CASE ~Advances(current, d, pr)
    BY <1>2, <2>1, <2>3 DEF Moves, HeldBy
  <2> QED BY <2>2, <2>3
<1>4. Moves(HeldBy(legacy), legacy.tracker.retired, shown.legacy,
            HeldBy(legacy'), legacy'.tracker.retired, shown'.legacy)
  <2>1. legacy.tracker \in LineageState
    BY DEF IInv, Shapes
  <2>2. \/ legacy'.tracker = legacy.tracker
        \/ /\ Verdict(legacy.tracker, d, now) = "accepted"
           /\ legacy'.tracker = Accept(legacy.tracker, FromDict(d))
    BY <1>1, <1>2, LegacyJudges DEF IInv
  <2>3. CASE legacy'.tracker = legacy.tracker
    BY <1>2, <2>3 DEF Moves, HeldBy
  <2>4. CASE /\ Verdict(legacy.tracker, d, now) = "accepted"
             /\ legacy'.tracker = Accept(legacy.tracker, FromDict(d))
    BY <1>1, <1>2, <2>1, <2>4, AcceptOvertakes DEF Moves, HeldBy
  <2> QED BY <2>2, <2>3, <2>4
<1>5. Moves(clean.held, clean.seen, shown.clean,
            clean'.held, clean'.seen, shown'.clean)
  BY <1>1, <1>2, CleanOvertakes DEF Moves
<1> QED BY <1>3, <1>4, <1>5

(* Whatever else happens leaves the three alone.                           *)
LEMMA NextMoves ==
  ASSUME MisroutedWhole, IInv, CleanInv, RegisterInv, [Next]_vars
  PROVE  /\ Moves(HeldBy(current), current.tracker.retired, shown.current,
                  HeldBy(current'), current'.tracker.retired, shown'.current)
         /\ Moves(HeldBy(legacy), legacy.tracker.retired, shown.legacy,
                  HeldBy(legacy'), legacy'.tracker.retired, shown'.legacy)
         /\ Moves(clean.held, clean.seen, shown.clean,
                  clean'.held, clean'.seen, shown'.clean)
<1>1. CASE \E d \in Served \cup Misrouted, pr \in Anyone : Read(d, pr)
  BY <1>1, ReadMoves
<1>2. CASE UNCHANGED <<current, legacy, clean, shown>>
  <2>1. ASSUME NEW h, NEW retired, NEW past, Recorded(h, retired, past)
        PROVE  Moves(h, retired, past, h, retired, past)
    BY <2>1 DEF Recorded, Moves, Shows
  <2> QED BY <1>2, <2>1 DEF RegisterInv, HeldBy
<1> QED
  BY <1>1, <1>2 DEF Next, Beat, Tick, Reconnect, readers, vars

LEMMA RegisterKept ==
  ASSUME MisroutedWhole, IInv, CleanInv, RegisterInv, [Next]_vars
  PROVE  RegisterInv'
BY NextMoves, StillRecorded DEF RegisterInv, HeldBy

LEMMA InitRegisters ==
  Init => /\ RegisterInv
          /\ CurrentRegister!Init /\ LegacyRegister!Init /\ CleanRegister!Init
<1> SUFFICES ASSUME Init
             PROVE  /\ RegisterInv
                    /\ CurrentRegister!Init /\ LegacyRegister!Init /\ CleanRegister!Init
  OBVIOUS
<1>1. /\ HeldBy(current) = NoHeartbeat /\ HeldBy(legacy) = NoHeartbeat
      /\ clean.held = NoHeartbeat
      /\ shown.current = {} /\ shown.legacy = {} /\ shown.clean = {}
  BY DEF Init, HeldBy, NewConsumer, NewLegacyConsumer, NewCleanRoom, EmptyLineage
<1> QED
  BY <1>1 DEF RegisterInv, Recorded, Showing, CurrentRegister!Init,
              LegacyRegister!Init, CleanRegister!Init

LEMMA NextRegisters ==
  ASSUME MisroutedWhole, IInv, CleanInv, RegisterInv, [Next]_vars
  PROVE  /\ [CurrentRegister!Next]_(CurrentRegister!vars)
         /\ [LegacyRegister!Next]_(LegacyRegister!vars)
         /\ [CleanRegister!Next]_(CleanRegister!vars)
<1>1. [CurrentRegister!Next]_(CurrentRegister!vars)
  <2>1. /\ Recorded(HeldBy(current), current.tracker.retired, shown.current)
        /\ Moves(HeldBy(current), current.tracker.retired, shown.current,
                 HeldBy(current'), current'.tracker.retired, shown'.current)
    BY NextMoves DEF RegisterInv
  <2>2. \/ Showing(HeldBy(current')) = Showing(HeldBy(current)) /\ shown'.current = shown.current
        \/ /\ Showing(HeldBy(current')) \in [boot : Epochs \cup {Null}, seq : Nat]
           /\ \/ /\ Showing(HeldBy(current)) # NoHeartbeat
                 /\ Showing(HeldBy(current')).boot = Showing(HeldBy(current)).boot
                 /\ Showing(HeldBy(current')).seq > Showing(HeldBy(current)).seq
              \/ \A q \in shown.current : q.boot # Showing(HeldBy(current')).boot
           /\ shown'.current = shown.current \cup {Showing(HeldBy(current'))}
    BY <2>1, MovesForward
  <2>3. Showing(HeldBy(current))' = Showing(HeldBy(current')) /\ (shown.current)' = shown'.current
    BY DEF HeldBy, Showing, Revision
  <2> QED
    BY <2>2, <2>3 DEF CurrentRegister!Next, CurrentRegister!Advance,
         CurrentRegister!Forward, CurrentRegister!Revision, CurrentRegister!vars
<1>2. [LegacyRegister!Next]_(LegacyRegister!vars)
  <2>1. /\ Recorded(HeldBy(legacy), legacy.tracker.retired, shown.legacy)
        /\ Moves(HeldBy(legacy), legacy.tracker.retired, shown.legacy,
                 HeldBy(legacy'), legacy'.tracker.retired, shown'.legacy)
    BY NextMoves DEF RegisterInv
  <2>2. \/ Showing(HeldBy(legacy')) = Showing(HeldBy(legacy)) /\ shown'.legacy = shown.legacy
        \/ /\ Showing(HeldBy(legacy')) \in [boot : Epochs \cup {Null}, seq : Nat]
           /\ \/ /\ Showing(HeldBy(legacy)) # NoHeartbeat
                 /\ Showing(HeldBy(legacy')).boot = Showing(HeldBy(legacy)).boot
                 /\ Showing(HeldBy(legacy')).seq > Showing(HeldBy(legacy)).seq
              \/ \A q \in shown.legacy : q.boot # Showing(HeldBy(legacy')).boot
           /\ shown'.legacy = shown.legacy \cup {Showing(HeldBy(legacy'))}
    BY <2>1, MovesForward
  <2>3. Showing(HeldBy(legacy))' = Showing(HeldBy(legacy')) /\ (shown.legacy)' = shown'.legacy
    BY DEF HeldBy, Showing, Revision
  <2> QED
    BY <2>2, <2>3 DEF LegacyRegister!Next, LegacyRegister!Advance,
         LegacyRegister!Forward, LegacyRegister!Revision, LegacyRegister!vars
<1>3. [CleanRegister!Next]_(CleanRegister!vars)
  <2>1. /\ Recorded(clean.held, clean.seen, shown.clean)
        /\ Moves(clean.held, clean.seen, shown.clean,
                 clean'.held, clean'.seen, shown'.clean)
    BY NextMoves DEF RegisterInv
  <2>2. \/ Showing(clean'.held) = Showing(clean.held) /\ shown'.clean = shown.clean
        \/ /\ Showing(clean'.held) \in [boot : Epochs \cup {Null}, seq : Nat]
           /\ \/ /\ Showing(clean.held) # NoHeartbeat
                 /\ Showing(clean'.held).boot = Showing(clean.held).boot
                 /\ Showing(clean'.held).seq > Showing(clean.held).seq
              \/ \A q \in shown.clean : q.boot # Showing(clean'.held).boot
           /\ shown'.clean = shown.clean \cup {Showing(clean'.held)}
    BY <2>1, MovesForward
  <2>3. Showing(clean.held)' = Showing(clean'.held) /\ (shown.clean)' = shown'.clean
    BY DEF HeldBy, Showing, Revision
  <2> QED
    BY <2>2, <2>3 DEF CleanRegister!Next, CleanRegister!Advance,
         CleanRegister!Forward, CleanRegister!Revision, CleanRegister!vars
<1> QED BY <1>1, <1>2, <1>3

(* Three consumers with checks of their own keep one promise: what each    *)
(* holds only moves forward, whichever replica answers, whoever vouches    *)
(* for it and however clocks differ (convergence.py, resources.py,         *)
(* participant.py).                                                        *)
THEOREM ConsumersAreRegisters ==
  ASSUME MisroutedWhole
  PROVE  Spec => ImplementRegisters
<1>1. Init => /\ RegisterInv
              /\ CurrentRegister!Init /\ LegacyRegister!Init /\ CleanRegister!Init
  BY InitRegisters
<1>2. IInv /\ CleanInv /\ RegisterInv /\ [Next]_vars => RegisterInv'
  BY RegisterKept
<1>3. IInv /\ CleanInv /\ RegisterInv /\ [Next]_vars =>
        /\ [CurrentRegister!Next]_(CurrentRegister!vars)
        /\ [LegacyRegister!Next]_(LegacyRegister!vars)
        /\ [CleanRegister!Next]_(CleanRegister!vars)
  BY NextRegisters
<1> QED
  BY <1>1, <1>2, <1>3, ConsumersInvariant, CleanInvariant, PTL
     DEF Spec, ImplementRegisters, CurrentRegister!Spec, LegacyRegister!Spec,
         CleanRegister!Spec

-----------------------------------------------------------------------------
(* The consumer that reconnects *)

(* What a consumer holds of an epoch that one process has is no later than *)
(* that process's last document, and is that document if as late.          *)
HeldFrom(x) ==
  \A r \in Replicas :
    (/\ HeldBy(x) # NoHeartbeat
     /\ HeldBy(x).boot = EpochOf[r]
     /\ Unique(EpochOf[r]))
    => /\ HeldBy(x).seq \in Nat
       /\ HeldBy(x).seq < replica[r].next
       /\ HeldBy(x).seq = replica[r].next - 1 => HeldBy(x) = FromDict(replica[r].doc)

ReconnectInv == HeldFrom(current) /\ HeldFrom(newcomer) /\ ReconnectAgrees

(* A document that may be admitted, of an epoch that one process has, is   *)
(* the last of that process.                                               *)
LEMMA OnlyServer ==
  ASSUME NoImpostors, IInv, NEW d \in Served \cup Misrouted,
         DocumentReason(d) = "none", d.node = Self, Unique(d.boot)
  PROVE  \E r \in Replicas :
           /\ d = replica[r].doc /\ d.boot = EpochOf[r]
           /\ d.seq = replica[r].next - 1 /\ d.seq \in Nat /\ replica[r].next \in Nat
           /\ \A q \in Replicas : EpochOf[q] = d.boot => q = r
<1> DEFINE R == {r \in Replicas : EpochOf[r] = d.boot}
<1>1. IsFiniteSet(R) /\ Cardinality(R) = 1
  <2>1. R \in SUBSET Replicas
    OBVIOUS
  <2> QED BY <2>1, InteropAssumption, FS_Subset DEF Unique
<1> HIDE DEF R
<1>2. PICK r : R = {r}
  BY <1>1, FS_Singleton
<1>3. r \in Replicas /\ EpochOf[r] = d.boot
      /\ \A q \in Replicas : EpochOf[q] = d.boot => q = r
  BY <1>2 DEF R
<1>4. d \notin Misrouted
  BY <1>3 DEF NoImpostors
<1>5. PICK q \in Replicas : d = replica[q].doc /\ replica[q].doc # NoDocument
  BY <1>4 DEF Served
<1>6. /\ d.boot = EpochOf[q] /\ d.seq = replica[q].next - 1
      /\ d.seq \in Nat /\ replica[q].next \in Nat
  BY <1>5 DEF IInv, ServesSelf
<1> QED BY <1>3, <1>5, <1>6

(* If an answer moves one of two consumers, the other, unmoved and in the  *)
(* same epoch, holds it already.                                           *)
LEMMA HeldAlready ==
  ASSUME NoImpostors, IInv, NEW x \in Reader(TRUE), NEW y \in Reader(TRUE),
         HeldFrom(x), NEW d \in Served \cup Misrouted, d \in Document,
         NEW pr \in Anyone, Advances(y, d, pr), ~Advances(x, d, pr),
         HeldBy(x) # NoHeartbeat, HeldBy(x).boot = d.boot, Unique(d.boot)
  PROVE  HeldBy(x) = FromDict(d)
<1> DEFINE s == x.tracker
           c == FromDict(d)
<1>1. /\ x.binds = TRUE /\ y.binds = TRUE /\ s.participant = Self
      /\ y.tracker.participant = Self /\ HeldBy(x) = s.held
  BY DEF Reader, HeldBy
<1>2. /\ DocumentReason(d) = "none" /\ ~FromDictRaises(d) /\ c.node = Self
      /\ CheckFreshness(c, now) = "none"
  BY <1>1, AcceptedPassed DEF Advances
<1>3. c.boot = d.boot /\ c.seq = d.seq /\ d.node = Self
  BY <1>2 DEF FromDict
<1>4. Verdict(s, d, now) # "accepted"
  BY <1>1 DEF Advances
<1>5. PICK r \in Replicas :
        /\ d = replica[r].doc /\ d.boot = EpochOf[r]
        /\ d.seq = replica[r].next - 1 /\ d.seq \in Nat /\ replica[r].next \in Nat
  BY <1>2, <1>3, OnlyServer
<1>6. /\ s.held.seq \in Nat /\ s.held.seq <= d.seq
      /\ s.held.seq = d.seq => s.held = c
  BY <1>1, <1>5 DEF HeldFrom
<1>7. s.held.seq = d.seq
  <2> SUFFICES ASSUME s.held.seq # d.seq PROVE FALSE
    OBVIOUS
  <2>1. SameEpoch(s, c) /\ s.held.seq < c.seq /\ c.seq # Null /\ s.held.seq # Null
    BY <1>1, <1>3, <1>5, <1>6, CoreAssumption DEF SameEpoch
  <2>2. ~(c.seq < s.held.seq) /\ c.seq # s.held.seq
    BY <1>3, <1>5, <1>6, <2>1
  <2>3. /\ ~IsDuplicate(s, c) /\ ~ComparisonRaises(s, c)
        /\ CheckLineage(s, c) = "none"
    BY <2>1, <2>2 DEF IsDuplicate, ComparisonRaises, CheckLineage
  <2> HIDE DEF s
  <2> QED BY <1>1, <1>2, <1>4, <2>3 DEF Verdict
<1> QED BY <1>1, <1>6, <1>7

(* What a consumer holds after an answer is from its server, if it was.    *)
LEMMA HeldFromKept ==
  ASSUME NoImpostors, IInv, NEW x \in Reader(TRUE), HeldFrom(x),
         NEW d \in Served \cup Misrouted, d \in Document, NEW pr \in Anyone
  PROVE  HeldFrom(Judge(x, [doc |-> d, principal |-> pr]))
<1> DEFINE y == Judge(x, [doc |-> d, principal |-> pr])
<1>1. /\ y.tracker = IF Advances(x, d, pr)
                     THEN Accept(x.tracker, FromDict(d)) ELSE x.tracker
      /\ x.tracker \in LineageState /\ x.tracker.participant = Self
  <2>1. x.tracker \in LineageState /\ x.tracker.participant = Self
    BY DEF Reader
  <2>2. Judge(x, [doc |-> d, principal |-> pr]).tracker =
          IF Advances(x, d, pr) THEN Accept(x.tracker, FromDict(d)) ELSE x.tracker
    BY ReaderJudges
  <2> QED BY <2>1, <2>2
<1> HIDE DEF y
<1>2. CASE ~Advances(x, d, pr)
  <2>1. HeldBy(y) = HeldBy(x)
    BY <1>1, <1>2 DEF HeldBy
  <2> QED BY <2>1 DEF HeldFrom, y
<1>3. CASE Advances(x, d, pr)
  <2>1. HeldBy(y) = FromDict(d)
    BY <1>1, <1>3 DEF HeldBy, Accept, LineageState
  <2>2. FromDict(d).boot = d.boot /\ FromDict(d).seq = d.seq
    BY DEF FromDict
  <2>3. DocumentReason(d) = "none" /\ d.node = Self
    <3>1. Verdict(x.tracker, d, now) = "accepted"
      BY <1>3 DEF Advances
    <3> QED BY <1>1, <2>2, <3>1, AcceptedPassed DEF FromDict
  <2> SUFFICES ASSUME NEW r \in Replicas, d.boot = EpochOf[r], Unique(EpochOf[r])
               PROVE  /\ d.seq \in Nat
                      /\ d.seq < replica[r].next
                      /\ d.seq = replica[r].next - 1 => FromDict(d) = FromDict(replica[r].doc)
    BY <2>1, <2>2 DEF HeldFrom, y
  <2> QED BY <2>3, OnlyServer
<1> QED BY <1>2, <1>3

LEMMA ReconnectKept ==
  ASSUME NoImpostors, IInv, ReconnectInv, [Next]_vars
  PROVE  ReconnectInv'
<1>0. current \in Reader(TRUE) /\ newcomer \in Reader(TRUE)
  BY DEF IInv, Shapes
<1>1. CASE \E r \in Replicas : Beat(r)
  <2>1. PICK r \in Replicas : Beat(r)
    BY <1>1
  <2>2. /\ UNCHANGED <<current, newcomer>>
        /\ replica'[r].next = replica[r].next + 1
        /\ \A q \in Replicas \ {r} : replica'[q] = replica[q]
        /\ replica[r].next \in Nat
    BY <2>1 DEF Beat, readers, IInv, ServesSelf
  <2>3. HeldFrom(current)'
    BY <2>2 DEF ReconnectInv, HeldFrom, HeldBy
  <2>4. HeldFrom(newcomer)'
    BY <2>2 DEF ReconnectInv, HeldFrom, HeldBy
  <2> QED BY <2>2, <2>3, <2>4 DEF ReconnectInv, ReconnectAgrees, HeldBy
<1>2. CASE \E d \in Served \cup Misrouted, pr \in Anyone : Read(d, pr)
  <2>1. PICK d \in Served \cup Misrouted, pr \in Anyone : Read(d, pr)
    BY <1>2
  <2>2. d \in Document
    BY InteropAssumption DEF Served, IInv, ServesSelf
  <2> DEFINE a == [doc |-> d, principal |-> pr]
  <2>3. current' = Judge(current, a) /\ newcomer' = Judge(newcomer, a)
        /\ replica' = replica
    BY <2>1 DEF Read
  <2>4. HeldFrom(current)' /\ HeldFrom(newcomer)'
    <3>1. HeldFrom(Judge(current, a)) /\ HeldFrom(Judge(newcomer, a))
      BY <1>0, <2>2, HeldFromKept DEF ReconnectInv
    <3> QED BY <2>3, <3>1 DEF HeldFrom
  <2>5. \A x \in {current, newcomer} :
          /\ Advances(x, d, pr) => HeldBy(Judge(x, a)) = FromDict(d)
          /\ ~Advances(x, d, pr) => HeldBy(Judge(x, a)) = HeldBy(x)
    <3> SUFFICES ASSUME NEW x \in Reader(TRUE)
                 PROVE  /\ Advances(x, d, pr) => HeldBy(Judge(x, a)) = FromDict(d)
                        /\ ~Advances(x, d, pr) => HeldBy(Judge(x, a)) = HeldBy(x)
      BY <1>0
    <3>1. x.tracker \in LineageState
      BY DEF Reader
    <3> QED BY <2>2, <3>1, ReaderJudges DEF HeldBy, Accept, LineageState
  <2>6. ReconnectAgrees'
    <3> SUFFICES ASSUME HeldBy(newcomer') # NoHeartbeat, HeldBy(current') # NoHeartbeat,
                        HeldBy(newcomer').boot = HeldBy(current').boot,
                        Unique(HeldBy(current').boot)
                 PROVE  HeldBy(newcomer') = HeldBy(current')
      BY DEF ReconnectAgrees, HeldBy, Unique
    <3>1. FromDict(d).boot = d.boot
      BY DEF FromDict
    <3>2. CASE Advances(current, d, pr) /\ Advances(newcomer, d, pr)
      BY <2>3, <2>5, <3>2
    <3>3. CASE Advances(current, d, pr) /\ ~Advances(newcomer, d, pr)
      <4>1. HeldBy(current') = FromDict(d) /\ HeldBy(newcomer') = HeldBy(newcomer)
        BY <2>3, <2>5, <3>3
      <4> QED BY <1>0, <2>2, <3>1, <3>3, <4>1, HeldAlready DEF ReconnectInv
    <3>4. CASE ~Advances(current, d, pr) /\ Advances(newcomer, d, pr)
      <4>1. HeldBy(newcomer') = FromDict(d) /\ HeldBy(current') = HeldBy(current)
        BY <2>3, <2>5, <3>4
      <4> QED BY <1>0, <2>2, <3>1, <3>4, <4>1, HeldAlready DEF ReconnectInv
    <3>5. CASE ~Advances(current, d, pr) /\ ~Advances(newcomer, d, pr)
      BY <2>3, <2>5, <3>5 DEF ReconnectInv, ReconnectAgrees
    <3> QED BY <3>2, <3>3, <3>4, <3>5
  <2> QED BY <2>4, <2>6 DEF ReconnectInv
<1>3. CASE Reconnect
  <2>1. HeldBy(newcomer)' = NoHeartbeat /\ UNCHANGED <<current, replica>>
    BY <1>3 DEF Reconnect, HeldBy, NewConsumer, EmptyLineage
  <2> QED BY <2>1 DEF ReconnectInv, ReconnectAgrees, HeldFrom, HeldBy
<1>4. CASE UNCHANGED <<current, newcomer, replica>>
  BY <1>4 DEF ReconnectInv, ReconnectAgrees, HeldFrom, HeldBy
<1> QED
  BY <1>1, <1>2, <1>3, <1>4 DEF Next, Tick, readers, vars

(* A consumer that reconnects does not see another history: of an epoch    *)
(* that one process has it holds exactly what the long-lived one holds,    *)
(* whatever it has missed (runtime.py, reconnect_inherits_nothing).        *)
THEOREM ReconnectAlwaysAgrees ==
  ASSUME NoImpostors
  PROVE  Spec => []ReconnectAgrees
<1>1. Init => ReconnectInv
  BY DEF Init, ReconnectInv, ReconnectAgrees, HeldFrom, HeldBy, NewConsumer, EmptyLineage
<1>2. IInv /\ ReconnectInv /\ [Next]_vars => ReconnectInv'
  BY ReconnectKept
<1>3. ReconnectInv => ReconnectAgrees
  BY DEF ReconnectInv
<1> QED BY <1>1, <1>2, <1>3, ConsumersInvariant, PTL DEF Spec
=============================================================================
