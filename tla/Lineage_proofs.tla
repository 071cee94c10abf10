---------------------------- MODULE Lineage_proofs ----------------------------
(***************************************************************************)
(* What holds of trackers for every set of participants, epochs, processes *)
(* and foreign documents, and for every skew bound and lease limit.        *)
(*                                                                         *)
(* Argument.  An accepted document either raises the sequence of the held  *)
(* epoch or brings an epoch outside the retired set (AcceptedMoves).       *)
(* Every heartbeat a tracker has held has its epoch in the retired set     *)
(* (HistoryMatches), so a new epoch is new to the history as well, and     *)
(* within the held epoch the held sequence bounds the history              *)
(* (HeldIsHighest).  Both are kept by every step, and give the refinement  *)
(* of LeaseRegister and OneContentPerRevision.                             *)
(***************************************************************************)
EXTENDS Lineage, TLAPS

-----------------------------------------------------------------------------
(* The core's operators, for every document, tracker state and limit. *)

(* Rounding down to wire resolution stays among the instants. *)
LEMMA TruncateType ==
  ASSUME NEW t \in Int
  PROVE  Truncate(t) \in Int
  BY CoreAssumption DEF Truncate

(* What from_dict returns for a document it does not raise on.             *)
LEMMA FromDictType ==
  ASSUME NEW d \in Document, ~FromDictRaises(d)
  PROVE  FromDict(d) \in Heartbeat
  BY DEF FromDict, FromDictRaises, Document, Heartbeat

(* An accepted document passed every check of admit().                     *)
LEMMA AcceptedPassed ==
  ASSUME NEW s, NEW d, NEW t, Verdict(s, d, t) = "accepted"
  PROVE  /\ DocumentReason(d) = "none"
         /\ ~FromDictRaises(d)
         /\ FromDict(d).node = s.participant
         /\ ~IsDuplicate(s, FromDict(d))
         /\ ~ComparisonRaises(s, FromDict(d))
         /\ CheckLineage(s, FromDict(d)) = "none"
         /\ CheckFreshness(FromDict(d), t) = "none"
  <1>1. DocumentReason(d) = "none"
    <2>1. DocumentReason(d) # "accepted"
      BY DEF DocumentReason, ExpiryWindowViolation
    <2> QED BY <2>1 DEF Verdict
  <1>2. CheckLineage(s, FromDict(d)) # "accepted"
    BY DEF CheckLineage
  <1>3. CheckFreshness(FromDict(d), t) # "accepted"
    BY DEF CheckFreshness
  <1> QED BY <1>1, <1>2, <1>3 DEF Verdict

(* ... so it is a forward move: higher in the held epoch, or an epoch not  *)
(* yet retired.                                                            *)
LEMMA AcceptedMoves ==
  ASSUME NEW s \in LineageState, NEW d \in Document, d.seq # Null, NEW t,
         Verdict(s, d, t) = "accepted"
  PROVE  LET c == FromDict(d) IN
         \/ /\ SameEpoch(s, c)
            /\ s.held \in Heartbeat
            /\ s.held.seq \in Nat
            /\ c.seq > s.held.seq
         \/ /\ ~SameEpoch(s, c)
            /\ c.boot \notin s.retired
  <1> DEFINE c == FromDict(d)
  <1>1. /\ ~IsDuplicate(s, c)
        /\ ~ComparisonRaises(s, c)
        /\ CheckLineage(s, c) = "none"
        /\ ~FromDictRaises(d)
    BY AcceptedPassed
  <1>2. c \in Heartbeat /\ c.seq \in Nat
    BY <1>1, FromDictType DEF Heartbeat, Document, FromDict
  <1>3. CASE SameEpoch(s, c)
    <2>1. s.held \in Heartbeat
      BY <1>3 DEF SameEpoch, LineageState
    <2>2. s.held.seq \in Nat
      BY <1>1, <1>3, <2>1 DEF ComparisonRaises, Heartbeat
    <2>3. ~(c.seq < s.held.seq)
      BY <1>1, <1>3 DEF CheckLineage
    <2>4. c.seq # s.held.seq
      BY <1>1, <1>3, <2>3 DEF CheckLineage, IsDuplicate
    <2>5. c.seq > s.held.seq
      BY <1>2, <2>2, <2>3, <2>4
    <2> QED BY <1>3, <2>1, <2>2, <2>5
  <1>4. CASE ~SameEpoch(s, c)
    BY <1>1, <1>4 DEF CheckLineage
  <1> QED BY <1>3, <1>4

(* ... and its lease is live, for no longer than the two limits together.  *)
LEMMA AcceptedIsBounded ==
  ASSUME NEW s, NEW d \in Document, NEW t \in Int,
         Verdict(s, d, t) = "accepted"
  PROVE  /\ FromDict(d).expires > t
         /\ FromDict(d).expires <= t + MaxSkew + MaxLease
  <1> DEFINE c == FromDict(d)
  <1>1. /\ DocumentReason(d) = "none"
        /\ ~FromDictRaises(d)
        /\ CheckFreshness(c, t) = "none"
    BY AcceptedPassed
  <1>2. d.issued \in Int /\ d.expires \in Int
    BY <1>1 DEF FromDictRaises, Document
  <1>3. c.issued = d.issued /\ c.expires = d.expires
    BY DEF FromDict
  <1>4. d.expires - d.issued <= MaxLease
    BY <1>1, <1>2, CoreAssumption DEF DocumentReason, ExpiryWindowViolation
  <1>5. c.issued - t <= MaxSkew /\ c.expires - t > 0
    BY <1>1, <1>2, <1>3, CoreAssumption DEF CheckFreshness, IsFresh
  <1> HIDE DEF c
  <1> QED BY <1>2, <1>3, <1>4, <1>5, CoreAssumption DEF c

LEMMA MultiplesCompare ==
  ASSUME NEW x \in Int, NEW y \in Int, NEW m \in Nat \ {0}, m * x < m * y
  PROVE  x < y
  OBVIOUS

LEMMA MultiplesOrdered ==
  ASSUME NEW x \in Int, NEW y \in Int, NEW m \in Nat \ {0}, x <= y
  PROVE  m * x <= m * y
  OBVIOUS

(* Rounding down takes less than one tick of the wire away.                *)
LEMMA TruncateBounds ==
  ASSUME NEW t \in Int
  PROVE  Truncate(t) <= t /\ t < Truncate(t) + MsTicks
  BY CoreAssumption DEF Truncate

(* A lease keeps a positive length, and one within the limit, on the wire. *)
LEMMA TruncatedLease ==
  ASSUME NEW t \in Int, NEW l \in MsTicks..MaxLease
  PROVE  /\ Truncate(t + l) - Truncate(t) > 0
         /\ Truncate(t + l) - Truncate(t) <= MaxLease
  <1> DEFINE m == MsTicks
             a == t \div m
             b == (t + l) \div m
             k == MaxLease \div m
  <1>1. /\ m \in Nat \ {0} /\ MaxLease \in Nat /\ MaxLease % m = 0
        /\ l \in Int /\ m <= l /\ l <= MaxLease /\ t + l \in Int
    BY CoreAssumption
  <1>2. /\ a \in Int /\ b \in Int /\ k \in Int
        /\ Truncate(t) = m * a /\ Truncate(t + l) = m * b
    BY <1>1 DEF Truncate
  <1>3. MaxLease = m * k
    BY <1>1
  <1>4. Truncate(t) <= t /\ t < Truncate(t) + m
        /\ Truncate(t + l) <= t + l /\ t + l < Truncate(t + l) + m
    BY <1>1, TruncateBounds
  <1> HIDE DEF m, a, b, k
  <1>5. m * a < m * b
    BY <1>1, <1>2, <1>4
  <1>6. m * b < m * (a + k + 1)
    <2>1. m * (a + k + 1) = m * a + m * k + m
      BY <1>1, <1>2
    <2> QED BY <1>1, <1>2, <1>3, <1>4, <2>1
  <1>7. b < a + k + 1
    BY <1>1, <1>2, <1>6, MultiplesCompare
  <1>8. m * b <= m * (a + k)
    BY <1>1, <1>2, <1>7, MultiplesOrdered
  <1>9. m * (a + k) = m * a + m * k
    BY <1>1, <1>2
  <1> QED BY <1>1, <1>2, <1>3, <1>5, <1>8, <1>9


-----------------------------------------------------------------------------
(* A delivery either changes nothing, or p's tracker accepts the document. *)
Accepts(p, c) ==
  /\ tracker' = [tracker EXCEPT ![p] = Accept(tracker[p], c)]
  /\ everHeld' = [everHeld EXCEPT ![p] = @ \cup {c}]
  /\ admittedAt' = [admittedAt EXCEPT ![p] = now]

LEMMA DeliverCases ==
  ASSUME TypeOK, NEW p \in Participants, NEW d, Deliver(p, d)
  PROVE  \/ UNCHANGED vars
         \/ /\ Verdict(tracker[p], d, now) = "accepted"
            /\ Accepts(p, FromDict(d))
            /\ UNCHANGED <<now, issuer, born, sent>>
  <1>1. CASE Verdict(tracker[p], d, now) = "accepted"
    <2>1. Admit(tracker[p], d, now).state = Accept(tracker[p], FromDict(d))
      BY <1>1 DEF Admit
    <2>2. Admit(tracker[p], d, now).outcome = "accepted"
      BY <1>1 DEF Admit
    <2>3. Accept(tracker[p], FromDict(d)).held = FromDict(d)
      BY DEF TypeOK, LineageState, Accept
    <2> QED BY <1>1, <2>1, <2>2, <2>3 DEF Deliver, Accepts, publishers
  <1>2. CASE Verdict(tracker[p], d, now) # "accepted"
    <2>1. Admit(tracker[p], d, now).state = tracker[p]
      BY <1>2 DEF Admit
    <2>2. Admit(tracker[p], d, now).outcome # "accepted"
      BY <1>2 DEF Admit
    <2>3. tracker' = tracker
      BY <2>1 DEF Deliver, TypeOK
    <2> QED BY <2>2, <2>3 DEF Deliver, publishers, vars
  <1> QED BY <1>1, <1>2

(* Facts about an accepted document that every invariant below draws on.   *)
LEMMA AcceptedHeartbeat ==
  ASSUME ForeignSequencesPresent, TypeOK, SequencesPresent, HistoryMatches,
         NEW p \in Participants, NEW d \in sent \cup Foreign,
         Verdict(tracker[p], d, now) = "accepted"
  PROVE  /\ FromDict(d) \in Heartbeat
         /\ FromDict(d) # NoHeartbeat
         /\ FromDict(d).seq \in Nat
         /\ FromDict(d).node = p
         /\ d \in Document
         /\ d.seq # Null
         /\ tracker[p] \in LineageState
  <1>1. d \in Document
    BY LineageAssumption DEF TypeOK
  <1>2. d.seq # Null
    BY DEF ForeignSequencesPresent, SequencesPresent
  <1>3. FromDict(d) \in Heartbeat /\ FromDict(d).node = p
    BY <1>1, AcceptedPassed, FromDictType DEF HistoryMatches
  <1>4. FromDict(d).seq \in Nat
    BY <1>1, <1>2 DEF Document, FromDict
  <1> QED BY <1>1, <1>2, <1>3, <1>4, LineageAssumption DEF TypeOK

-------------------------------------------------------------------------------
LEMMA InitIInv == Init => IInv
  <1> SUFFICES ASSUME Init PROVE IInv
    OBVIOUS
  <1>1. TypeOK
    BY DEF Init, TypeOK, LineageState, EmptyLineage
  <1>2. SequencesPresent
    BY DEF Init, SequencesPresent
  <1>3. HistoryMatches
    BY DEF Init, HistoryMatches, EmptyLineage
  <1>4. HeldIsHighest
    BY DEF Init, HeldIsHighest
  <1>5. OneContentPerRevision
    BY DEF Init, OneContentPerRevision
  <1>6. BoundedTrust
    BY DEF Init, BoundedTrust, EmptyLineage
  <1> QED BY <1>1, <1>2, <1>3, <1>4, <1>5, <1>6 DEF IInv

(* The publishers' steps keep the types; they do not touch the consumer.   *)
LEMMA StartTypes ==
  ASSUME TypeOK, NEW i \in Procs, NEW p \in Participants, NEW e \in Epochs,
         NEW l \in Leases, NEW b \in Bodies, Start(i, p, e, l, b)
  PROVE  TypeOK'
  <1>1. [participant |-> p, epoch |-> e, next |-> 0, lease |-> l, body |-> b]
          \in Issuer
    BY DEF Issuer
  <1>2. issuer' \in [Procs -> Issuer \cup {NoIssuer}]
    BY <1>1 DEF Start, TypeOK
  <1>3. born' \in Seq(Epochs)
    BY DEF Start, TypeOK
  <1> QED BY <1>2, <1>3 DEF Start, TypeOK, consumer

LEMMA IssuedDocument ==
  ASSUME TypeOK, NEW i \in Procs, issuer[i] # NoIssuer, NEW t \in Int
  PROVE  /\ ToDict(NextHeartbeat(i, t)) \in Document
         /\ ToDict(NextHeartbeat(i, t)).seq \in Nat
  <1>1. issuer[i] \in Issuer
    BY DEF TypeOK
  <1>2. issuer[i].lease \in Int
    <2>1. issuer[i].lease \in MsTicks..MaxLease
      BY <1>1, LineageAssumption DEF Issuer
    <2> QED BY <2>1
  <1>3. Truncate(t) \in Int /\ Truncate(t + issuer[i].lease) \in Int
    BY <1>2, TruncateType
  <1> QED
    BY <1>1, <1>3 DEF ToDict, NextHeartbeat, Issuer, Document, Versions

(* A step that leaves the consumer alone keeps what is said of it.         *)
LEMMA ConsumerUntouched ==
  ASSUME IInv, UNCHANGED consumer
  PROVE  /\ HistoryMatches'
         /\ HeldIsHighest'
         /\ OneContentPerRevision'
         /\ BoundedTrust'
  BY DEF IInv, consumer, HistoryMatches, HeldIsHighest, OneContentPerRevision,
         BoundedTrust, Revision

(* The types after each kind of step. *)
LEMMA NextTypes ==
  ASSUME ForeignSequencesPresent, IInv, [Next]_vars
  PROVE  TypeOK'
  <1>0. TypeOK /\ SequencesPresent /\ HistoryMatches
    BY DEF IInv
  <1>1. ASSUME NEW i \in Procs, NEW p \in Participants, NEW e \in Epochs,
               NEW l \in Leases, NEW b \in Bodies, Start(i, p, e, l, b)
        PROVE  TypeOK'
    BY <1>0, <1>1, StartTypes
  <1>2. ASSUME NEW i \in Procs, NEW off \in Offsets, Issue(i, off)
        PROVE  TypeOK'
    <2>1. issuer[i] \in Issuer
      BY <1>0, <1>2 DEF Issue, TypeOK
    <2>2. now + off \in Int
      BY <1>0, LineageAssumption DEF TypeOK
    <2>3. sent' \subseteq Document
      BY <1>0, <1>2, <2>2, IssuedDocument DEF Issue, TypeOK
    <2>4. issuer' \in [Procs -> Issuer \cup {NoIssuer}]
      <3>1. [issuer[i] EXCEPT !.next = @ + 1] \in Issuer
        BY <2>1 DEF Issuer
      <3>2. issuer' = [issuer EXCEPT ![i] = [issuer[i] EXCEPT !.next = @ + 1]]
        BY <1>2 DEF Issue
      <3> QED BY <1>0, <3>1, <3>2 DEF TypeOK
    <2> QED BY <1>0, <1>2, <2>3, <2>4 DEF Issue, TypeOK, consumer
  <1>3. ASSUME NEW i \in Procs, Crash(i)
        PROVE  TypeOK'
    BY <1>0, <1>3 DEF Crash, TypeOK, consumer
  <1>4. ASSUME NEW p \in Participants, NEW d \in sent \cup Foreign,
               Deliver(p, d)
        PROVE  TypeOK'
    <2>1. CASE UNCHANGED vars
      BY <1>0, <2>1 DEF vars, TypeOK
    <2>2. CASE /\ Verdict(tracker[p], d, now) = "accepted"
               /\ Accepts(p, FromDict(d))
               /\ UNCHANGED <<now, issuer, born, sent>>
      <3>1. FromDict(d) \in Heartbeat /\ tracker[p] \in LineageState
        BY <1>0, <2>2, AcceptedHeartbeat
      <3>2. Accept(tracker[p], FromDict(d)) \in LineageState
        BY <3>1 DEF Accept, LineageState, Heartbeat
      <3> QED BY <1>0, <2>2, <3>1, <3>2 DEF TypeOK, Accepts
    <2> QED BY <1>0, <1>4, <2>1, <2>2, DeliverCases
  <1>5. CASE Tick
    BY <1>0, <1>5 DEF Tick, TypeOK, publishers, consumer
  <1>6. ASSUME NEW st \in Steps, StepClock(st)
        PROVE  TypeOK'
    BY <1>0, <1>6, LineageAssumption DEF StepClock, TypeOK, publishers, consumer
  <1>7. CASE UNCHANGED vars
    BY <1>0, <1>7 DEF vars, TypeOK
  <1> QED BY <1>1, <1>2, <1>3, <1>4, <1>5, <1>6, <1>7 DEF Next

(* An acceptance keeps the invariant: the heart of the argument.           *)
LEMMA AcceptKeeps ==
  ASSUME ForeignSequencesPresent, IInv, TypeOK',
         NEW p \in Participants, NEW d \in sent \cup Foreign,
         Verdict(tracker[p], d, now) = "accepted",
         Accepts(p, FromDict(d)),
         UNCHANGED <<now, issuer, born, sent>>
  PROVE  IInv'
  <1> DEFINE c == FromDict(d)
  <1>0. TypeOK /\ SequencesPresent /\ HistoryMatches
    BY DEF IInv
  <1>1. /\ c \in Heartbeat /\ c # NoHeartbeat /\ c.seq \in Nat /\ c.node = p
        /\ d \in Document /\ d.seq # Null
        /\ tracker[p] \in LineageState
    BY <1>0, AcceptedHeartbeat
  <1>2. /\ tracker'[p].held = c
        /\ tracker'[p].retired = tracker[p].retired \cup {c.boot}
        /\ tracker'[p].participant = tracker[p].participant
        /\ \A q \in Participants \ {p} : tracker'[q] = tracker[q]
    BY <1>0, <1>1 DEF Accepts, Accept, TypeOK, LineageState
  <1>3. /\ everHeld'[p] = everHeld[p] \cup {c}
        /\ \A q \in Participants \ {p} : everHeld'[q] = everHeld[q]
    BY <1>0 DEF Accepts, TypeOK
  <1>4. /\ admittedAt'[p] = now
        /\ \A q \in Participants \ {p} : admittedAt'[q] = admittedAt[q]
    BY <1>0 DEF Accepts, TypeOK
  <1>5. \/ /\ SameEpoch(tracker[p], c)
           /\ tracker[p].held.seq \in Nat
           /\ c.seq > tracker[p].held.seq
        \/ c.boot \notin tracker[p].retired
    BY <1>1, AcceptedMoves
  <1>6. c.expires > now /\ c.expires <= now + MaxSkew + MaxLease
    BY <1>0, <1>1, AcceptedIsBounded DEF TypeOK
  <1> HIDE DEF c
  (* Nothing the tracker has held reaches c's sequence in c's epoch.       *)
  <1>7. \A g \in everHeld[p] : g.boot = c.boot => g.seq < c.seq
    <2> SUFFICES ASSUME NEW g \in everHeld[p], g.boot = c.boot
                 PROVE  g.seq < c.seq
      OBVIOUS
    <2>1. g.boot \in tracker[p].retired
      BY <1>0 DEF HistoryMatches
    <2>2. SameEpoch(tracker[p], c) /\ tracker[p].held.seq \in Nat
          /\ c.seq > tracker[p].held.seq
      BY <1>5, <2>1
    <2>3. g.seq <= tracker[p].held.seq
      BY <2>2 DEF IInv, HeldIsHighest, SameEpoch
    <2>4. g.seq \in Nat
      BY <1>0 DEF TypeOK, Heartbeat, SequencesPresent
    <2> QED BY <1>1, <2>2, <2>3, <2>4
  <1>8. SequencesPresent'
    <2>1. c.seq # Null
      BY <1>1, CoreAssumption
    <2> QED BY <1>0, <1>3, <2>1 DEF SequencesPresent
  <1>9. HistoryMatches'
    <2> SUFFICES ASSUME NEW q \in Participants
                 PROVE  /\ tracker'[q].participant = q
                        /\ tracker'[q].held = NoHeartbeat => everHeld'[q] = {}
                        /\ tracker'[q].held # NoHeartbeat =>
                             tracker'[q].held \in everHeld'[q]
                        /\ \A g \in everHeld'[q] :
                             /\ g.node = q
                             /\ g.boot \in tracker'[q].retired
      BY DEF HistoryMatches
    <2>1. CASE q = p
      BY <1>0, <1>1, <1>2, <1>3, <2>1 DEF HistoryMatches
    <2>2. CASE q # p
      BY <1>0, <1>2, <1>3, <2>2 DEF HistoryMatches
    <2> QED BY <2>1, <2>2
  <1>10. HeldIsHighest'
    <2> SUFFICES ASSUME NEW q \in Participants, NEW g \in everHeld'[q],
                        g.boot = tracker'[q].held.boot
                 PROVE  g.seq <= tracker'[q].held.seq
      BY DEF HeldIsHighest
    <2>1. CASE q = p
      <3>1. g = c \/ (g \in everHeld[p] /\ g.boot = c.boot)
        BY <1>2, <1>3, <2>1
      <3>2. g \in everHeld[p] => g.seq \in Nat
        BY <1>0 DEF TypeOK, Heartbeat, SequencesPresent
      <3> QED BY <1>1, <1>2, <1>7, <2>1, <3>1, <3>2
    <2>2. CASE q # p
      BY <1>2, <1>3, <2>2 DEF IInv, HeldIsHighest
    <2> QED BY <2>1, <2>2
  <1>11. OneContentPerRevision'
    <2> SUFFICES ASSUME NEW q \in Participants,
                        NEW g \in everHeld'[q], NEW h \in everHeld'[q],
                        g.boot = h.boot, g.seq = h.seq
                 PROVE  g = h
      BY DEF OneContentPerRevision, Revision
    <2>1. g \in everHeld[q] /\ h \in everHeld[q] => g = h
      BY DEF IInv, OneContentPerRevision, Revision
    <2>2. CASE q = p
      <3>1. \A f \in everHeld[p] : f.seq \in Nat
        BY <1>0 DEF TypeOK, Heartbeat, SequencesPresent
      <3> QED BY <1>1, <1>3, <1>7, <2>1, <2>2, <3>1
    <2>3. CASE q # p
      BY <1>3, <2>1, <2>3
    <2> QED BY <2>2, <2>3
  <1>12. BoundedTrust'
    <2> SUFFICES ASSUME NEW q \in Participants, tracker'[q].held # NoHeartbeat
                 PROVE  /\ tracker'[q].held.expires > admittedAt'[q]
                        /\ tracker'[q].held.expires
                             <= admittedAt'[q] + MaxSkew + MaxLease
      BY DEF BoundedTrust
    <2>1. CASE q = p
      BY <1>2, <1>4, <1>6, <2>1
    <2>2. CASE q # p
      BY <1>2, <1>4, <2>2 DEF IInv, BoundedTrust
    <2> QED BY <2>1, <2>2
  <1> QED BY <1>8, <1>9, <1>10, <1>11, <1>12 DEF IInv

LEMMA NextIInv ==
  ASSUME ForeignSequencesPresent, IInv, [Next]_vars
  PROVE  IInv'
  <1>0. TypeOK' /\ TypeOK /\ SequencesPresent
    BY NextTypes DEF IInv
  (* Every step but a delivery leaves the consumer alone.                  *)
  <1>1. ASSUME UNCHANGED consumer, \A d \in sent' : d.seq # Null
        PROVE  IInv'
    <2>1. SequencesPresent'
      BY <1>0, <1>1 DEF SequencesPresent, consumer
    <2> QED BY <1>0, <1>1, <2>1, ConsumerUntouched DEF IInv
  <1>2. ASSUME NEW i \in Procs, NEW p \in Participants, NEW e \in Epochs,
               NEW l \in Leases, NEW b \in Bodies, Start(i, p, e, l, b)
        PROVE  IInv'
    BY <1>0, <1>1, <1>2 DEF Start, SequencesPresent
  <1>3. ASSUME NEW i \in Procs, NEW off \in Offsets, Issue(i, off)
        PROVE  IInv'
    <2>1. now + off \in Int
      BY <1>0, LineageAssumption DEF TypeOK
    <2>2. ToDict(NextHeartbeat(i, now + off)).seq \in Nat
      BY <1>0, <1>3, <2>1, IssuedDocument DEF Issue
    <2>3. \A d \in sent' : d.seq # Null
      BY <1>0, <1>3, <2>2, CoreAssumption DEF Issue, SequencesPresent
    <2> QED BY <1>1, <1>3, <2>3 DEF Issue
  <1>4. ASSUME NEW i \in Procs, Crash(i)
        PROVE  IInv'
    BY <1>0, <1>1, <1>4 DEF Crash, SequencesPresent
  <1>5. ASSUME NEW p \in Participants, NEW d \in sent \cup Foreign,
               Deliver(p, d)
        PROVE  IInv'
    <2>1. CASE UNCHANGED vars
      BY <1>0, <1>1, <2>1 DEF vars, consumer, SequencesPresent
    <2>2. CASE /\ Verdict(tracker[p], d, now) = "accepted"
               /\ Accepts(p, FromDict(d))
               /\ UNCHANGED <<now, issuer, born, sent>>
      BY <1>0, <2>2, AcceptKeeps
    <2> QED BY <1>0, <1>5, <2>1, <2>2, DeliverCases
  <1>6. CASE Tick
    BY <1>0, <1>1, <1>6 DEF Tick, publishers, SequencesPresent
  <1>7. ASSUME NEW st \in Steps, StepClock(st)
        PROVE  IInv'
    BY <1>0, <1>1, <1>7 DEF StepClock, publishers, SequencesPresent
  <1>8. CASE UNCHANGED vars
    BY <1>0, <1>1, <1>8 DEF vars, consumer, SequencesPresent
  <1> QED BY <1>2, <1>3, <1>4, <1>5, <1>6, <1>7, <1>8 DEF Next

(* The inductive invariant holds of every behaviour.                       *)
THEOREM Inductive ==
  ASSUME ForeignSequencesPresent
  PROVE  Spec => []IInv
  <1>1. Init => IInv
    BY InitIInv
  <1>2. IInv /\ [Next]_vars => IInv'
    BY NextIInv
  <1> QED BY <1>1, <1>2, PTL DEF Spec

(* Type correctness of publishers, wire and trackers.                      *)
THEOREM TypeCorrect ==
  ASSUME ForeignSequencesPresent
  PROVE  Spec => []TypeOK
  <1>1. IInv => TypeOK
    BY DEF IInv
  <1> QED BY <1>1, Inductive, PTL

(* Two writers under one identity are never both believed for one revision *)
(* (sequence_conflict in check_lineage).                                   *)
THEOREM NoSplitBrain ==
  ASSUME ForeignSequencesPresent
  PROVE  Spec => []OneContentPerRevision
  <1>1. IInv => OneContentPerRevision
    BY DEF IInv
  <1> QED BY <1>1, Inductive, PTL

(* A held lease expires within MaxSkew + MaxLease of its admission, on the *)
(* consumer's own clock (document_reason and check_freshness together).    *)
THEOREM TrustIsBounded ==
  ASSUME ForeignSequencesPresent
  PROVE  Spec => []BoundedTrust
  <1>1. IInv => BoundedTrust
    BY DEF IInv
  <1> QED BY <1>1, Inductive, PTL

-------------------------------------------------------------------------------
(* A superseded document is judged by lineage before the clock is looked   *)
(* at, so its outcome never depends on when it is replayed.                *)
LEMMA ReplayVerdict ==
  ASSUME IInv, NEW p \in Participants, NEW d \in Document,
         DocumentReason(d) = "none",
         FromDict(d) \in everHeld[p] \ {tracker[p].held}
  PROVE  Verdict(tracker[p], d, now) \in {"boot_id_reuse", "sequence_rollback"}
  <1> DEFINE c == FromDict(d)
             held == tracker[p].held
  <1>0. TypeOK /\ SequencesPresent /\ HistoryMatches /\ HeldIsHighest
        /\ OneContentPerRevision
    BY DEF IInv
  <1>1. c \in everHeld[p] /\ c # held /\ c \in Heartbeat
    BY <1>0 DEF TypeOK
  <1>2. ~FromDictRaises(d) /\ c.node = p
    <2>1. c.issued # Null /\ c.expires # Null
      BY <1>1, CoreAssumption DEF Heartbeat
    <2> QED BY <1>0, <1>1, <2>1 DEF FromDictRaises, FromDict, HistoryMatches
  <1>3. held # NoHeartbeat /\ held \in everHeld[p] /\ held \in Heartbeat
        /\ tracker[p].participant = p /\ c.boot \in tracker[p].retired
    BY <1>0, <1>1 DEF HistoryMatches, TypeOK
  <1>4. c.seq \in Nat /\ held.seq \in Nat
    BY <1>0, <1>1, <1>3 DEF SequencesPresent, Heartbeat
  <1>5. c.boot = held.boot => c.seq < held.seq
    <2>1. c.boot = held.boot => c.seq <= held.seq
      BY <1>0, <1>1 DEF HeldIsHighest
    <2>2. c.boot = held.boot => c.seq # held.seq
      BY <1>0, <1>1, <1>3 DEF OneContentPerRevision, Revision
    <2> QED BY <1>4, <2>1, <2>2
  <1>6. ~IsDuplicate(tracker[p], c)
    BY <1>4, <1>5 DEF IsDuplicate, SameEpoch
  <1>7. ~ComparisonRaises(tracker[p], c)
    BY <1>4, CoreAssumption DEF ComparisonRaises
  <1>8. CheckLineage(tracker[p], c) \in {"boot_id_reuse", "sequence_rollback"}
    BY <1>3, <1>5 DEF CheckLineage, SameEpoch
  <1> QED BY <1>2, <1>3, <1>6, <1>7, <1>8 DEF Verdict

(* A replay is always named as the rollback or the reuse that it is, never *)
(* as skew or expiry (the order of the checks in admit).                   *)
THEOREM ReplayAlwaysNamed ==
  ASSUME ForeignSequencesPresent
  PROVE  Spec => []ReplayIsNamed
  <1>1. IInv => ReplayIsNamed
    <2> SUFFICES ASSUME IInv, NEW p \in Participants, NEW d \in sent \cup Foreign,
                        DocumentReason(d) = "none",
                        FromDict(d) \in everHeld[p] \ {tracker[p].held}
                 PROVE  Verdict(tracker[p], d, now)
                          \in {"boot_id_reuse", "sequence_rollback"}
      BY DEF ReplayIsNamed
    <2>1. d \in Document
      BY LineageAssumption DEF IInv, TypeOK
    <2> QED BY <2>1, ReplayVerdict
  <1> QED BY <1>1, Inductive, PTL

-------------------------------------------------------------------------------
(* The wire's resolution *)

(* What an issuer with a lawful lease sends is structurally acceptable.    *)
LEMMA IssuedReason ==
  ASSUME TypeOK, NEW i \in Procs, issuer[i] # NoIssuer, NEW t \in Int
  PROVE  /\ DocumentReason(ToDict(NextHeartbeat(i, t))) = "none"
         /\ ~FromDictRaises(ToDict(NextHeartbeat(i, t)))
  <1> DEFINE d == ToDict(NextHeartbeat(i, t))
             l == issuer[i].lease
  <1>1. l \in MsTicks..MaxLease
    BY LineageAssumption DEF TypeOK, Issuer
  <1>2. MsTicks \in Int /\ MaxLease \in Int /\ l \in Int
    BY <1>1, CoreAssumption
  <1>3. d.issued = Truncate(t) /\ d.expires = Truncate(t + l)
        /\ d.version = "0.1" /\ d.wellFormed = TRUE
    BY DEF ToDict, NextHeartbeat
  <1>4. Truncate(t) \in Int /\ Truncate(t + l) \in Int
    BY <1>2, TruncateType
  <1>5. d.expires - d.issued > 0 /\ d.expires - d.issued <= MaxLease
    BY <1>1, <1>3, TruncatedLease
  <1>6. ~FromDictRaises(d)
    BY <1>3, <1>4, CoreAssumption DEF FromDictRaises
  <1> HIDE DEF d, l
  <1>7. ExpiryWindowViolation(d) = "none"
    BY <1>2, <1>3, <1>4, <1>5, <1>6 DEF ExpiryWindowViolation
  <1> QED BY <1>3, <1>6, <1>7 DEF DocumentReason, d

(* Whatever an issuer with a lawful lease setting publishes is acceptable  *)
(* at any clock reading and any resolution, though the wire truncates both *)
(* instants (issuer.py against document_reason).                           *)
THEOREM IssuedAlwaysAcceptable ==
  ASSUME ForeignSequencesPresent
  PROVE  Spec => []IssuedIsAcceptable
  <1>1. Init => IssuedIsAcceptable
    BY DEF Init, IssuedIsAcceptable
  <1>2. ASSUME IInv, IssuedIsAcceptable, [Next]_vars PROVE IssuedIsAcceptable'
    <2>1. CASE \E i \in Procs, off \in Offsets : Issue(i, off)
      <3>1. PICK i \in Procs, off \in Offsets : Issue(i, off)
        BY <2>1
      <3>2. now + off \in Int /\ issuer[i] # NoIssuer
        BY <1>2, <3>1, LineageAssumption DEF IInv, TypeOK, Issue
      <3>3. DocumentReason(ToDict(NextHeartbeat(i, now + off))) = "none"
        BY <1>2, <3>2, IssuedReason DEF IInv
      <3> QED BY <1>2, <3>1, <3>3 DEF Issue, IssuedIsAcceptable
    <2>2. CASE UNCHANGED sent
      BY <1>2, <2>2 DEF IssuedIsAcceptable
    <2> QED
      BY <1>2, <2>1, <2>2
         DEF Next, Start, Crash, Deliver, Tick, StepClock, publishers, vars
  <1> QED BY <1>1, <1>2, Inductive, PTL DEF Spec

-------------------------------------------------------------------------------
(* Whose an epoch is *)

Runs(i, e) == issuer[i] # NoIssuer /\ issuer[i].epoch = e

(* A minted epoch belongs to the one process it was minted for: what runs  *)
(* and what was sent under it has one participant, and its sequences are   *)
(* below the next one.                                                     *)
OneOwner ==
  \A e \in Mintable :
    /\ \A i, j \in Procs : Runs(i, e) /\ Runs(j, e) => i = j
    /\ \A i \in Procs : Runs(i, e) => e \in InUse
    /\ \A d \in sent : d.boot = e => e \in InUse
    /\ \A i \in Procs, d \in sent : Runs(i, e) /\ d.boot = e =>
         d.node = issuer[i].participant /\ d.seq \in Nat /\ d.seq < issuer[i].next
    /\ \A c, d \in sent : c.boot = e /\ d.boot = e => c.node = d.node

(* A tracker knows a minted epoch from a document that was sent under it.  *)
HeldWasSent ==
  \A p \in Participants :
    /\ \A e \in tracker[p].retired : \E g \in everHeld[p] : g.boot = e
    /\ \A g \in everHeld[p] : g.boot \in Mintable =>
         \E d \in sent : FromDict(d) = g

LEMMA OneOwnerKept ==
  ASSUME IInv, OneOwner, [Next]_vars
  PROVE  OneOwner'
  <1>0. TypeOK
    BY DEF IInv
  <1>1. CASE \E i \in Procs, p \in Participants, e \in Epochs, l \in Leases,
                b \in Bodies : Start(i, p, e, l, b)
    <2>1. PICK i \in Procs, p \in Participants, e \in Epochs, l \in Leases,
                b \in Bodies : Start(i, p, e, l, b)
      BY <1>1
    <2>2. /\ issuer' = [issuer EXCEPT ![i] =
               [participant |-> p, epoch |-> e, next |-> 0, lease |-> l, body |-> b]]
          /\ sent' = sent
          /\ e \in ConfiguredEpochs \cup (Mintable \ InUse)
      BY <2>1 DEF Start, EpochChoices
    <2>3. InUse \subseteq InUse' /\ e \in InUse'
      <3>1. CASE e \in InUse
        BY <2>1, <3>1 DEF Start, InUse
      <3>2. CASE e \notin InUse
        <4>1. born' = Append(born, e)
          BY <2>1, <3>2 DEF Start
        <4>2. /\ DOMAIN born = 1..Len(born) /\ Len(born) \in Nat
              /\ DOMAIN born' = 1..(Len(born) + 1)
              /\ \A k \in 1..Len(born) : born'[k] = born[k]
              /\ born'[Len(born) + 1] = e
          BY <1>0, <4>1 DEF TypeOK
        <4> QED BY <4>2 DEF InUse
      <3> QED BY <3>1, <3>2
    <2>4. \A j \in Procs \ {i} : \A f : Runs(j, f)' <=> Runs(j, f)
      BY <1>0, <2>2 DEF Runs, TypeOK
    <2>5. \A f : Runs(i, f)' => f = e
      BY <1>0, <2>2 DEF Runs, TypeOK
    <2>6. \A j \in Procs \ {i} : issuer'[j] = issuer[j]
      BY <1>0, <2>2 DEF TypeOK
    <2>7. e \in Mintable => \A j \in Procs : ~Runs(j, e)
      BY <2>2 DEF OneOwner, Mintable
    <2>8. e \in Mintable => \A d \in sent : d.boot # e
      BY <2>2 DEF OneOwner, Mintable
    <2> SUFFICES ASSUME NEW f \in Mintable
                 PROVE  /\ \A h, j \in Procs : Runs(h, f)' /\ Runs(j, f)' => h = j
                        /\ \A h \in Procs : Runs(h, f)' => f \in InUse'
                        /\ \A d \in sent : d.boot = f => f \in InUse'
                        /\ \A h \in Procs, d \in sent : Runs(h, f)' /\ d.boot = f =>
                             d.node = issuer'[h].participant /\ d.seq \in Nat
                               /\ d.seq < issuer'[h].next
                        /\ \A c, d \in sent : c.boot = f /\ d.boot = f => c.node = d.node
      BY <2>2 DEF OneOwner, Mintable
    <2>9. CASE f = e
      BY <2>3, <2>4, <2>7, <2>8, <2>9
    <2>10. CASE f # e
      <3>1. \A h \in Procs : Runs(h, f)' => h # i /\ Runs(h, f)
        BY <2>4, <2>5, <2>10
      <3> QED BY <2>3, <2>6, <3>1 DEF OneOwner
    <2> QED BY <2>9, <2>10
  <1>2. CASE \E i \in Procs, off \in Offsets : Issue(i, off)
    <2>1. PICK i \in Procs, off \in Offsets : Issue(i, off)
      BY <1>2
    <2> DEFINE n == ToDict(NextHeartbeat(i, now + off))
    <2>2. /\ issuer[i] # NoIssuer /\ issuer[i] \in Issuer
          /\ sent' = sent \cup {n} /\ born' = born
          /\ issuer' = [issuer EXCEPT ![i].next = @ + 1]
      BY <1>0, <2>1 DEF Issue, TypeOK
    <2>3. n.boot = issuer[i].epoch /\ n.node = issuer[i].participant
          /\ n.seq = issuer[i].next /\ issuer[i].next \in Nat
      BY <2>2 DEF ToDict, NextHeartbeat, Issuer
    <2> HIDE DEF n
    <2>4. /\ issuer'[i].epoch = issuer[i].epoch
          /\ issuer'[i].participant = issuer[i].participant
          /\ issuer'[i].next = issuer[i].next + 1
          /\ \A j \in Procs \ {i} : issuer'[j] = issuer[j]
      BY <1>0, <2>2 DEF TypeOK, Issuer
    <2>5. \A j \in Procs : \A f : Runs(j, f)' => Runs(j, f)
      BY <2>2, <2>4 DEF Runs
    <2> SUFFICES ASSUME NEW f \in Mintable
                 PROVE  /\ \A h, j \in Procs : Runs(h, f)' /\ Runs(j, f)' => h = j
                        /\ \A h \in Procs : Runs(h, f)' => f \in InUse
                        /\ \A d \in sent' : d.boot = f => f \in InUse
                        /\ \A h \in Procs, d \in sent' : Runs(h, f)' /\ d.boot = f =>
                             d.node = issuer'[h].participant /\ d.seq \in Nat
                               /\ d.seq < issuer'[h].next
                        /\ \A c, d \in sent' : c.boot = f /\ d.boot = f => c.node = d.node
      BY <2>2 DEF OneOwner, Mintable, InUse
    <2>6. n.boot = f => Runs(i, f)
      BY <2>2, <2>3 DEF Runs
    <2>7. \A h \in Procs, d \in sent' : Runs(h, f)' /\ d.boot = f =>
            d.node = issuer'[h].participant /\ d.seq \in Nat /\ d.seq < issuer'[h].next
      <3> SUFFICES ASSUME NEW h \in Procs, NEW d \in sent', Runs(h, f)', d.boot = f
                   PROVE  d.node = issuer'[h].participant /\ d.seq \in Nat
                            /\ d.seq < issuer'[h].next
        OBVIOUS
      <3>1. Runs(h, f)
        BY <2>5
      <3>2. CASE d = n
        <4>1. h = i
          BY <2>6, <3>1, <3>2 DEF OneOwner
        <4> QED BY <2>3, <2>4, <3>2, <4>1
      <3>3. CASE d \in sent
        <4>1. d.node = issuer[h].participant /\ d.seq \in Nat /\ d.seq < issuer[h].next
          BY <3>1, <3>3 DEF OneOwner
        <4> QED BY <2>3, <2>4, <4>1
      <3> QED BY <2>2, <3>2, <3>3
    <2>8. \A c, d \in sent' : c.boot = f /\ d.boot = f => c.node = d.node
      <3>1. n.boot = f => \A d \in sent : d.boot = f => d.node = n.node
        BY <2>3, <2>6 DEF OneOwner
      <3> QED BY <2>2, <3>1 DEF OneOwner
    <2> QED BY <2>2, <2>5, <2>6, <2>7, <2>8 DEF OneOwner
  <1>3. CASE \E i \in Procs : Crash(i)
    <2>1. PICK i \in Procs : Crash(i)
      BY <1>3
    <2>2. /\ sent' = sent /\ born' = born
          /\ \A j \in Procs : issuer'[j] = NoIssuer \/ issuer'[j] = issuer[j]
      BY <1>0, <2>1 DEF Crash, TypeOK
    <2>3. \A j \in Procs : \A f : Runs(j, f)' => Runs(j, f) /\ issuer'[j] = issuer[j]
      BY <2>2 DEF Runs
    <2> QED BY <2>2, <2>3 DEF OneOwner, Mintable, InUse
  <1>4. CASE UNCHANGED publishers
    BY <1>4 DEF publishers, OneOwner, Mintable, InUse, Runs
  <1> QED
    BY <1>1, <1>2, <1>3, <1>4
       DEF Next, Deliver, Tick, StepClock, vars, publishers

LEMMA HeldWasSentKept ==
  ASSUME ForeignSequencesPresent, IInv, HeldWasSent, [Next]_vars
  PROVE  HeldWasSent'
  <1>0. TypeOK /\ SequencesPresent /\ HistoryMatches
    BY DEF IInv
  <1>1. ASSUME UNCHANGED consumer, sent \subseteq sent' PROVE HeldWasSent'
    BY <1>1 DEF consumer, HeldWasSent, Mintable
  <1>2. ASSUME NEW p \in Participants, NEW d \in sent \cup Foreign, Deliver(p, d)
        PROVE  HeldWasSent'
    <2>1. CASE UNCHANGED vars
      BY <1>1, <2>1 DEF vars, consumer
    <2>2. CASE /\ Verdict(tracker[p], d, now) = "accepted"
               /\ Accepts(p, FromDict(d))
               /\ UNCHANGED <<now, issuer, born, sent>>
      <3> DEFINE c == FromDict(d)
      <3>1. tracker[p] \in LineageState /\ c.boot = d.boot
        BY <1>0 DEF TypeOK, FromDict
      <3>2. /\ tracker'[p].retired = tracker[p].retired \cup {c.boot}
            /\ \A q \in Participants \ {p} : tracker'[q] = tracker[q]
        BY <1>0, <2>2, <3>1 DEF Accepts, Accept, TypeOK, LineageState
      <3>3. /\ everHeld'[p] = everHeld[p] \cup {c}
            /\ \A q \in Participants \ {p} : everHeld'[q] = everHeld[q]
        BY <1>0, <2>2 DEF Accepts, TypeOK
      <3>4. d.boot \in Mintable => d \in sent
        BY DEF Mintable
      <3> HIDE DEF c
      <3> SUFFICES ASSUME NEW q \in Participants
                   PROVE  /\ \A e \in tracker'[q].retired : \E g \in everHeld'[q] : g.boot = e
                          /\ \A g \in everHeld'[q] : g.boot \in Mintable =>
                               \E b \in sent : FromDict(b) = g
        BY <2>2 DEF HeldWasSent, Mintable
      <3>5. CASE q = p
        BY <3>1, <3>2, <3>3, <3>4, <3>5 DEF HeldWasSent, c
      <3>6. CASE q # p
        BY <3>2, <3>3, <3>6 DEF HeldWasSent
      <3> QED BY <3>5, <3>6
    <2> QED BY <1>0, <1>2, <2>1, <2>2, DeliverCases
  <1> QED
    BY <1>1, <1>2
       DEF Next, Start, Issue, Crash, Tick, StepClock, publishers, vars, consumer

(* Who owns an epoch, and where trackers have it from, in every behaviour. *)
THEOREM Ownership ==
  ASSUME ForeignSequencesPresent
  PROVE  Spec => [](OneOwner /\ HeldWasSent)
  <1>1. Init => OneOwner /\ HeldWasSent
    BY DEF Init, OneOwner, HeldWasSent, Runs, EmptyLineage
  <1>2. IInv /\ OneOwner /\ HeldWasSent /\ [Next]_vars => (OneOwner /\ HeldWasSent)'
    BY OneOwnerKept, HeldWasSentKept
  <1> QED BY <1>1, <1>2, Inductive, PTL DEF Spec

(* Two trackers never retire the same minted epoch, wherever documents are *)
(* delivered to (check_lineage and the node_id check).                     *)
THEOREM EpochsNeverCross ==
  ASSUME ForeignSequencesPresent
  PROVE  Spec => []EpochsDoNotCross
  <1>1. IInv /\ OneOwner /\ HeldWasSent => EpochsDoNotCross
    <2> SUFFICES ASSUME IInv, OneOwner, HeldWasSent,
                        NEW p \in Participants, NEW q \in Participants, NEW e \in Mintable,
                        e \in tracker[p].retired, e \in tracker[q].retired
                 PROVE  p = q
      BY DEF EpochsDoNotCross
    <2>1. ASSUME NEW r \in Participants, e \in tracker[r].retired
          PROVE  \E d \in sent : d.boot = e /\ d.node = r
      <3>1. PICK g \in everHeld[r] : g.boot = e
        BY <2>1 DEF HeldWasSent
      <3>2. PICK d \in sent : FromDict(d) = g
        BY <3>1 DEF HeldWasSent
      <3>3. g.node = r
        BY DEF IInv, HistoryMatches
      <3> QED BY <3>1, <3>2, <3>3 DEF FromDict
    <2>2. PICK c \in sent : c.boot = e /\ c.node = p
      BY <2>1
    <2>3. PICK d \in sent : d.boot = e /\ d.node = q
      BY <2>1
    <2> QED BY <2>2, <2>3 DEF OneOwner
  <1> QED BY <1>1, Inductive, Ownership, PTL

-------------------------------------------------------------------------------
(* A consumer whose skew bound is not finer than the wire's resolution.    *)
WireWithinSkew == MsTicks - 1 <= MaxSkew

(* A heartbeat issued now is fresh and within the skew bound, however the  *)
(* wire rounds it.                                                         *)
LEMMA IssuedNowIsFresh ==
  ASSUME WireWithinSkew, TypeOK, NEW i \in Procs, issuer[i] # NoIssuer
  PROVE  CheckFreshness(FromDict(ToDict(NextHeartbeat(i, now))), now) = "none"
  <1> DEFINE l == issuer[i].lease
             c == FromDict(ToDict(NextHeartbeat(i, now)))
  <1>1. /\ now \in Int /\ MsTicks \in Nat \ {0} /\ MaxSkew \in Nat
        /\ l \in MsTicks..MaxLease /\ MaxLease \in Nat
    BY LineageAssumption, CoreAssumption DEF TypeOK, Issuer
  <1>2. c.issued = Truncate(now) /\ c.expires = Truncate(now + l)
    BY DEF FromDict, ToDict, NextHeartbeat
  <1>3. l \in Int /\ now + l \in Int /\ MsTicks <= l
    BY <1>1
  <1>4. Truncate(now) \in Int /\ Truncate(now + l) \in Int
    BY <1>1, <1>3, TruncateType
  <1>5. /\ Truncate(now) <= now /\ now < Truncate(now) + MsTicks
        /\ now + l < Truncate(now + l) + MsTicks
    BY <1>1, <1>3, TruncateBounds
  <1> HIDE DEF c, l
  <1>6. ~(c.issued - now > MaxSkew \/ now - c.issued > MaxSkew)
    BY <1>1, <1>2, <1>4, <1>5 DEF WireWithinSkew
  <1>7. IsFresh(c, now)
    BY <1>1, <1>2, <1>3, <1>4, <1>5 DEF IsFresh
  <1> QED BY <1>6, <1>7 DEF CheckFreshness, c

(* The next heartbeat of a process with an epoch of its own is new to a    *)
(* tracker that has not seen the epoch superseded.                         *)
LEMMA NextIsNew ==
  ASSUME IInv, OneOwner, HeldWasSent, NEW i \in Procs, issuer[i] # NoIssuer,
         issuer[i].epoch \in Mintable,
         LET s == tracker[issuer[i].participant] IN
         issuer[i].epoch \in s.retired => s.held.boot = issuer[i].epoch
  PROVE  LET s == tracker[issuer[i].participant]
             c == FromDict(ToDict(NextHeartbeat(i, now))) IN
         ~IsDuplicate(s, c) /\ ~ComparisonRaises(s, c) /\ CheckLineage(s, c) = "none"
  <1> DEFINE p == issuer[i].participant
             e == issuer[i].epoch
             s == tracker[p]
             c == FromDict(ToDict(NextHeartbeat(i, now)))
  <1>0. TypeOK /\ SequencesPresent /\ HistoryMatches
    BY DEF IInv
  <1>1. p \in Participants /\ e \in Epochs /\ issuer[i].next \in Nat /\ s \in LineageState
    BY <1>0 DEF TypeOK, Issuer
  <1>2. c.boot = e /\ c.seq = issuer[i].next
    BY DEF FromDict, ToDict, NextHeartbeat
  <1>3. Runs(i, e)
    BY DEF Runs
  <1> HIDE DEF c
  <1>4. CASE SameEpoch(s, c)
    <2>1. s.held \in everHeld[p] /\ s.held.boot = e
      BY <1>0, <1>1, <1>2, <1>4 DEF SameEpoch, HistoryMatches
    <2>2. PICK d \in sent : FromDict(d) = s.held
      BY <1>1, <2>1 DEF HeldWasSent
    <2>3. d.boot = e /\ d.seq = s.held.seq
      BY <2>1, <2>2 DEF FromDict
    <2>4. s.held.seq \in Nat /\ s.held.seq < c.seq
      BY <1>2, <1>3, <2>3 DEF OneOwner
    <2>5. c.seq # Null /\ s.held.seq # Null
      BY <1>1, <1>2, <2>4, CoreAssumption
    <2> HIDE DEF s
    <2>6. ~IsDuplicate(s, c)
      BY <1>1, <1>2, <2>4 DEF IsDuplicate
    <2>7. ~ComparisonRaises(s, c)
      BY <2>5 DEF ComparisonRaises
    <2>8. CheckLineage(s, c) = "none"
      BY <1>1, <1>2, <1>4, <2>4 DEF CheckLineage
    <2> QED BY <2>6, <2>7, <2>8 DEF s, c
  <1>5. CASE ~SameEpoch(s, c)
    <2>1. e \notin s.retired
      <3>1. CASE s.held = NoHeartbeat
        BY <1>0, <1>1, <3>1 DEF HistoryMatches, HeldWasSent
      <3>2. CASE s.held # NoHeartbeat
        BY <1>2, <1>5, <3>2 DEF SameEpoch
      <3> QED BY <3>1, <3>2
    <2> HIDE DEF s
    <2> QED BY <1>2, <1>5, <2>1 DEF IsDuplicate, ComparisonRaises, CheckLineage, s, c
  <1> QED BY <1>4, <1>5

(* A running process with an epoch of its own is never locked out: unless  *)
(* its epoch was superseded, its next heartbeat would be accepted, whoever *)
(* else publishes under its name and however clocks were stepped (admit).  *)
THEOREM NeverLockedOut ==
  ASSUME ForeignSequencesPresent, WireWithinSkew
  PROVE  Spec => []NextBeatAdmitted
  <1>1. IInv /\ OneOwner /\ HeldWasSent => NextBeatAdmitted
    <2> SUFFICES ASSUME IInv, OneOwner, HeldWasSent, NEW i \in Procs,
                        issuer[i] # NoIssuer, issuer[i].epoch \in Mintable,
                        LET s == tracker[issuer[i].participant] IN
                        issuer[i].epoch \in s.retired => s.held.boot = issuer[i].epoch
                 PROVE  Verdict(tracker[issuer[i].participant],
                                ToDict(NextHeartbeat(i, now)), now) = "accepted"
      BY DEF NextBeatAdmitted
    <2> DEFINE s == tracker[issuer[i].participant]
               d == ToDict(NextHeartbeat(i, now))
               c == FromDict(d)
    <2>1. TypeOK /\ HistoryMatches /\ now \in Int
      BY DEF IInv, TypeOK
    <2>2. DocumentReason(d) = "none" /\ ~FromDictRaises(d)
      BY <2>1, IssuedReason
    <2>3. s.participant = c.node
      BY <2>1 DEF HistoryMatches, FromDict, ToDict, NextHeartbeat, TypeOK, Issuer
    <2>4. ~IsDuplicate(s, c) /\ ~ComparisonRaises(s, c) /\ CheckLineage(s, c) = "none"
      BY NextIsNew
    <2>5. CheckFreshness(c, now) = "none"
      BY <2>1, IssuedNowIsFresh
    <2> HIDE DEF s, d
    <2> QED BY <2>2, <2>3, <2>4, <2>5 DEF Verdict, s, d
  <1> QED BY <1>1, Inductive, Ownership, PTL

-------------------------------------------------------------------------------
(* Refinement: a tracker is a lease register. *)

(* The register of p, and its past, in a state of Lineage. *)
Shown(p) == IF tracker[p].held = NoHeartbeat THEN NoHeartbeat
            ELSE Revision(tracker[p].held)
ShownPast(p) == {Revision(h) : h \in everHeld[p]}
ShownAll == [p \in Participants |->
               IF tracker[p].held = NoHeartbeat THEN NoHeartbeat
               ELSE Revision(tracker[p].held)]

LEMMA InitRegister == Init => Register!Init
  BY DEF Init, Register!Init, EmptyLineage

(* An acceptance is an Advance of the register: to a higher sequence in    *)
(* its epoch, or to an epoch absent from its past.                         *)
LEMMA AcceptAdvances ==
  ASSUME ForeignSequencesPresent, IInv,
         NEW p \in Participants, NEW d \in sent \cup Foreign,
         Verdict(tracker[p], d, now) = "accepted",
         Accepts(p, FromDict(d))
  PROVE  Register!Advance(p)
  <1> DEFINE c == FromDict(d)
  <1>0. TypeOK /\ SequencesPresent /\ HistoryMatches
    BY DEF IInv
  <1>1. /\ c \in Heartbeat /\ c # NoHeartbeat /\ c.seq \in Nat
        /\ d \in Document /\ d.seq # Null
        /\ tracker[p] \in LineageState
    BY <1>0, AcceptedHeartbeat
  <1>2. \/ /\ SameEpoch(tracker[p], c)
           /\ c.seq > tracker[p].held.seq
        \/ c.boot \notin tracker[p].retired
    BY <1>1, AcceptedMoves
  <1> HIDE DEF c
  <1>3. /\ tracker' = [tracker EXCEPT ![p] = Accept(tracker[p], c)]
        /\ everHeld' = [everHeld EXCEPT ![p] = @ \cup {c}]
    BY DEF Accepts, c
  <1>4. tracker'[p].held = c
    BY <1>0, <1>1, <1>3 DEF Accept, TypeOK, LineageState
  <1>5. Shown(p)' = Revision(c)
    BY <1>1, <1>4 DEF Shown
  <1>6. Revision(c) \in Register!Revision
    BY <1>1 DEF Revision, Register!Revision, Heartbeat
  <1>7. \/ /\ Shown(p) # NoHeartbeat
           /\ Revision(c).boot = Shown(p).boot
           /\ Revision(c).seq > Shown(p).seq
        \/ \A q \in ShownPast(p) : q.boot # Revision(c).boot
    <2>1. CASE /\ SameEpoch(tracker[p], c)
               /\ c.seq > tracker[p].held.seq
      <3>1. tracker[p].held \in Heartbeat
        BY <1>1, <2>1 DEF SameEpoch, LineageState
      <3>2. tracker[p].held.seq \in Nat /\ tracker[p].held # NoHeartbeat
        BY <1>0, <2>1, <3>1
           DEF SameEpoch, HistoryMatches, SequencesPresent, Heartbeat
      <3>3. Revision(tracker[p].held) \in Register!Revision
        BY <3>1, <3>2 DEF Revision, Register!Revision, Heartbeat
      <3>4. Revision(tracker[p].held) # NoHeartbeat
        BY <3>3, LineageAssumption DEF Register!Revision
      <3> QED BY <2>1, <3>2, <3>4 DEF Shown, Revision, SameEpoch
    <2>2. CASE c.boot \notin tracker[p].retired
      BY <1>0, <2>2 DEF ShownPast, Revision, HistoryMatches
    <2> QED BY <1>2, <2>1, <2>2
  <1>8. [q \in Participants |-> Shown(q)]' =
          [[q \in Participants |-> Shown(q)] EXCEPT ![p] = Revision(c)]
    BY <1>0, <1>3, <1>5 DEF Shown, TypeOK
  <1>9. [q \in Participants |-> ShownPast(q)]' =
          [[q \in Participants |-> ShownPast(q)] EXCEPT ![p] =
             @ \cup {Revision(c)}]
    BY <1>0, <1>3 DEF ShownPast, TypeOK
  <1> QED
    BY <1>5, <1>6, <1>7, <1>8, <1>9
       DEF Register!Advance, Register!Forward, Shown, ShownPast

LEMMA NextRegister ==
  ASSUME ForeignSequencesPresent, IInv, [Next]_vars
  PROVE  [Register!Next]_(Register!vars)
  <1>1. CASE UNCHANGED <<tracker, everHeld>>
    BY <1>1 DEF Register!vars, Revision
  <1>2. ASSUME NEW p \in Participants, NEW d \in sent \cup Foreign,
               Deliver(p, d)
        PROVE  [Register!Next]_(Register!vars)
    <2>1. CASE UNCHANGED vars
      BY <1>1, <2>1 DEF vars
    <2>2. CASE /\ Verdict(tracker[p], d, now) = "accepted"
               /\ Accepts(p, FromDict(d))
      BY <2>2, AcceptAdvances DEF Register!Next
    <2> QED BY <1>2, <2>1, <2>2, DeliverCases DEF IInv
  <1> QED
    BY <1>1, <1>2 DEF Next, Start, Issue, Crash, Tick, StepClock, consumer, vars

(* Trackers implement the lease register, whatever is delivered, in        *)
(* whatever order and however often (admit as a whole).                    *)
THEOREM TrackersAreRegisters ==
  ASSUME ForeignSequencesPresent
  PROVE  Spec => ImplementsRegister
  <1>1. Init => Register!Init
    BY InitRegister
  <1>2. IInv /\ [Next]_vars => [Register!Next]_(Register!vars)
    BY NextRegister
  <1> QED
    BY <1>1, <1>2, Inductive, PTL DEF Spec, ImplementsRegister, Register!Spec

(* What a tracker shows is in its past, and the highest of its epoch there. *)
LEMMA ShownIsHighest ==
  ASSUME IInv, NEW p \in Participants
  PROVE  /\ \A q \in ShownPast(p) : q.seq \in Nat
         /\ Shown(p) # NoHeartbeat =>
              /\ Shown(p) \in ShownPast(p)
              /\ \A q \in ShownPast(p) :
                   q.boot = Shown(p).boot => q.seq <= Shown(p).seq
  <1>0. TypeOK /\ SequencesPresent /\ HistoryMatches /\ HeldIsHighest
    BY DEF IInv
  <1>1. \A h \in everHeld[p] : h.seq \in Nat
    BY <1>0 DEF TypeOK, Heartbeat, SequencesPresent
  <1>2. \A q \in ShownPast(p) : \E h \in everHeld[p] : q = Revision(h)
    BY DEF ShownPast
  <1>3. ASSUME Shown(p) # NoHeartbeat
        PROVE  /\ tracker[p].held \in everHeld[p]
               /\ Shown(p) = Revision(tracker[p].held)
    BY <1>0, <1>3 DEF Shown, HistoryMatches
  <1> QED
    BY <1>0, <1>1, <1>2, <1>3 DEF ShownPast, Revision, HeldIsHighest

(* No step of anybody takes a tracker back to a revision it has held, nor  *)
(* to an epoch it has left: what a consumer may conclude from the register *)
(* it sees (check_lineage and the retired epochs together).                *)
THEOREM TrackersNeverReturn ==
  ASSUME ForeignSequencesPresent
  PROVE  Spec => Register!NeverReturns
  <1>1. ASSUME IInv, [Next]_vars
        PROVE  [\A p \in Participants :
                  (Shown(p) # NoHeartbeat /\ Shown(p)' # Shown(p)) =>
                    ~ (\/ Shown(p)' \in ShownPast(p)
                       \/ /\ Shown(p)'.boot # Shown(p).boot
                          /\ \E q \in ShownPast(p) : q.boot = Shown(p)'.boot)
               ]_(Register!vars)
    <2> SUFFICES ASSUME NEW p \in Participants,
                        Shown(p) # NoHeartbeat, Shown(p)' # Shown(p)
                 PROVE  /\ Shown(p)' \notin ShownPast(p)
                        /\ \A q \in ShownPast(p) :
                             q.boot = Shown(p)'.boot => q.boot = Shown(p).boot
      BY ZenonT(30)
    <2>1. CASE tracker'[p] = tracker[p]
      BY <2>1 DEF Shown
    <2>2. ASSUME tracker'[p] # tracker[p]
          PROVE  /\ Shown(p)' \notin ShownPast(p)
                 /\ \A q \in ShownPast(p) :
                      q.boot = Shown(p)'.boot => q.boot = Shown(p).boot
      <3>1. PICK a \in Participants, d \in sent \cup Foreign :
              Verdict(tracker[a], d, now) = "accepted" /\ Accepts(a, FromDict(d))
        BY <1>1, <2>2, DeliverCases
           DEF IInv, Next, Start, Issue, Crash, Tick, StepClock, consumer, vars
      <3>2. a = p
        BY <1>1, <2>2, <3>1 DEF Accepts, IInv, TypeOK
      <3>3. /\ FromDict(d) \in Heartbeat /\ FromDict(d) # NoHeartbeat
            /\ FromDict(d).seq \in Nat /\ tracker[p] \in LineageState
            /\ d \in Document /\ d.seq # Null
        BY <1>1, <3>1, <3>2, AcceptedHeartbeat DEF IInv
      <3>4. tracker'[p].held = FromDict(d)
        BY <1>1, <3>1, <3>2, <3>3 DEF Accepts, Accept, IInv, TypeOK, LineageState
      <3>5. Shown(p)' = Revision(FromDict(d))
        BY <3>3, <3>4 DEF Shown
      <3>6. tracker[p].held # NoHeartbeat /\ Shown(p) = Revision(tracker[p].held)
        BY DEF Shown
      <3>7. CASE /\ SameEpoch(tracker[p], FromDict(d))
                 /\ tracker[p].held.seq \in Nat
                 /\ FromDict(d).seq > tracker[p].held.seq
        BY <1>1, <3>3, <3>5, <3>6, <3>7, ShownIsHighest DEF Revision, SameEpoch
      <3>8. CASE FromDict(d).boot \notin tracker[p].retired
        <4>1. \A q \in ShownPast(p) : q.boot \in tracker[p].retired
          BY <1>1 DEF Revision, ShownPast, IInv, HistoryMatches
        <4> QED BY <3>5, <3>8, <4>1 DEF Revision
      <3> QED BY <3>1, <3>2, <3>3, <3>7, <3>8, AcceptedMoves
    <2> QED BY <2>1, <2>2
  <1>2. IInv /\ [Next]_vars =>
          [\A p \in Participants :
             (ShownAll[p] # NoHeartbeat /\ ShownAll'[p] # ShownAll[p]) =>
               ~Register!Returns(p)]_(Register!vars)
    BY <1>1 DEF Register!Returns, ShownAll, Shown, ShownPast
  <1> QED
    BY <1>2, Inductive, PTL DEF Spec, Register!NeverReturns, ShownAll
=============================================================================
