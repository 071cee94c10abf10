-------------------------- MODULE Convergence_proofs --------------------------
(***************************************************************************)
(* What holds of the consumer for every lease, refetch interval, poll gap, *)
(* read latency and renewal gap, and for every way hints and reads go.     *)
(*                                                                         *)
(* Argument for AskedBeforeExpiry.  While a refetch is in flight it was    *)
(* asked at most Latency ago.  Otherwise the loop last had its turn at     *)
(* most PollGap ago, and that turn either ended the last refetch or found  *)
(* no refetch due (NoneDueSince): at most half of the window between the   *)
(* last fetch and the expiry had passed, so the expiry is near neither     *)
(* then nor, for want of time, now, unless it was asked about recently.    *)
(*                                                                         *)
(* Argument for HintReflected and NoFalseDeath.  What the publisher has    *)
(* up, what an answer brings and what is held belong to one sequence of    *)
(* documents per epoch (HeldInOrder, AnswerInOrder), so an answer of the   *)
(* publisher itself is never refused for its lineage, nor for its age if   *)
(* the skew bound covers the renewal gap and the read (AnswerIsGood).  So  *)
(* an authoritative answer leaves the consumer with that document, which   *)
(* is no older than any hint that came before it was read out (HintOwed),  *)
(* and with most of a lease, of which half the rest outlasts the loop and  *)
(* the next read (CalmInTime).                                             *)
(***************************************************************************)
EXTENDS Convergence, TLAPS

-----------------------------------------------------------------------------
(* The core's operators, for every document, tracker state and limit. *)

(* Rounding down to wire resolution stays among the instants. *)
LEMMA TruncateType ==
  ASSUME NEW t \in Int
  PROVE  Truncate(t) \in Int
  BY CoreAssumption DEF Truncate

(* What from_dict returns for a document it does not raise on.             *)
LEMMA FromDictType ==
  ASSUME NEW d \in Document, ~FromDictRaises(d)
  PROVE  FromDict(d) \in Heartbeat
  BY DEF FromDict, FromDictRaises, Document, Heartbeat

(* An accepted document passed every check of admit().                     *)
LEMMA AcceptedPassed ==
  ASSUME NEW s, NEW d, NEW t, Verdict(s, d, t) = "accepted"
  PROVE  /\ DocumentReason(d) = "none"
         /\ ~FromDictRaises(d)
         /\ FromDict(d).node = s.participant
         /\ ~IsDuplicate(s, FromDict(d))
         /\ ~ComparisonRaises(s, FromDict(d))
         /\ CheckLineage(s, FromDict(d)) = "none"
         /\ CheckFreshness(FromDict(d), t) = "none"
  <1>1. DocumentReason(d) = "none"
    <2>1. DocumentReason(d) # "accepted"
      BY DEF DocumentReason, ExpiryWindowViolation
    <2> QED BY <2>1 DEF Verdict
  <1>2. CheckLineage(s, FromDict(d)) # "accepted"
    BY DEF CheckLineage
  <1>3. CheckFreshness(FromDict(d), t) # "accepted"
    BY DEF CheckFreshness
  <1> QED BY <1>1, <1>2, <1>3 DEF Verdict

(* What goes on the wire is a document. *)
LEMMA ToDictType ==
  ASSUME NEW h \in Heartbeat
  PROVE  ToDict(h) \in Document
  <1>1. Truncate(h.issued) \in Int /\ Truncate(h.expires) \in Int
    BY TruncateType DEF Heartbeat
  <1> QED BY <1>1 DEF ToDict, Heartbeat, Document, Versions

(* admit() leaves the tracker alone unless it accepts, and then the held   *)
(* heartbeat is the document's.                                            *)
LEMMA AdmitMoves ==
  ASSUME NEW s \in LineageState, NEW d \in Document, NEW t
  PROVE  LET a == Admit(s, d, t) IN
         /\ a.state \in LineageState
         /\ a.outcome = "accepted" =>
              a.state.held = FromDict(d) /\ FromDict(d) \in Heartbeat
         /\ a.outcome # "accepted" => a.state = s
  <1>1. CASE Verdict(s, d, t) = "accepted"
    <2>1. Admit(s, d, t) =
            [outcome |-> "accepted", state |-> Accept(s, FromDict(d))]
      BY <1>1 DEF Admit
    <2>2. FromDict(d) \in Heartbeat
      BY <1>1, AcceptedPassed, FromDictType
    <2>3. FromDict(d).boot \in Epochs \cup {Null}
      BY <2>2 DEF Heartbeat
    <2>4. /\ Accept(s, FromDict(d)) \in LineageState
          /\ Accept(s, FromDict(d)).held = FromDict(d)
      BY <2>2, <2>3 DEF Accept, LineageState
    <2> QED BY <2>1, <2>2, <2>4
  <1>2. CASE Verdict(s, d, t) # "accepted"
    BY <1>2 DEF Admit
  <1> QED BY <1>1, <1>2

LEMMA MultiplesCompare ==
  ASSUME NEW x \in Int, NEW y \in Int, NEW m \in Nat \ {0}, m * x < m * y
  PROVE  x < y
  OBVIOUS

LEMMA MultiplesOrdered ==
  ASSUME NEW x \in Int, NEW y \in Int, NEW m \in Nat \ {0}, x <= y
  PROVE  m * x <= m * y
  OBVIOUS

(* Rounding down takes less than one tick of the wire away.                *)
LEMMA TruncateBounds ==
  ASSUME NEW t \in Int
  PROVE  Truncate(t) <= t /\ t < Truncate(t) + MsTicks
  BY CoreAssumption DEF Truncate

(* Rounding down what is rounded down already changes nothing.             *)
LEMMA TruncateTwice ==
  ASSUME NEW t \in Int
  PROVE  Truncate(Truncate(t)) = Truncate(t)
  <1> DEFINE q == t \div MsTicks
  <1>1. MsTicks \in Nat \ {0} /\ q \in Int
    BY CoreAssumption
  <1> HIDE DEF q
  <1>2. (q * MsTicks) \div MsTicks = q
    BY <1>1
  <1> QED BY <1>2 DEF Truncate, q

(* A lease keeps a positive length, and one within the limit, on the wire. *)
LEMMA TruncatedLease ==
  ASSUME NEW t \in Int, NEW l \in MsTicks..MaxLease
  PROVE  /\ Truncate(t + l) - Truncate(t) > 0
         /\ Truncate(t + l) - Truncate(t) <= MaxLease
  <1> DEFINE m == MsTicks
             a == t \div m
             b == (t + l) \div m
             k == MaxLease \div m
  <1>1. /\ m \in Nat \ {0} /\ MaxLease \in Nat /\ MaxLease % m = 0
        /\ l \in Int /\ m <= l /\ l <= MaxLease /\ t + l \in Int
    BY CoreAssumption
  <1>2. /\ a \in Int /\ b \in Int /\ k \in Int
        /\ Truncate(t) = m * a /\ Truncate(t + l) = m * b
    BY <1>1 DEF Truncate
  <1>3. MaxLease = m * k
    BY <1>1
  <1>4. Truncate(t) <= t /\ t < Truncate(t) + m
        /\ Truncate(t + l) <= t + l /\ t + l < Truncate(t + l) + m
    BY <1>1, TruncateBounds
  <1> HIDE DEF m, a, b, k
  <1>5. m * a < m * b
    BY <1>1, <1>2, <1>4
  <1>6. m * b < m * (a + k + 1)
    <2>1. m * (a + k + 1) = m * a + m * k + m
      BY <1>1, <1>2
    <2> QED BY <1>1, <1>2, <1>3, <1>4, <2>1
  <1>7. b < a + k + 1
    BY <1>1, <1>2, <1>6, MultiplesCompare
  <1>8. m * b <= m * (a + k)
    BY <1>1, <1>2, <1>7, MultiplesOrdered
  <1>9. m * (a + k) = m * a + m * k
    BY <1>1, <1>2
  <1> QED BY <1>1, <1>2, <1>3, <1>5, <1>8, <1>9


-----------------------------------------------------------------------------
LEMMA InitTypes == Init => TypeOK
  <1> SUFFICES ASSUME Init PROVE TypeOK
    OBVIOUS
  <1>1. tracker \in LineageState
    BY ConvergenceAssumption DEF Init, LineageState, EmptyLineage
  <1>2. pub \in Publisher /\ fetch \in Fetch
    BY DEF Init, Publisher, Fetch
  <1>3. pending \in BOOLEAN /\ calm \in BOOLEAN
    BY Zenon DEF Init
  <1>4. /\ now \in Nat /\ shift \in Int /\ lastPoll \in Nat /\ asked \in Int
        /\ lastFetch \in Int \cup {NoInstant}
        /\ heldFrom \in Principals \cup {NoPrincipal}
        /\ hinted \in Document \cup {NoDocument}
        /\ used \subseteq Epochs
    BY DEF Init
  <1> QED BY <1>1, <1>2, <1>3, <1>4 DEF TypeOK

(* An answered refetch carries a document and a principal. *)
LEMMA FetchCases ==
  ASSUME TypeOK
  PROVE  /\ fetch # Idle => fetch.at \in Int /\ fetch.since \in Nat
         /\ fetch.phase = "answered" =>
              /\ fetch # Idle
              /\ fetch.doc \in Document
              /\ fetch.principal \in Principals \cup {NoPrincipal}
         /\ fetch.phase = "asked" => fetch # Idle
  BY DEF TypeOK, Fetch, Idle

LEMMA PublisherCases ==
  ASSUME TypeOK
  PROVE  /\ pub.doc \in Document \cup {NoDocument}
         /\ pub.up => pub \in [up : {TRUE}, doc : Document \cup {NoDocument},
                               epoch : Epochs, next : Nat, renewed : Nat]
  <1>1. CASE pub = Down
    BY <1>1 DEF Down
  <1>2. CASE pub # Down
    BY <1>2 DEF TypeOK, Publisher
  <1> QED BY <1>1, <1>2

(* The document an issue puts up. *)
LEMMA IssueTypes ==
  ASSUME TypeOK, Issue
  PROVE  pub' \in Publisher
  <1> DEFINE h == [node |-> Self, boot |-> pub.epoch, seq |-> pub.next,
                   issued |-> now, expires |-> now + Lease, body |-> NoBody]
  <1>1. pub \in [up : {TRUE}, doc : Document \cup {NoDocument},
                 epoch : Epochs, next : Nat, renewed : Nat]
    BY PublisherCases DEF Issue
  <1>2. Lease \in Int
    <2>1. Lease \in MsTicks..MaxLease
      BY ConvergenceAssumption
    <2> QED BY <2>1
  <1>3. h \in Heartbeat
    BY <1>1, <1>2, ConvergenceAssumption, CoreAssumption DEF Heartbeat, TypeOK
  <1>4. ToDict(h) \in Document
    BY <1>3, ToDictType
  <1>5. pub' = [pub EXCEPT !.next = @ + 1, !.renewed = now, !.doc = ToDict(h)]
    BY DEF Issue
  <1> HIDE DEF h
  <1>6. pub' = [up |-> TRUE, doc |-> ToDict(h), epoch |-> pub.epoch,
                next |-> pub.next + 1, renewed |-> now]
    BY <1>1, <1>5
  <1>7. /\ ToDict(h) \in Document \cup {NoDocument}
        /\ pub.epoch \in Epochs /\ pub.next + 1 \in Nat /\ now \in Nat
    BY <1>1, <1>4 DEF TypeOK
  <1> QED BY <1>6, <1>7 DEF Publisher

LEMMA HintTypes ==
  ASSUME TypeOK, NEW h \in Hints
  PROVE  h \in Document \cup {NoDocument}
  <1>1. Held # NoHeartbeat => Held \in Heartbeat
    BY DEF TypeOK, Held, LineageState
  <1>2. Held # NoHeartbeat => ToDict(Held) \in Document
    BY <1>1, ToDictType
  <1> QED BY <1>2, PublisherCases DEF Hints

LEMMA FetchEndsTypes ==
  ASSUME TypeOK, FetchEnds
  PROVE  TypeOK'
  <1>1. /\ fetch.at \in Int
        /\ fetch.doc \in Document
        /\ fetch.principal \in Principals \cup {NoPrincipal}
    BY FetchCases DEF FetchEnds
  <1>2. Admit(tracker, fetch.doc, fetch.at).state \in LineageState
    BY <1>1, AdmitMoves DEF TypeOK
  <1>3. tracker' \in LineageState
    BY <1>2 DEF FetchEnds, TypeOK
  <1>4. calm' \in BOOLEAN
    BY DEF FetchEnds
  <1>5. hinted' \in Document \cup {NoDocument}
    BY DEF FetchEnds, TypeOK
  <1>6. heldFrom' \in Principals \cup {NoPrincipal}
    BY <1>1 DEF FetchEnds, TypeOK
  <1>7. /\ fetch' = Idle /\ lastPoll' = now /\ lastFetch' = fetch.at
        /\ UNCHANGED <<clocks, publisher, pending, asked>>
    BY DEF FetchEnds
  <1> QED BY <1>1, <1>3, <1>4, <1>5, <1>6, <1>7
      DEF TypeOK, clocks, publisher, Fetch

LEMMA NextTypes ==
  ASSUME TypeOK, [Next]_vars
  PROVE  TypeOK'
  <1> USE DEF clocks, publisher, consumer, history
  <1>1. ASSUME NEW e \in Epochs, Start(e)
        PROVE  TypeOK'
    <2>1. pub' \in Publisher
      BY <1>1 DEF Start, Publisher, TypeOK
    <2> QED BY <1>1, <2>1 DEF Start, TypeOK
  <1>2. CASE Issue
    <2>1. pub' \in Publisher
      BY <1>2, IssueTypes
    <2> QED BY <1>2, <2>1 DEF Issue, TypeOK
  <1>3. CASE Crash
    BY <1>3 DEF Crash, TypeOK, Publisher
  <1>4. ASSUME NEW h \in Hints, OnHint(h)
        PROVE  TypeOK'
    <2>1. hinted' \in Document \cup {NoDocument}
      BY <1>4, HintTypes DEF OnHint, TypeOK
    <2>2. pending' \in BOOLEAN
      BY <1>4 DEF OnHint
    <2> QED BY <1>4, <2>1, <2>2 DEF OnHint, TypeOK
  <1>5. CASE Poll
    <2>1. Wall \in Int
      BY DEF Wall, TypeOK
    <2>2. CASE Due(Wall)
      <3>1. fetch' = [phase |-> "asked", at |-> Wall, since |-> now]
        BY <1>5, <2>2 DEF Poll
      <3>2. fetch' \in Fetch
        BY <2>1, <3>1 DEF Fetch, TypeOK
      <3> QED BY <1>5, <2>1, <2>2, <3>2 DEF Poll, TypeOK
    <2>3. CASE ~Due(Wall)
      BY <1>5, <2>3 DEF Poll, TypeOK
    <2> QED BY <2>2, <2>3
  <1>6. ASSUME NEW pr \in Answering, Answer(pr)
        PROVE  TypeOK'
    <2>1. pr \in Principals \cup {NoPrincipal}
      BY <1>6, ConvergenceAssumption
    <2>2. pub.doc \in Document /\ fetch.at \in Int /\ fetch.since \in Nat
      BY <1>6, PublisherCases, FetchCases DEF Answer
    <2>3. fetch' \in Fetch
      BY <1>6, <2>1, <2>2 DEF Answer, Fetch
    <2> QED BY <1>6, <2>3 DEF Answer, TypeOK
  <1>7. CASE FetchFails
    BY <1>7 DEF FetchFails, TypeOK, Fetch
  <1>8. CASE FetchEnds
    BY <1>8, FetchEndsTypes
  <1>9. CASE Tick
    BY <1>9 DEF Tick, TypeOK
  <1>10. ASSUME NEW s \in Steps, StepClock(s)
         PROVE  TypeOK'
    <2>1. s \in Int
      BY <1>10, ConvergenceAssumption
    <2> QED BY <1>10, <2>1 DEF StepClock, TypeOK
  <1>11. CASE UNCHANGED vars
    BY <1>11 DEF vars, TypeOK
  <1> QED BY <1>1, <1>2, <1>3, <1>4, <1>5, <1>6, <1>7, <1>8, <1>9, <1>10,
             <1>11 DEF Next

(* Every variable of publisher, consumer and clocks keeps its type.        *)
THEOREM TypeCorrect == Spec => []TypeOK
  <1> QED BY InitTypes, NextTypes, PTL DEF Spec

-----------------------------------------------------------------------------
(* The identity gate *)

LEMMA NextBound ==
  ASSUME TypeOK, HeldIsBound, [Next]_vars
  PROVE  HeldIsBound'
  <1> USE DEF clocks, publisher, consumer, history, Held
  <1>1. CASE FetchEnds
    <2> DEFINE a == Admit(tracker, fetch.doc, fetch.at)
    <2>1. CASE MayMoveHeldState(fetch.principal) /\ a.outcome = "accepted"
      <3>1. heldFrom' = fetch.principal
        BY <1>1, <2>1 DEF FetchEnds
      <3>2. HasBinder => fetch.principal \in Permitted
        BY <2>1 DEF MayMoveHeldState, Binding
      <3> QED BY <3>1, <3>2 DEF HeldIsBound
    <2>2. CASE ~(MayMoveHeldState(fetch.principal) /\ a.outcome = "accepted")
      <3>1. heldFrom' = heldFrom
        BY <1>1, <2>2 DEF FetchEnds
      <3>2. fetch.doc \in Document /\ tracker \in LineageState
        BY <1>1, FetchCases DEF FetchEnds, TypeOK
      <3>3. tracker' = tracker
        BY <1>1, <2>2, <3>2, AdmitMoves DEF FetchEnds
      <3> QED BY <3>1, <3>3 DEF HeldIsBound
    <2> QED BY <2>1, <2>2
  <1>2. CASE UNCHANGED <<tracker, heldFrom>>
    BY <1>2 DEF HeldIsBound
  <1>3. \/ FetchEnds
        \/ UNCHANGED <<tracker, heldFrom>>
    BY DEF Next, vars, Start, Issue, Crash, OnHint, Poll, Answer, FetchFails,
           Tick, StepClock
  <1> QED BY <1>1, <1>2, <1>3

(* Whoever answers a consumer that has a binder, and in whatever order,    *)
(* what it holds came in an answer of a permitted principal.               *)
THEOREM OnlyPermittedMoves == Spec => []HeldIsBound
  <1>1. Init => HeldIsBound
    BY DEF Init, HeldIsBound, Held, EmptyLineage
  <1>2. TypeOK /\ HeldIsBound /\ [Next]_vars => HeldIsBound'
    BY NextBound
  <1> QED BY <1>1, <1>2, TypeCorrect, PTL DEF Spec

-----------------------------------------------------------------------------
(* Asking in time *)

LEMMA InitTiming == Init => Paced /\ NoneDueSince
  BY ConvergenceAssumption
  DEF Init, Paced, NoneDueSince, Held, EmptyLineage, Idle

LEMMA Bounds ==
  /\ PollGap \in Nat \ {0}
  /\ Latency \in Nat \ {0}
  BY ConvergenceAssumption

(* The steps that neither ask, nor end a refetch, nor take time.           *)
LEMMA AsideKeepsTiming ==
  ASSUME TypeOK, Paced, NoneDueSince,
         UNCHANGED <<now, shift, tracker, lastFetch, fetch, lastPoll, asked>>
  PROVE  Paced' /\ NoneDueSince'
  BY DEF Paced, NoneDueSince, DeadlinePassed, Held

LEMMA PollKeepsTiming ==
  ASSUME TypeOK, Paced, NoneDueSince, Poll
  PROVE  Paced' /\ NoneDueSince'
  <1> USE DEF clocks, publisher, consumer, history
  <1>1. Wall = now /\ fetch = Idle /\ now \in Nat
    BY DEF Paced, Poll, Wall, TypeOK
  <1>2. CASE Due(now)
    <2>1. /\ fetch' = [phase |-> "asked", at |-> now, since |-> now]
          /\ asked' = now /\ lastPoll' = now
          /\ UNCHANGED <<now, shift, tracker, lastFetch>>
      BY <1>1, <1>2 DEF Poll
    <2>2. fetch' # Idle
      BY <2>1 DEF Idle
    <2>3. lastFetch # NoInstant => lastFetch <= now
      BY <1>1, ConvergenceAssumption DEF Paced, TypeOK
    <2> QED BY <1>1, <2>1, <2>2, <2>3, Bounds DEF Paced, NoneDueSince, Held
  <1>3. CASE ~Due(now)
    <2>1. /\ lastPoll' = now
          /\ UNCHANGED <<fetch, asked, now, shift, tracker, lastFetch>>
      BY <1>1, <1>3 DEF Poll
    <2>2. ~DeadlinePassed(now)
      BY <1>3 DEF Due
    <2>3. NoneDueSince'
      BY <2>1, <2>2 DEF NoneDueSince, DeadlinePassed, Held
    <2> QED BY <1>1, <2>1, <2>3, Bounds DEF Paced, Held
  <1> QED BY <1>2, <1>3

LEMMA EndKeepsTiming ==
  ASSUME TypeOK, Paced, NoneDueSince, FetchFails \/ FetchEnds
  PROVE  Paced' /\ NoneDueSince'
  <1> USE DEF clocks, publisher, consumer, history
  <1>1. /\ fetch # Idle /\ fetch' = Idle /\ lastPoll' = now
        /\ UNCHANGED <<now, shift, asked>>
    BY FetchCases DEF FetchFails, FetchEnds
  <1>2. /\ fetch.at = asked /\ now - asked <= Latency
        /\ now \in Nat /\ asked \in Int
    BY <1>1 DEF Paced, TypeOK
  <1>3. NoneDueSince'
    BY <1>1, <1>2, Bounds DEF NoneDueSince
  <1>4. lastFetch' # NoInstant => lastFetch' <= asked
    BY <1>2 DEF FetchFails, FetchEnds, Paced
  <1>5. Held' # NoHeartbeat => lastFetch' # NoInstant
    <2>1. CASE FetchEnds
      BY <1>2, <2>1, ConvergenceAssumption DEF FetchEnds
    <2>2. CASE FetchFails
      BY <2>2 DEF FetchFails, Paced, Held
    <2> QED BY <2>1, <2>2
  <1> QED BY <1>1, <1>2, <1>3, <1>4, <1>5, Bounds DEF Paced

LEMMA TickKeepsTiming ==
  ASSUME TypeOK, Paced, NoneDueSince, Tick
  PROVE  Paced' /\ NoneDueSince'
  <1> USE DEF clocks, publisher, consumer, history
  <1>1. /\ now' = now + 1 /\ now \in Nat /\ asked \in Int /\ lastPoll \in Nat
        /\ UNCHANGED <<shift, tracker, lastFetch, fetch, lastPoll, asked>>
    BY DEF Tick, TypeOK
  <1>2. NoneDueSince'
    BY <1>1 DEF NoneDueSince, DeadlinePassed, Held
  <1>3. fetch # Idle => now + 1 - asked <= Latency
    BY <1>1, Bounds DEF Tick, InTime, Paced
  <1>4. fetch = Idle => now + 1 - lastPoll <= PollGap
    BY <1>1, Bounds DEF Tick, InTime
  <1> QED BY <1>1, <1>2, <1>3, <1>4 DEF Paced, Held

LEMMA NextTiming ==
  ASSUME Steps = {}, TypeOK, Paced, NoneDueSince, [Next]_vars
  PROVE  Paced' /\ NoneDueSince'
  <1>1. ASSUME NEW pr \in Answering, Answer(pr)
        PROVE  Paced' /\ NoneDueSince'
    <2>1. /\ fetch # Idle /\ fetch' # Idle
          /\ fetch'.at = fetch.at /\ fetch'.since = fetch.since
          /\ UNCHANGED <<now, shift, tracker, lastFetch, lastPoll, asked>>
      BY <1>1, FetchCases DEF Answer, Idle, clocks, history
    <2> QED BY <2>1 DEF Paced, NoneDueSince, Held
  <1>2. CASE UNCHANGED <<now, shift, tracker, lastFetch, fetch, lastPoll, asked>>
    BY <1>2, AsideKeepsTiming
  <1>3. CASE Poll
    BY <1>3, PollKeepsTiming
  <1>4. CASE FetchFails \/ FetchEnds
    BY <1>4, EndKeepsTiming
  <1>5. CASE Tick
    BY <1>5, TickKeepsTiming
  <1>6. \/ \E pr \in Answering : Answer(pr)
        \/ UNCHANGED <<now, shift, tracker, lastFetch, fetch, lastPoll, asked>>
        \/ Poll \/ FetchFails \/ FetchEnds \/ Tick
    BY DEF Next, vars, Start, Issue, Crash, OnHint, clocks, publisher,
           consumer, history
  <1> QED BY <1>1, <1>2, <1>3, <1>4, <1>5, <1>6

LEMMA TimingSuffices ==
  ASSUME IInv
  PROVE  AskedBeforeExpiry
  <1> SUFFICES ASSUME Held # NoHeartbeat, now >= Held.expires
               PROVE  asked >= Held.expires - LastTicks
    BY DEF IInv, TypeOK, Paced, AskedBeforeExpiry, Wall
  <1>1. /\ now \in Nat /\ asked \in Int /\ lastPoll \in Nat
        /\ lastFetch \in Int /\ lastFetch <= asked
        /\ Held.expires \in Int
    BY DEF IInv, TypeOK, Paced, Held, LineageState, Heartbeat
  <1>2. /\ LastTicks \in Int
        /\ LastTicks >= PollGap + Latency
        /\ LastTicks >= 2 * PollGap - 1
    BY Bounds DEF LastTicks
  <1>3. CASE fetch # Idle
    BY <1>1, <1>2, <1>3, Bounds DEF IInv, Paced
  <1>4. CASE fetch = Idle
    <2>1. now - lastPoll <= PollGap
      BY <1>4 DEF IInv, Paced
    <2>2. CASE lastPoll <= asked + Latency
      BY <1>1, <1>2, <2>1, <2>2, Bounds
    <2>3. CASE ~DeadlinePassed(lastPoll)
      <3>1. \/ lastPoll < lastFetch
            \/ 2 * (lastPoll - lastFetch) < Held.expires - lastFetch
        BY <1>1, <2>3 DEF DeadlinePassed
      <3> QED BY <1>1, <1>2, <2>1, <3>1, Bounds
    <2>4. lastPoll <= asked + Latency \/ ~DeadlinePassed(lastPoll)
      BY <1>4 DEF IInv, NoneDueSince
    <2> QED BY <2>2, <2>3, <2>4
  <1> QED BY <1>3, <1>4

(* On a host whose wall clock is not stepped no lease runs out unasked,    *)
(* whatever hints are lost and whatever reads fail or are refused.         *)
THEOREM NeverUnasked ==
  ASSUME Steps = {}
  PROVE  Spec => []AskedBeforeExpiry
  <1>1. Init => IInv
    BY InitTypes, InitTiming DEF IInv
  <1>2. IInv /\ [Next]_vars => IInv'
    BY NextTypes, NextTiming DEF IInv
  <1>3. IInv => AskedBeforeExpiry
    BY TimingSuffices
  <1> QED BY <1>1, <1>2, <1>3, PTL DEF Spec

-------------------------------------------------------------------------------
(* What follows what: the documents of one epoch in the publisher, in an   *)
(* answer under way and in the consumer                                    *)

(* Structure and instants of a document as its publisher writes it.        *)
LEMMA BeatFacts ==
  ASSUME NEW e \in Epochs, NEW n \in Nat, NEW t \in Nat
  PROVE  LET d == Beat(e, n, t) IN
         /\ d \in Document
         /\ d.node = Self /\ d.boot = e /\ d.seq = n
         /\ d.issued \in Int /\ d.expires \in Int
         /\ d.issued <= t /\ t < d.issued + MsTicks
         /\ t + Lease < d.expires + MsTicks
         /\ DocumentReason(d) = "none" /\ ~FromDictRaises(d)
  <1> DEFINE h == [node |-> Self, boot |-> e, seq |-> n, issued |-> t,
                   expires |-> t + Lease, body |-> NoBody]
             d == Beat(e, n, t)
  <1>1. /\ Lease \in MsTicks..MaxLease /\ MsTicks \in Nat \ {0}
        /\ MaxLease \in Nat /\ Self \in Participants /\ NoBody \in Bodies
        /\ Null \notin Int
    BY ConvergenceAssumption, CoreAssumption
  <1>2. h \in Heartbeat
    BY <1>1 DEF Heartbeat
  <1>3. d \in Document
    BY <1>2, ToDictType DEF Beat
  <1>4. /\ d.node = Self /\ d.boot = e /\ d.seq = n /\ d.version = "0.1"
        /\ d.wellFormed = TRUE
        /\ d.issued = Truncate(t) /\ d.expires = Truncate(t + Lease)
    BY DEF Beat, ToDict
  <1> HIDE DEF h, d
  <1>5. Truncate(t) \in Int /\ Truncate(t + Lease) \in Int
    BY <1>1, TruncateType
  <1>6. /\ Truncate(t) <= t /\ t < Truncate(t) + MsTicks
        /\ t + Lease < Truncate(t + Lease) + MsTicks
    BY <1>1, TruncateBounds
  <1>7. d.expires - d.issued > 0 /\ d.expires - d.issued <= MaxLease
    BY <1>1, <1>4, TruncatedLease
  <1>8. ~FromDictRaises(d)
    BY <1>1, <1>4, <1>5 DEF FromDictRaises
  <1>9. ExpiryWindowViolation(d) = "none"
    BY <1>1, <1>4, <1>5, <1>7, <1>8 DEF ExpiryWindowViolation
  <1>10. DocumentReason(d) = "none"
    BY <1>4, <1>9 DEF DocumentReason
  <1> QED BY <1>3, <1>4, <1>5, <1>6, <1>8, <1>10 DEF d

LEMMA AdmitCases ==
  ASSUME NEW s \in LineageState, NEW d \in Document, NEW t
  PROVE  LET a == Admit(s, d, t) IN
         \/ /\ a.outcome = "accepted" /\ Verdict(s, d, t) = "accepted"
            /\ a.state.participant = s.participant
            /\ a.state.held = FromDict(d)
            /\ a.state.held # NoHeartbeat
            /\ a.state.retired = s.retired \cup {d.boot}
         \/ a.outcome # "accepted" /\ a.state = s
  <1>1. CASE Verdict(s, d, t) = "accepted"
    <2>1. FromDict(d) \in Heartbeat
      BY <1>1, AcceptedPassed, FromDictType
    <2>2. FromDict(d).boot = d.boot
      BY DEF FromDict
    <2> QED BY <1>1, <2>1, <2>2, ConvergenceAssumption
            DEF Admit, Accept, LineageState
  <1>2. CASE Verdict(s, d, t) # "accepted"
    BY <1>2 DEF Admit
  <1> QED BY <1>1, <1>2

(* The document the publisher has up. *)
LEMMA ServedFacts ==
  ASSUME TypeOK, Serving, pub.doc # NoDocument
  PROVE  /\ pub.up /\ pub.epoch \in Epochs /\ pub.next \in Nat \ {0}
         /\ pub.doc \in Document
         /\ pub.doc.boot = pub.epoch /\ pub.doc.seq = pub.next - 1
  <1>1. /\ pub.up /\ pub.next # 0
        /\ pub.doc = Beat(pub.epoch, pub.next - 1, pub.renewed)
    BY DEF Serving
  <1>2. pub.epoch \in Epochs /\ pub.next \in Nat /\ pub.renewed \in Nat
    BY <1>1, PublisherCases
  <1>3. pub.next - 1 \in Nat
    BY <1>1, <1>2
  <1> QED BY <1>1, <1>2, <1>3, BeatFacts

(* The document an issue puts up comes after the one it replaces.          *)
LEMMA IssueFacts ==
  ASSUME TypeOK, Issue
  PROVE  /\ pub.up /\ pub'.up /\ pub'.epoch = pub.epoch /\ pub.next \in Nat
         /\ pub'.next = pub.next + 1 /\ pub'.renewed = now
         /\ pub'.doc = Beat(pub.epoch, pub.next, now)
         /\ pub'.doc \in Document /\ pub'.doc # NoDocument
         /\ pub'.doc.boot = pub.epoch /\ pub'.doc.seq = pub.next
         /\ UNCHANGED <<clocks, used, consumer, history>>
  <1>1. /\ pub.up
        /\ pub \in [up : {TRUE}, doc : Document \cup {NoDocument},
                    epoch : Epochs, next : Nat, renewed : Nat]
    BY PublisherCases DEF Issue
  <1>2. pub' = [pub EXCEPT !.next = @ + 1, !.renewed = now,
                           !.doc = Beat(pub.epoch, pub.next, now)]
    BY DEF Issue, Beat
  <1>3. /\ Beat(pub.epoch, pub.next, now) \in Document
        /\ Beat(pub.epoch, pub.next, now).boot = pub.epoch
        /\ Beat(pub.epoch, pub.next, now).seq = pub.next
    BY <1>1, BeatFacts DEF TypeOK
  <1>4. pub'.doc = Beat(pub.epoch, pub.next, now)
    BY <1>1, <1>2
  <1> QED BY <1>1, <1>2, <1>3, <1>4, ConvergenceAssumption DEF Issue

LEMMA ServingKept ==
  ASSUME TypeOK, Serving, [Next]_vars
  PROVE  Serving'
  <1> USE DEF clocks, publisher, consumer, history
  <1>1. ASSUME NEW e \in Epochs, Start(e) PROVE Serving'
    <2>1. /\ pub' = [up |-> TRUE, doc |-> NoDocument, epoch |-> e,
                     next |-> 0, renewed |-> now]
          /\ used' = used \cup {e} /\ UNCHANGED <<now, tracker>>
      BY <1>1 DEF Start
    <2> QED BY <2>1, ConvergenceAssumption DEF Serving, TypeOK
  <1>2. CASE Issue
    BY <1>2, IssueFacts, ConvergenceAssumption DEF Serving, TypeOK
  <1>3. CASE Crash
    BY <1>3 DEF Crash, Down, Serving
  <1>4. CASE Tick
    <2>1. /\ now' = now + 1 /\ now \in Nat /\ UNCHANGED <<pub, used, tracker>>
          /\ pub.up => now - pub.renewed < RenewGap
      BY <1>4 DEF Tick, InTime, TypeOK
    <2>2. RenewGap \in Nat /\ (pub.up => pub.renewed \in Nat)
      BY PublisherCases, ConvergenceAssumption
    <2>3. pub.up => pub.renewed <= now'
                    /\ now' - pub.renewed <= RenewGap
      BY <2>1, <2>2 DEF Serving
    <2> QED BY <2>1, <2>3 DEF Serving
  <1>5. CASE FetchEnds
    <2>1. fetch.doc \in Document /\ tracker \in LineageState
      BY <1>5, FetchCases DEF FetchEnds, TypeOK
    <2>2. tracker'.participant = tracker.participant
      BY <1>5, <2>1, AdmitCases DEF FetchEnds
    <2> QED BY <1>5, <2>2 DEF FetchEnds, Serving
  <1>6. CASE UNCHANGED <<now, publisher, tracker>>
    BY <1>6 DEF Serving
  <1>7. \/ \E e \in Epochs : Start(e)
        \/ Issue \/ Crash \/ Tick \/ FetchEnds
        \/ UNCHANGED <<now, publisher, tracker>>
    BY DEF Next, vars, OnHint, Poll, Answer, FetchFails, StepClock
  <1> QED BY <1>1, <1>2, <1>3, <1>4, <1>5, <1>6, <1>7

(* The instant an answer's document was issued at. *)
LEMMA AnswerFacts ==
  ASSUME TypeOK, Serving, AnswerInOrder, fetch.phase = "answered"
  PROVE  /\ fetch.at \in Int /\ fetch.doc \in Document
         /\ fetch.doc.boot \in used /\ fetch.doc.seq \in Nat
         /\ fetch.doc.node = Self
         /\ DocumentReason(fetch.doc) = "none" /\ ~FromDictRaises(fetch.doc)
         /\ \E t \in 0..now :
              /\ fetch.at - t <= RenewGap
              /\ fetch.doc.issued \in Int /\ fetch.doc.expires \in Int
              /\ fetch.doc.issued <= t /\ t < fetch.doc.issued + MsTicks
              /\ t + Lease < fetch.doc.expires + MsTicks
  <1>1. Written(fetch.doc, fetch.at)
    BY DEF AnswerInOrder
  <1>2. PICK t \in 0..now :
          /\ fetch.at - t <= RenewGap
          /\ fetch.doc = Beat(fetch.doc.boot, fetch.doc.seq, t)
    BY <1>1 DEF Written
  <1>3. /\ fetch.doc.boot \in used /\ fetch.doc.boot \in Epochs
        /\ fetch.doc.seq \in Nat /\ t \in Nat
    BY <1>1 DEF Written, TypeOK
  <1> QED BY <1>2, <1>3, BeatFacts, FetchCases

LEMMA HeldFacts ==
  ASSUME TypeOK, Held # NoHeartbeat
  PROVE  Held \in Heartbeat /\ FromDict(Held) = Held
  <1>1. Held \in Heartbeat
    BY DEF TypeOK, Held, LineageState
  <1> QED BY <1>1 DEF Heartbeat, FromDict

LEMMA HeldInOrderKept ==
  ASSUME TypeOK, Serving, HeldInOrder, AnswerInOrder, [Next]_vars
  PROVE  HeldInOrder'
  <1> USE DEF clocks, publisher, consumer, history
  <1>1. ASSUME NEW e \in Epochs, Start(e) PROVE HeldInOrder'
    <2>1. /\ pub' = [up |-> TRUE, doc |-> NoDocument, epoch |-> e,
                     next |-> 0, renewed |-> now]
          /\ used' = used \cup {e} /\ e \notin used /\ UNCHANGED tracker
      BY <1>1 DEF Start
    <2>2. e \notin tracker.retired /\ (Held # NoHeartbeat => Held.boot # e)
      BY <2>1 DEF HeldInOrder
    <2> QED BY <2>1, <2>2 DEF HeldInOrder, Held
  <1>2. CASE Issue
    <2>1. /\ pub'.epoch = pub.epoch /\ pub.up /\ pub.next \in Nat
          /\ pub'.doc # NoDocument /\ pub'.doc.seq = pub.next
          /\ UNCHANGED <<used, tracker>>
      BY <1>2, IssueFacts
    <2>2. ASSUME Held # NoHeartbeat, Held.boot = pub.epoch
          PROVE  Follows(pub'.doc, Held)
      <3>1. pub.doc # NoDocument /\ Held.seq <= pub.doc.seq /\ Held.seq \in Nat
        BY <2>1, <2>2 DEF HeldInOrder, Follows
      <3>2. pub.doc.seq = pub.next - 1
        BY <3>1, ServedFacts
      <3> QED BY <2>1, <3>1, <3>2 DEF Follows
    <2> QED BY <2>1, <2>2 DEF HeldInOrder, Held
  <1>3. CASE Crash
    BY <1>3 DEF Crash, Down, HeldInOrder, Held
  <1>4. CASE FetchEnds
    <2> DEFINE a == Admit(tracker, fetch.doc, fetch.at)
    <2>1. /\ fetch.doc \in Document /\ tracker \in LineageState
          /\ fetch.doc.boot \in used /\ fetch.doc.seq \in Nat
          /\ fetch.phase = "answered"
          /\ UNCHANGED <<pub, used>>
      BY <1>4, AnswerFacts DEF FetchEnds, TypeOK
    <2>2. CASE tracker' = tracker
      BY <2>1, <2>2 DEF HeldInOrder, Held
    <2>3. CASE tracker' # tracker
      <3>1. /\ Held' = FromDict(fetch.doc) /\ Held' # NoHeartbeat
            /\ tracker'.retired = tracker.retired \cup {fetch.doc.boot}
        BY <1>4, <2>1, <2>3, AdmitCases DEF FetchEnds, Held
      <3>2. /\ Held'.boot = fetch.doc.boot /\ Held'.seq = fetch.doc.seq
            /\ FromDict(Held') = FromDict(fetch.doc)
        BY <3>1 DEF FromDict
      <3>3. pub.up => IF fetch.doc.boot = pub.epoch
                      THEN pub.doc # NoDocument /\ Follows(pub.doc, Held')
                      ELSE pub.epoch \notin tracker.retired
        BY <2>1, <3>2 DEF AnswerInOrder, Follows
      <3> QED BY <2>1, <3>1, <3>2, <3>3 DEF HeldInOrder
    <2> QED BY <2>2, <2>3
  <1>5. CASE UNCHANGED <<publisher, tracker>>
    BY <1>5 DEF HeldInOrder, Held
  <1>6. \/ \E e \in Epochs : Start(e)
        \/ Issue \/ Crash \/ FetchEnds
        \/ UNCHANGED <<publisher, tracker>>
    BY DEF Next, vars, OnHint, Poll, Answer, FetchFails, Tick, StepClock
  <1> QED BY <1>1, <1>2, <1>3, <1>4, <1>5, <1>6

LEMMA AnswerInOrderKept ==
  ASSUME TypeOK, Paced, Serving, HeldInOrder, AnswerInOrder, [Next]_vars
  PROVE  AnswerInOrder'
  <1> USE DEF clocks, publisher, consumer, history
  <1>1. ASSUME NEW e \in Epochs, Start(e) PROVE AnswerInOrder'
    <2>1. /\ pub' = [up |-> TRUE, doc |-> NoDocument, epoch |-> e,
                     next |-> 0, renewed |-> now]
          /\ used' = used \cup {e} /\ e \notin used
          /\ UNCHANGED <<now, tracker, fetch>>
      BY <1>1 DEF Start
    <2>2. e \notin tracker.retired
      BY <2>1 DEF HeldInOrder
    <2>3. Written(fetch.doc, fetch.at) => fetch.doc.boot # e
                                          /\ Written(fetch.doc, fetch.at)'
      BY <2>1 DEF Written
    <2> QED BY <2>1, <2>2, <2>3 DEF AnswerInOrder, Held
  <1>2. CASE Issue
    <2>1. /\ pub'.epoch = pub.epoch /\ pub.up /\ pub.next \in Nat
          /\ pub'.doc # NoDocument /\ pub'.doc.seq = pub.next
          /\ UNCHANGED <<used, now, tracker, fetch>>
      BY <1>2, IssueFacts
    <2>2. ASSUME fetch.phase = "answered", fetch.doc.boot = pub.epoch
          PROVE  Follows(pub'.doc, fetch.doc)
      <3>1. /\ pub.doc # NoDocument /\ fetch.doc.seq <= pub.doc.seq
            /\ fetch.doc.seq \in Nat
        BY <2>1, <2>2, AnswerFacts DEF AnswerInOrder, Follows
      <3>2. pub.doc.seq = pub.next - 1
        BY <3>1, ServedFacts
      <3> QED BY <2>1, <3>1, <3>2 DEF Follows
    <2> QED BY <2>1, <2>2 DEF AnswerInOrder, Held, Written
  <1>3. CASE Crash
    BY <1>3 DEF Crash, Down, AnswerInOrder, Held, Written
  <1>4. ASSUME NEW pr \in Answering, Answer(pr) PROVE AnswerInOrder'
    <2>1. /\ pub.doc # NoDocument /\ fetch'.doc = pub.doc
          /\ fetch'.at = fetch.at /\ fetch.phase = "asked"
          /\ UNCHANGED <<now, pub, used, tracker>>
      BY <1>4 DEF Answer
    <2>2. /\ pub.up /\ pub.epoch \in used /\ pub.next \in Nat \ {0}
          /\ pub.doc.boot = pub.epoch /\ pub.doc.seq = pub.next - 1
          /\ pub.doc = Beat(pub.epoch, pub.next - 1, pub.renewed)
          /\ pub.renewed \in 0..now /\ now - pub.renewed <= RenewGap
      <3>1. pub.up /\ pub.renewed \in Nat
        BY <2>1, ServedFacts, PublisherCases
      <3>2. pub.epoch \in used /\ now \in Nat
            /\ pub.renewed <= now /\ now - pub.renewed <= RenewGap
        BY <3>1 DEF Serving, TypeOK
      <3>3. pub.renewed \in 0..now
        BY <3>1, <3>2
      <3> QED BY <2>1, <3>1, <3>2, <3>3, ServedFacts DEF Serving
    <2>3. fetch.at <= now /\ fetch.at \in Int /\ now \in Nat
      BY <2>1, FetchCases DEF Paced, TypeOK
    <2>4. Written(pub.doc, fetch.at)
      <3>1. fetch.at - pub.renewed <= RenewGap
        BY <2>2, <2>3, ConvergenceAssumption
      <3> QED BY <2>2, <3>1 DEF Written
    <2>5. Follows(pub.doc, pub.doc)
      BY <2>2 DEF Follows
    <2>6. IF Held # NoHeartbeat /\ Held.boot = pub.epoch
          THEN Follows(pub.doc, Held) ELSE pub.epoch \notin tracker.retired
      BY <2>2 DEF HeldInOrder
    <2> QED BY <2>1, <2>2, <2>4, <2>5, <2>6 DEF AnswerInOrder, Held, Written
  <1>5. CASE fetch'.phase # "answered"
    BY <1>5 DEF AnswerInOrder
  <1>6. CASE Tick
    <2>1. \A d, at : Written(d, at) => Written(d, at)'
      BY <1>6 DEF Tick, Written, TypeOK
    <2> QED BY <1>6, <2>1 DEF Tick, AnswerInOrder, Held
  <1>7. CASE UNCHANGED <<now, publisher, tracker, fetch>>
    BY <1>7 DEF AnswerInOrder, Held, Written
  <1>8. \/ \E e \in Epochs : Start(e)
        \/ \E pr \in Answering : Answer(pr)
        \/ Issue \/ Crash \/ Tick \/ fetch'.phase # "answered"
        \/ UNCHANGED <<now, publisher, tracker, fetch>>
    BY DEF Next, vars, OnHint, Poll, FetchFails, FetchEnds, StepClock, Idle
  <1> QED BY <1>1, <1>2, <1>3, <1>4, <1>5, <1>6, <1>7, <1>8

(* A host that is not stepped, and a skew bound that covers the age of the *)
(* document served and the time a read may take.                           *)
SkewCovers ==
  /\ Steps = {}
  /\ RenewGap + MsTicks <= MaxSkew + 1 /\ Latency <= MaxSkew
  /\ RenewGap + MsTicks <= Lease

(* Half of what is left of the lease covers the loop and the read.         *)
LeaseOutlasts ==
  RenewGap + MsTicks - 1 + 2 * (PollGap + Latency) <= Lease

LEMMA Settings ==
  /\ {PollGap, Latency, RenewGap, MsTicks} \subseteq Nat \ {0}
  /\ MaxSkew \in Nat /\ Lease \in Int
  <1>1. Lease \in MsTicks..MaxLease /\ MsTicks \in Nat \ {0} /\ MaxLease \in Nat
        /\ MaxSkew \in Nat
    BY ConvergenceAssumption, CoreAssumption
  <1> QED BY <1>1, ConvergenceAssumption

(* An answer of the publisher itself is admitted, or is what is held, and  *)
(* its lease has most of its length left.                                  *)
LEMMA AnswerIsGood ==
  ASSUME SkewCovers, TypeOK, Paced, Serving, AnswerInOrder, HeldInOrder,
         fetch.phase = "answered"
  PROVE  LET v == Verdict(tracker, fetch.doc, fetch.at) IN
         /\ v \in {"accepted", "duplicate"}
         /\ v = "duplicate" => IsDuplicate(tracker, FromDict(fetch.doc))
         /\ fetch.doc.expires \in Int
         /\ fetch.doc.expires - fetch.at >= Lease - RenewGap - MsTicks + 1
  <1> DEFINE d == fetch.doc
             c == FromDict(d)
  <1>1. /\ fetch.at \in Int /\ d \in Document
        /\ d.boot \in used /\ d.seq \in Nat /\ d.node = Self
        /\ DocumentReason(d) = "none" /\ ~FromDictRaises(d)
    BY AnswerFacts
  <1>2. PICK t \in 0..now :
          /\ fetch.at - t <= RenewGap
          /\ d.issued \in Int /\ d.expires \in Int
          /\ d.issued <= t /\ t < d.issued + MsTicks
          /\ t + Lease < d.expires + MsTicks
    BY AnswerFacts
  <1>3. /\ c.node = Self /\ c.boot = d.boot /\ c.seq = d.seq
        /\ c.issued = d.issued /\ c.expires = d.expires
    BY <1>1 DEF FromDict
  <1>4. now \in Nat /\ now - fetch.at <= Latency /\ t \in Int /\ t <= now
    <2>1. fetch # Idle /\ now \in Nat
      BY FetchCases DEF TypeOK
    <2> QED BY <2>1 DEF Paced
  <1> HIDE DEF c, d
  <1>5. CheckFreshness(c, fetch.at) = "none"
    <2>1. ~(c.issued - fetch.at > MaxSkew)
      BY <1>1, <1>2, <1>3, <1>4, Settings DEF SkewCovers
    <2>2. ~(fetch.at - c.issued > MaxSkew)
      BY <1>1, <1>2, <1>3, <1>4, Settings DEF SkewCovers
    <2>3. IsFresh(c, fetch.at)
      BY <1>1, <1>2, <1>3, <1>4, Settings DEF SkewCovers, IsFresh
    <2> QED BY <2>1, <2>2, <2>3 DEF CheckFreshness
  <1>6. d.expires - fetch.at >= Lease - RenewGap - MsTicks + 1
    BY <1>1, <1>2, <1>4, Settings
  <1>7. \/ IsDuplicate(tracker, c)
        \/ CheckLineage(tracker, c) = "none" /\ ~ComparisonRaises(tracker, c)
    <2>1. CASE SameEpoch(tracker, c)
      <3>1. Held # NoHeartbeat /\ Held.boot = fetch.doc.boot
        BY <1>3, <2>1 DEF SameEpoch, Held, d
      <3>2. /\ Held.seq <= d.seq
            /\ Held.seq = d.seq => Digest(FromDict(Held)) = Digest(c)
        BY <3>1 DEF AnswerInOrder, Follows, c, d
      <3>3. FromDict(Held) = Held /\ Held.seq \in Nat
        BY <3>1, HeldFacts DEF HeldInOrder
      <3>4. Held.seq # Null /\ c.seq # Null
        BY <1>1, <1>3, <3>3, CoreAssumption
      <3>5. CASE Held.seq = d.seq
        BY <1>3, <2>1, <3>2, <3>3, <3>5 DEF IsDuplicate, Held
      <3>6. CASE Held.seq # d.seq
        BY <1>1, <1>3, <2>1, <3>2, <3>3, <3>4, <3>6
           DEF CheckLineage, ComparisonRaises, Held
      <3> QED BY <3>5, <3>6
    <2>2. CASE ~SameEpoch(tracker, c)
      <3>1. d.boot \notin tracker.retired
        BY <1>3, <2>2 DEF SameEpoch, AnswerInOrder, Held, d
      <3> QED BY <1>3, <2>2, <3>1 DEF CheckLineage, ComparisonRaises
    <2> QED BY <2>1, <2>2
  <1>8. tracker.participant = Self
    BY DEF Serving
  <1>9. Verdict(tracker, d, fetch.at) =
          IF IsDuplicate(tracker, c) THEN "duplicate" ELSE "accepted"
    BY <1>1, <1>3, <1>5, <1>7, <1>8 DEF Verdict, c
  <1> QED BY <1>2, <1>6, <1>9 DEF c, d

(* What a consumer holds once an answer has been let through to it.        *)
LEMMA JudgedAnswer ==
  ASSUME SkewCovers, TypeOK, Paced, Serving, AnswerInOrder, HeldInOrder,
         FetchEnds, MayMoveHeldState(fetch.principal)
  PROVE  /\ fetch # Idle /\ fetch.phase = "answered"
         /\ Admit(tracker, fetch.doc, fetch.at).outcome \in {"accepted", "duplicate"}
         /\ Held' = Admit(tracker, fetch.doc, fetch.at).state.held
         /\ Held' \in Heartbeat /\ Held' # NoHeartbeat
         /\ Held'.boot = fetch.doc.boot /\ Held'.seq = fetch.doc.seq
         /\ Held'.expires - fetch.at >= Lease - RenewGap - MsTicks + 1
  <1> DEFINE d == fetch.doc
             a == Admit(tracker, d, fetch.at)
  <1>1. /\ fetch # Idle /\ fetch.phase = "answered" /\ fetch.at \in Int
        /\ d \in Document /\ tracker \in LineageState
        /\ tracker' = a.state
    BY FetchCases DEF FetchEnds, TypeOK
  <1>2. /\ a.outcome \in {"accepted", "duplicate"}
        /\ a.outcome = "duplicate" => IsDuplicate(tracker, FromDict(d))
        /\ d.expires \in Int
        /\ d.expires - fetch.at >= Lease - RenewGap - MsTicks + 1
    BY <1>1, AnswerIsGood DEF Admit
  <1>3. CASE a.outcome = "accepted"
    <2>1. Held' = FromDict(d) /\ FromDict(d) \in Heartbeat
      BY <1>1, <1>3, AdmitMoves DEF Held
    <2> QED BY <1>1, <1>2, <2>1, ConvergenceAssumption DEF FromDict, Held
  <1>4. CASE a.outcome = "duplicate"
    <2>1. /\ tracker' = tracker
          /\ Held # NoHeartbeat /\ Held.boot = d.boot /\ Held.seq = d.seq
          /\ ToDict(FromDict(d)) = ToDict(Held)
      BY <1>1, <1>2, <1>4, AdmitMoves
         DEF IsDuplicate, SameEpoch, FromDict, Digest, Held
    <2>2. Held \in Heartbeat
      BY <2>1, HeldFacts
    <2>3. Truncate(d.expires) = Truncate(Held.expires)
      BY <2>1 DEF ToDict, FromDict
    <2>4. PICK e \in used, n \in Nat, t \in Nat : d = Beat(e, n, t)
      <3>1. d.boot \in used /\ d.seq \in Nat
            /\ \E t \in 0..now : d = Beat(d.boot, d.seq, t)
        BY <1>1 DEF AnswerInOrder, Written
      <3> QED BY <3>1
    <2>5. d.expires = Truncate(t + Lease) /\ t + Lease \in Int
      BY <2>4, Settings DEF Beat, ToDict
    <2>6. Truncate(d.expires) = d.expires
      BY <2>5, TruncateTwice
    <2>7. Truncate(Held.expires) <= Held.expires /\ Held.expires \in Int
      BY <2>2, TruncateBounds DEF Heartbeat
    <2> QED BY <1>1, <1>2, <2>1, <2>2, <2>3, <2>6, <2>7, Settings DEF Held
  <1> QED BY <1>1, <1>2, <1>3, <1>4

LEMMA HintOwedKept ==
  ASSUME SkewCovers, TypeOK, Paced, Serving, AnswerInOrder, HeldInOrder,
         HintOwed, [Next]_vars
  PROVE  HintOwed'
  <1> USE DEF clocks, publisher, consumer, history
  <1>1. ASSUME NEW e \in Epochs, Start(e) PROVE HintOwed'
    <2>1. pub.doc = NoDocument
      BY <1>1 DEF Start, Serving
    <2> QED BY <1>1, <2>1 DEF Start, HintOwed
  <1>2. CASE Issue
    <2>1. /\ pub'.doc # NoDocument /\ pub'.epoch = pub.epoch
          /\ pub'.next = pub.next + 1 /\ pub.next \in Nat
          /\ UNCHANGED <<tracker, pending, fetch, hinted>>
      BY <1>2, IssueFacts
    <2> QED BY <2>1 DEF HintOwed, Held, NotBefore
  <1>3. ASSUME NEW h \in Hints, OnHint(h) PROVE HintOwed'
    <2>1. /\ pending' = (pending \/ ~Matches(h))
          /\ hinted' = IF h = pub.doc THEN h ELSE hinted
          /\ UNCHANGED <<pub, tracker, fetch>>
      BY <1>3 DEF OnHint
    <2>2. CASE hinted' = hinted
      BY <2>1, <2>2 DEF HintOwed, Held, NotBefore
    <2>3. CASE h = pub.doc /\ h # NoDocument
      <3>1. /\ h.boot = pub.epoch /\ h.seq = pub.next - 1
            /\ pub.next \in Nat \ {0}
        BY <2>3, ServedFacts
      <3>2. Matches(h) => NotBefore(Held, h)
        BY <3>1 DEF Matches, NotBefore, Digest, ToDict
      <3>3. HintOwed' <=> /\ pub.doc # NoDocument /\ h.boot = pub.epoch
                          /\ h.seq \in Nat /\ h.seq < pub.next
                          /\ \/ NotBefore(Held, h) \/ pending' \/ fetch.phase = "asked"
                             \/ /\ fetch.phase = "answered"
                                /\ fetch.doc.boot = h.boot /\ h.seq <= fetch.doc.seq
        BY <2>1, <2>3 DEF HintOwed, Held, NotBefore
      <3>4. h.seq \in Nat /\ h.seq < pub.next
        BY <3>1
      <3>5. NotBefore(Held, h) \/ pending'
        BY <2>1, <3>2
      <3> QED BY <2>3, <3>1, <3>3, <3>4, <3>5
    <2>4. CASE h = pub.doc /\ h = NoDocument
      BY <2>1, <2>4 DEF HintOwed
    <2> QED BY <2>1, <2>2, <2>3, <2>4
  <1>4. CASE Poll
    <2>1. CASE Due(Wall)
      BY <1>4, <2>1 DEF Poll, HintOwed, Held, NotBefore
    <2>2. CASE ~Due(Wall)
      BY <1>4, <2>2 DEF Poll, HintOwed, Held, NotBefore
    <2> QED BY <2>1, <2>2
  <1>5. ASSUME NEW pr \in Answering, Answer(pr) PROVE HintOwed'
    <2>1. /\ pub.doc # NoDocument /\ fetch'.phase = "answered"
          /\ fetch'.doc = pub.doc
          /\ UNCHANGED <<pub, tracker, pending, hinted>>
      BY <1>5 DEF Answer
    <2>2. pub.doc.boot = pub.epoch /\ pub.doc.seq = pub.next - 1
          /\ pub.next \in Nat
      BY <2>1, ServedFacts
    <2> QED BY <2>1, <2>2 DEF HintOwed
  <1>6. CASE FetchEnds
    <2>1. hinted' = NoDocument \/ hinted' = hinted
      BY <1>6 DEF FetchEnds
    <2>2. CASE hinted' # NoDocument
      <3>1. /\ MayMoveHeldState(fetch.principal) /\ hinted' = hinted
            /\ hinted # NoDocument
            /\ ~NotBefore(Admit(tracker, fetch.doc, fetch.at).state.held, hinted)
            /\ UNCHANGED <<pub, pending>>
        BY <1>6, <2>2 DEF FetchEnds
      <3>2. /\ fetch # Idle /\ fetch.phase = "answered"
            /\ Held' # NoHeartbeat
            /\ Held'.boot = fetch.doc.boot /\ Held'.seq = fetch.doc.seq
            /\ ~NotBefore(Held', hinted)
        BY <1>6, <3>1, JudgedAnswer
      <3>3. pending
        <4>1. hinted.boot = pub.epoch /\ hinted.seq \in Nat /\ pub.up
          BY <3>1 DEF HintOwed, Serving
        <4>2. CASE NotBefore(Held, hinted)
          <5>1. /\ Held # NoHeartbeat /\ Held.boot = pub.epoch
                /\ Held.seq >= hinted.seq /\ Held.seq \in Nat
            BY <4>1, <4>2 DEF NotBefore, HeldInOrder
          <5>2. pub.epoch \in tracker.retired
            BY <5>1 DEF HeldInOrder
          <5>3. fetch.doc.boot = pub.epoch
            BY <3>2, <4>1, <5>2 DEF AnswerInOrder
          <5>4. Held.seq <= fetch.doc.seq /\ fetch.doc.seq \in Nat
            BY <3>2, <5>1, <5>3, AnswerFacts DEF AnswerInOrder, Follows
          <5> QED BY <3>2, <4>1, <5>1, <5>3, <5>4 DEF NotBefore
        <4>3. CASE fetch.doc.boot = hinted.boot /\ hinted.seq <= fetch.doc.seq
          BY <3>2, <4>3 DEF NotBefore
        <4> QED BY <3>1, <3>2, <4>2, <4>3 DEF HintOwed
      <3> QED BY <3>1, <3>3 DEF HintOwed
    <2> QED BY <2>2 DEF HintOwed
  <1>7. CASE hinted' = NoDocument
    BY <1>7 DEF HintOwed
  <1>8. CASE UNCHANGED <<pub, tracker, pending, fetch, hinted>>
    BY <1>8 DEF HintOwed, Held, NotBefore
  <1>9. \/ \E e \in Epochs : Start(e)
        \/ \E h \in Hints : OnHint(h)
        \/ \E pr \in Answering : Answer(pr)
        \/ Issue \/ Poll \/ FetchEnds \/ hinted' = NoDocument
        \/ UNCHANGED <<pub, tracker, pending, fetch, hinted>>
    BY DEF Next, vars, Crash, FetchFails, Tick, StepClock
  <1> QED BY <1>1, <1>2, <1>3, <1>4, <1>5, <1>6, <1>7, <1>8, <1>9

(* When the loop has its turn, or is due to have it, a lease of a calm     *)
(* publisher lasts for longer than the read.                               *)
LEMMA LeaseLasts ==
  ASSUME SkewCovers, LeaseOutlasts, TypeOK, Paced, NoneDueSince, CalmInTime, calm
  PROVE  /\ Held \in Heartbeat /\ Held.expires \in Int /\ now \in Nat
         /\ lastFetch \in Int
         /\ fetch = Idle => Held.expires - now > Latency
         /\ Fresh
  <1>1. /\ Held # NoHeartbeat /\ Held \in Heartbeat /\ Held.expires \in Int
        /\ now \in Nat /\ asked \in Int /\ lastPoll \in Nat
        /\ Held.expires - lastFetch >= Lease - RenewGap - MsTicks + 1
        /\ lastFetch \in Int /\ lastFetch <= asked /\ asked <= now /\ Wall = now
    BY DEF CalmInTime, TypeOK, Held, LineageState, Heartbeat, Paced, Wall
  <1>2. ASSUME fetch = Idle PROVE Held.expires - now > Latency
    <2>1. now - lastPoll <= PollGap /\ asked = lastFetch
      BY <1>2 DEF Paced, CalmInTime
    <2>2. CASE lastPoll <= asked + Latency
      BY <1>1, <2>1, <2>2, Settings DEF LeaseOutlasts
    <2>3. CASE ~DeadlinePassed(lastPoll)
      <3>1. \/ lastPoll < lastFetch
            \/ 2 * (lastPoll - lastFetch) < Held.expires - lastFetch
        BY <1>1, <2>3 DEF DeadlinePassed
      <3>2. CASE lastPoll < lastFetch
        BY <1>1, <2>1, <2>2, <3>2, Settings
      <3>3. CASE 2 * (lastPoll - lastFetch) < Held.expires - lastFetch
        <4>1. 2 * (Held.expires - lastPoll) > Held.expires - lastFetch
          BY <1>1, <3>3
        <4>2. 2 * (Held.expires - lastPoll) > 2 * (PollGap + Latency)
          BY <1>1, <4>1, Settings DEF LeaseOutlasts
        <4> QED BY <1>1, <2>1, <4>2, Settings
      <3> QED BY <3>1, <3>2, <3>3
    <2> QED BY <1>1, <1>2, <2>2, <2>3 DEF NoneDueSince
  <1>3. Held.expires - now > 0
    <2>1. CASE fetch = Idle
      BY <1>1, <1>2, <2>1, Settings
    <2>2. CASE fetch # Idle
      <3>1. now - asked <= Latency /\ Held.expires - asked > Latency
        BY <2>2 DEF Paced, CalmInTime
      <3> QED BY <1>1, <3>1, Settings
    <2> QED BY <2>1, <2>2
  <1> QED BY <1>1, <1>2, <1>3 DEF Fresh, IsFresh

LEMMA CalmKept ==
  ASSUME SkewCovers, LeaseOutlasts, TypeOK, Paced, NoneDueSince, Serving,
         AnswerInOrder, HeldInOrder, CalmInTime, [Next]_vars
  PROVE  CalmInTime'
  <1> USE DEF clocks, publisher, consumer, history
  <1>1. CASE Poll
    <2>1. SUFFICES ASSUME calm' PROVE CalmInTime'
      BY DEF CalmInTime
    <2>2. /\ calm /\ fetch = Idle /\ Wall = now
          /\ UNCHANGED <<tracker, lastFetch>>
      BY <1>1, <2>1 DEF Poll, Paced, Wall, TypeOK
    <2>3. Held.expires - now > Latency
      BY <2>2, LeaseLasts
    <2>4. CASE Due(Wall)
      <3>1. asked' = now /\ fetch' # Idle
        BY <1>1, <2>2, <2>4 DEF Poll, Idle
      <3> QED BY <2>2, <2>3, <3>1 DEF CalmInTime, Held
    <2>5. CASE ~Due(Wall)
      BY <1>1, <2>2, <2>5 DEF Poll, CalmInTime, Held
    <2> QED BY <2>4, <2>5
  <1>2. ASSUME NEW pr \in Answering, Answer(pr) PROVE CalmInTime'
    <2>1. /\ fetch # Idle /\ fetch' # Idle
          /\ UNCHANGED <<tracker, lastFetch, asked, calm>>
      BY <1>2, FetchCases DEF Answer, Idle
    <2> QED BY <2>1 DEF CalmInTime, Held
  <1>3. CASE FetchEnds
    <2>1. SUFFICES ASSUME calm' PROVE CalmInTime'
      BY DEF CalmInTime
    <2>2. MayMoveHeldState(fetch.principal)
      BY <1>3, <2>1 DEF FetchEnds
    <2>3. /\ fetch # Idle /\ Held' # NoHeartbeat
          /\ Held'.expires - fetch.at >= Lease - RenewGap - MsTicks + 1
      BY <1>3, <2>2, JudgedAnswer
    <2>4. /\ fetch' = Idle /\ lastFetch' = fetch.at /\ asked' = asked
          /\ fetch.at = asked
      BY <1>3, <2>3 DEF FetchEnds, Paced
    <2> QED BY <2>3, <2>4 DEF CalmInTime
  <1>4. CASE calm' = FALSE
    BY <1>4 DEF CalmInTime
  <1>5. CASE UNCHANGED <<tracker, lastFetch, fetch, asked, calm>>
    BY <1>5 DEF CalmInTime, Held
  <1>6. \/ Poll \/ FetchEnds \/ calm' = FALSE
        \/ \E pr \in Answering : Answer(pr)
        \/ UNCHANGED <<tracker, lastFetch, fetch, asked, calm>>
    BY DEF Next, vars, Start, Issue, Crash, OnHint, FetchFails, Tick, StepClock
  <1> QED BY <1>1, <1>2, <1>3, <1>4, <1>5, <1>6

LEMMA InitFollowing ==
  Init => Serving /\ HeldInOrder /\ AnswerInOrder /\ HintOwed /\ CalmInTime
  BY DEF Init, Serving, HeldInOrder, AnswerInOrder, HintOwed, CalmInTime, Held,
         EmptyLineage, Down, Idle

LEMMA OrderInductive ==
  ASSUME SkewCovers
  PROVE  Spec => [](IInv /\ Serving /\ HeldInOrder /\ AnswerInOrder)
  <1> DEFINE I == IInv /\ Serving /\ HeldInOrder /\ AnswerInOrder
  <1>1. Init => I
    BY InitTypes, InitTiming, InitFollowing DEF IInv
  <1>2. I /\ [Next]_vars => I'
    BY NextTypes, NextTiming, ServingKept, HeldInOrderKept, AnswerInOrderKept
       DEF IInv, SkewCovers
  <1> QED BY <1>1, <1>2, PTL DEF Spec

(* No hint is swallowed by the read it meets in flight, whatever order     *)
(* hints, reads, renewals and restarts come in, unless the answer fails or *)
(* is not authoritative.                                                   *)
THEOREM HintsAreReflected ==
  ASSUME SkewCovers
  PROVE  Spec => []HintReflected
  <1> DEFINE I == IInv /\ Serving /\ HeldInOrder /\ AnswerInOrder
  <1>1. Init => HintOwed
    BY InitFollowing
  <1>2. I /\ HintOwed /\ [Next]_vars => HintOwed'
    BY HintOwedKept DEF IInv
  <1>3. HintOwed => HintReflected
    BY DEF HintOwed, HintReflected, Idle
  <1> QED BY <1>1, <1>2, <1>3, OrderInductive, PTL DEF Spec

(* A publisher that keeps renewing, and whose reads come back, never looks *)
(* dead, though every hint be lost.                                        *)
THEOREM NeverFalselyDead ==
  ASSUME SkewCovers, LeaseOutlasts
  PROVE  Spec => []NoFalseDeath
  <1> DEFINE I == IInv /\ Serving /\ HeldInOrder /\ AnswerInOrder
  <1>1. Init => CalmInTime
    BY InitFollowing
  <1>2. I /\ CalmInTime /\ [Next]_vars => CalmInTime'
    BY CalmKept DEF IInv
  <1>3. I /\ CalmInTime => NoFalseDeath
    BY LeaseLasts DEF IInv, NoFalseDeath
  <1> QED BY <1>1, <1>2, <1>3, OrderInductive, PTL DEF Spec
===============================================================================
