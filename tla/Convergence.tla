----------------------------- MODULE Convergence -----------------------------
(***************************************************************************)
(* One HeartbeatConsumer of the current era, the publisher it tracks and   *)
(* the reads and hints between them (convergence.py).                      *)
(*                                                                         *)
(* A caller drives poll() from its own loop.  A refetch takes time: it     *)
(* captures `now` and clears the pending flag, sends the read, and judges  *)
(* the answer later against the captured instant.  Hints are callbacks:    *)
(* they come late, twice, for any revision, while a read is in flight, or  *)
(* not at all.  A read fails, or is answered by any principal a gateway    *)
(* lets through.                                                           *)
(*                                                                         *)
(* Time.  `now` is true time, which the publisher's clock shows; the       *)
(* consumer's wall clock shows now + shift.  The caller's loop, the reads  *)
(* and the renewals have upper bounds (PollGap, Latency, RenewGap), which  *)
(* hold because time does not pass while one of them is exhausted.         *)
(***************************************************************************)
EXTENDS HeartbeatCore

CONSTANTS
  Self,              \* the participant tracked
  Principals,        \* who may answer a read, NoPrincipal aside
  NoPrincipal,       \* a response without principal evidence
  Permitted,         \* principals whose policy covers Self
  Answering,         \* principals that do answer
  HasBinder,         \* whether a binder_factory was given
  Lease,             \* lease_seconds of the publisher
  MaxRefetchInterval,
  PollGap, Latency, RenewGap,
  Steps,             \* wall-clock steps of the consumer's host
  NoDocument, NoInstant,
  MaxSequence,       \* bound: documents per epoch
  MaxTime            \* bound: true time stays in 0..MaxTime

ASSUME ConvergenceAssumption ==
  /\ Self \in Participants
  /\ NoPrincipal \notin Principals
  /\ Permitted \subseteq Principals
  /\ Answering \subseteq Principals \cup {NoPrincipal}
  /\ HasBinder \in BOOLEAN
  /\ Lease \in MsTicks..MaxLease
  /\ MaxRefetchInterval \in Nat \ {0}
  /\ {PollGap, Latency, RenewGap} \subseteq Nat \ {0}
  /\ Steps \subseteq Int
  /\ NoDocument \notin Document
  /\ NoInstant \notin Int
  /\ NoHeartbeat \notin Heartbeat
  /\ {MaxSequence, MaxTime} \subseteq Nat

VARIABLES
  now, shift,
  pub,       \* the publisher: its issuer and the document it serves
  used,      \* epochs minted so far
  tracker,   \* the consumer's LineageState
  pending,   \* refetch_pending
  lastFetch, \* _last_fetch_at
  fetch,     \* the refetch in flight
  lastPoll,  \* when the caller's loop last had its turn (true time)
  asked,     \* history: wall time the last refetch started
  heldFrom,  \* history: the principal whose answer brought the held lease
  hinted,    \* history: document a hint announced, not yet read or lost
  calm       \* history: publisher up, and every read got through, since
             \* one that was admitted

clocks == <<now, shift>>
publisher == <<pub, used>>
consumer == <<tracker, pending, lastFetch, fetch, lastPoll>>
history == <<asked, heldFrom, hinted, calm>>
vars == <<clocks, publisher, consumer, history>>

Wall == now + shift
Held == tracker.held
Fresh == Held # NoHeartbeat /\ IsFresh(Held, Wall)

Idle == [phase |-> "idle"]
Down == [up |-> FALSE, doc |-> NoDocument]

Init ==
  /\ now = 0 /\ shift = 0
  /\ pub = Down /\ used = {}
  /\ tracker = EmptyLineage(Self)
  /\ pending = FALSE
  /\ lastFetch = NoInstant
  /\ fetch = Idle
  /\ lastPoll = 0
  /\ asked = 0 /\ heldFrom = NoPrincipal
  /\ hinted = NoDocument /\ calm = FALSE

-----------------------------------------------------------------------------
(* The publisher: a HeartbeatIssuer, and the document last issued, which   *)
(* is what an authoritative read returns.  It renews at most once a tick.  *)

Start(e) ==
  /\ ~pub.up
  /\ e \notin used
  /\ used' = used \cup {e}
  /\ pub' = [up |-> TRUE, doc |-> NoDocument, epoch |-> e, next |-> 0,
             renewed |-> now]
  /\ UNCHANGED <<clocks, consumer, history>>

Issue ==
  /\ pub.up
  /\ pub.next < MaxSequence
  /\ pub.doc = NoDocument \/ pub.renewed < now
  /\ pub' = [pub EXCEPT !.next = @ + 1, !.renewed = now, !.doc =
       ToDict([node |-> Self, boot |-> pub.epoch, seq |-> pub.next,
               issued |-> now, expires |-> now + Lease, body |-> NoBody])]
  /\ UNCHANGED <<clocks, used, consumer, history>>

Crash ==
  /\ pub.up
  /\ pub' = Down
  /\ hinted' = NoDocument
  /\ calm' = FALSE
  /\ UNCHANGED <<clocks, used, consumer, asked, heldFrom>>

-----------------------------------------------------------------------------
(* Hints *)

(* A hint announces the current document, redelivers the held one, or, as  *)
(* any other hint (old, forged, without metadata), announces nothing known.*)
Hints == {NoDocument, pub.doc}
           \cup (IF Held = NoHeartbeat THEN {} ELSE {ToDict(Held)})

(* Mutated form: compares the epoch only. *)
MatchesEpoch(h) == h # NoDocument /\ Held # NoHeartbeat /\ h.boot = Held.boot
Matches(h) == h # NoDocument /\ Held # NoHeartbeat /\ h = Digest(Held)

OnHint(h) ==
  /\ h \in Hints
  /\ pending' = (pending \/ ~Matches(h))
  /\ hinted' = IF h = pub.doc THEN h ELSE hinted
  /\ UNCHANGED <<clocks, publisher, tracker, lastFetch, fetch, lastPoll,
                 asked, heldFrom, calm>>

-----------------------------------------------------------------------------
(* The refetch *)

(* Mutated form: waits for the whole window. *)
AtExpiry(t) ==
  \/ t - lastFetch >= MaxRefetchInterval
  \/ t - lastFetch >= Held.expires - lastFetch

(* Half the window that was left at the last fetch, or the longest wait.   *)
DeadlinePassed(t) ==
  LET elapsed == t - lastFetch
      window == Held.expires - lastFetch
  IN  \/ elapsed >= MaxRefetchInterval
      \/ elapsed >= 0 /\ 2 * elapsed >= window

(* Mutated form: no deadline. *)
DueByHint(t) == pending \/ Held = NoHeartbeat
Due(t) ==
  pending \/ Held = NoHeartbeat \/ lastFetch = NoInstant \/ DeadlinePassed(t)

Poll ==
  /\ fetch = Idle
  /\ lastPoll' = now
  /\ IF Due(Wall)
     THEN /\ fetch' = [phase |-> "asked", at |-> Wall, since |-> now]
          /\ pending' = FALSE
          /\ asked' = Wall
     ELSE UNCHANGED <<fetch, pending, asked>>
  /\ UNCHANGED <<clocks, publisher, tracker, lastFetch,
                 heldFrom, hinted, calm>>

(* The publisher reads its document out; the response carries a principal. *)
Answer(pr) ==
  /\ fetch.phase = "asked"
  /\ pub.doc # NoDocument
  /\ pr \in Answering
  /\ fetch' = [phase |-> "answered", at |-> fetch.at, since |-> fetch.since,
               doc |-> pub.doc, principal |-> pr]
  /\ UNCHANGED <<clocks, publisher, tracker, pending, lastFetch, lastPoll,
                 history>>

(* UNREACHABLE: before or after the publisher has answered. *)
FetchFails ==
  /\ fetch # Idle
  /\ fetch' = Idle
  /\ lastPoll' = now
  /\ hinted' = NoDocument
  /\ calm' = FALSE
  /\ UNCHANGED <<clocks, publisher, tracker, pending, lastFetch,
                 asked, heldFrom>>

Binding(pr) ==
  IF ~HasBinder THEN "none"
  ELSE IF pr = NoPrincipal THEN "unverified"
  ELSE IF pr \in Permitted THEN "bound"
  ELSE "unbound"

(* Mutated form: enforce() alone, which lets unverified answers pass. *)
Enforced(pr) == Binding(pr) # "unbound"
MayMoveHeldState(pr) == Binding(pr) \in {"none", "bound"}

(* Whether a document is no older than another of the same publisher.      *)
NotBefore(h, d) == h # NoHeartbeat /\ h.boot = d.boot /\ h.seq >= d.seq

FetchEnds ==
  LET a == Admit(tracker, fetch.doc, fetch.at)
      judged == MayMoveHeldState(fetch.principal)
      good == judged /\ a.outcome \in {"accepted", "duplicate"}
  IN
  /\ fetch.phase = "answered"
  /\ fetch' = Idle
  /\ lastPoll' = now
  /\ lastFetch' = fetch.at
  /\ tracker' = IF judged THEN a.state ELSE tracker
  /\ heldFrom' = IF judged /\ a.outcome = "accepted"
                 THEN fetch.principal ELSE heldFrom
  /\ hinted' = IF ~judged \/ (hinted # NoDocument /\ NotBefore(a.state.held, hinted))
               THEN NoDocument ELSE hinted
  /\ calm' = (pub.up /\ (good \/ (calm /\ judged)))
  /\ UNCHANGED <<clocks, publisher, pending, asked>>

-----------------------------------------------------------------------------
(* Time *)

(* No limit of the pace is exhausted. *)
InTime ==
  /\ pub.up => pub.doc # NoDocument /\ now - pub.renewed < RenewGap
  /\ fetch = Idle => now - lastPoll < PollGap
  /\ fetch # Idle => now - fetch.since < Latency

Tick ==
  /\ now < MaxTime
  /\ InTime
  /\ now' = now + 1
  /\ UNCHANGED <<shift, publisher, consumer, history>>

StepClock(s) ==
  /\ shift + s \in -MaxTime..MaxTime
  /\ shift' = shift + s
  /\ UNCHANGED <<now, publisher, consumer, history>>

Next ==
  \/ \E e \in Epochs : Start(e)
  \/ Issue
  \/ Crash
  \/ \E h \in Hints : OnHint(h)
  \/ Poll
  \/ \E pr \in Answering : Answer(pr)
  \/ FetchFails
  \/ FetchEnds
  \/ Tick
  \/ \E s \in Steps : StepClock(s)

Spec == Init /\ [][Next]_vars

(* Clocks run, the caller's loop goes round, a live publisher renews, a    *)
(* read ends one way or the other, and reads made for ever are not for     *)
(* ever failed or answered by strangers.  Nothing is assumed of hints.     *)
FairlyServed ==
  /\ WF_vars(Issue)
  /\ WF_vars(Poll)
  /\ WF_vars(FetchFails \/ FetchEnds)
  /\ SF_vars(\E pr \in Permitted : Answer(pr))
  /\ SF_vars(FetchEnds /\ fetch.principal \in Permitted)

FairSpec == Spec /\ WF_vars(Tick) /\ FairlyServed

-----------------------------------------------------------------------------
Publisher ==
  [up : {TRUE}, doc : Document \cup {NoDocument}, epoch : Epochs,
   next : Nat, renewed : Nat] \cup {Down}

Fetch ==
  [phase : {"asked"}, at : Int, since : Nat]
    \cup [phase : {"answered"}, at : Int, since : Nat, doc : Document,
          principal : Principals \cup {NoPrincipal}]
    \cup {Idle}

(* Types: every variable stays in its domain. *)
TypeOK ==
  /\ now \in Nat /\ shift \in Int
  /\ pub \in Publisher /\ used \subseteq Epochs
  /\ tracker \in LineageState
  /\ pending \in BOOLEAN
  /\ lastFetch \in Int \cup {NoInstant}
  /\ fetch \in Fetch
  /\ lastPoll \in Nat
  /\ asked \in Int
  /\ heldFrom \in Principals \cup {NoPrincipal}
  /\ hinted \in Document \cup {NoDocument}
  /\ calm \in BOOLEAN

(* A lease is never allowed to run out unasked: whatever hints were lost   *)
(* and whatever reads failed or were refused, a lease that has expired was *)
(* asked about in the last ticks of its life.                              *)
LastTicks == PollGap + (IF PollGap > Latency + 1 THEN PollGap - 1 ELSE Latency)

AskedBeforeExpiry ==
  (Held # NoHeartbeat /\ Wall >= Held.expires) =>
    asked >= Held.expires - LastTicks

(* A publisher that keeps renewing and whose reads succeed never looks     *)
(* dead, though every hint be lost.                                        *)
NoFalseDeath == calm => Fresh

(* Only an answer of a permitted principal ever moves held state, however  *)
(* answers of many principals follow each other on one channel.            *)
HeldIsBound ==
  (HasBinder /\ Held # NoHeartbeat) => heldFrom \in Permitted

(* A hint is not swallowed by the read it meets in flight: when no read is *)
(* owed or under way, what was announced has been read, unless that read   *)
(* failed or the answer was not authoritative.                             *)
HintReflected ==
  (hinted # NoDocument /\ ~NotBefore(Held, hinted) /\ fetch = Idle) => pending

(* Convergence: a consumer of a publisher that stays up and renews holds a *)
(* fresh lease of that very process again and again, though every hint be  *)
(* lost, reads fail or bring strangers' answers between, the publisher has *)
(* crashed and restarted before and the wall clock was stepped - as long   *)
(* as the skew bound covers the age that renewal gap and clock give to     *)
(* what is read (check_freshness refuses an older document for ever).      *)
Converges ==
  <>[]pub.up =>
    []<>(pub.up /\ Held # NoHeartbeat /\ Held.boot = pub.epoch /\ Fresh)

(* The inductive invariant, on a host whose wall clock is not stepped: the *)
(* pace of the loop and the reads, and that a turn of the loop after the   *)
(* last refetch found none due.                                            *)
Paced ==
  /\ shift = 0
  /\ asked <= now
  /\ lastFetch # NoInstant => lastFetch <= asked
  /\ Held # NoHeartbeat => lastFetch # NoInstant
  /\ fetch = Idle => now - lastPoll <= PollGap
  /\ fetch # Idle => /\ fetch.at = asked
                     /\ fetch.since = asked
                     /\ now - asked <= Latency

NoneDueSince ==
  (fetch = Idle /\ Held # NoHeartbeat) =>
    lastPoll <= asked + Latency \/ ~DeadlinePassed(lastPoll)

IInv == TypeOK /\ Paced /\ NoneDueSince

(* What the last two properties rest on, likewise: what the publisher has  *)
(* up, what an answer brings, and what is held, all belong to one sequence *)
(* of documents per epoch, the older nowhere ahead of the newer.           *)
Beat(e, n, t) ==
  ToDict([node |-> Self, boot |-> e, seq |-> n, issued |-> t,
          expires |-> t + Lease, body |-> NoBody])

(* d is no older than c, and the same if it is as old. *)
Follows(d, c) ==
  /\ c.seq <= d.seq
  /\ c.seq = d.seq => Digest(FromDict(c)) = Digest(FromDict(d))

(* What is up was issued last, and by the clock recently. *)
Serving ==
  /\ tracker.participant = Self
  /\ pub.up => /\ pub.epoch \in used
               /\ pub.renewed <= now /\ now - pub.renewed <= RenewGap
  /\ pub.doc # NoDocument =>
       /\ pub.up /\ pub.next # 0
       /\ pub.doc = Beat(pub.epoch, pub.next - 1, pub.renewed)

(* The publisher is nowhere behind what is held of its epoch. *)
HeldInOrder ==
  /\ tracker.retired \subseteq used
  /\ Held # NoHeartbeat => Held.boot \in tracker.retired /\ Held.seq \in Nat
  /\ (pub.up /\ Held # NoHeartbeat /\ Held.boot = pub.epoch) =>
       pub.doc # NoDocument /\ Follows(pub.doc, Held)
  /\ (pub.up /\ pub.epoch \in tracker.retired) =>
       Held # NoHeartbeat /\ Held.boot = pub.epoch

(* d was issued no earlier than RenewGap before `at`. *)
Written(d, at) ==
  /\ d.boot \in used /\ d.seq \in Nat
  /\ \E t \in 0..now : at - t <= RenewGap /\ d = Beat(d.boot, d.seq, t)

(* An answer is neither ahead of the publisher nor behind what is held,   *)
(* even if the publisher has restarted since.                              *)
AnswerInOrder ==
  fetch.phase = "answered" =>
    /\ Written(fetch.doc, fetch.at)
    /\ IF Held # NoHeartbeat /\ Held.boot = fetch.doc.boot
       THEN Follows(fetch.doc, Held)
       ELSE fetch.doc.boot \notin tracker.retired
    /\ pub.up =>
         IF fetch.doc.boot = pub.epoch
         THEN pub.doc # NoDocument /\ Follows(pub.doc, fetch.doc)
         ELSE pub.epoch \notin tracker.retired

(* What was announced is held, owed, asked for or on its way. *)
HintOwed ==
  hinted # NoDocument =>
    /\ pub.doc # NoDocument /\ hinted.boot = pub.epoch
    /\ hinted.seq \in Nat /\ hinted.seq < pub.next
    /\ \/ NotBefore(Held, hinted) \/ pending \/ fetch.phase = "asked"
       \/ /\ fetch.phase = "answered"
          /\ fetch.doc.boot = hinted.boot /\ hinted.seq <= fetch.doc.seq

(* A lease had most of its length left when last read, and still covers    *)
(* the read in flight.                                                     *)
CalmInTime ==
  calm => /\ Held # NoHeartbeat
          /\ Held.expires - lastFetch >= Lease - RenewGap - MsTicks + 1
          /\ fetch = Idle => asked = lastFetch
          /\ fetch # Idle => Held.expires - asked > Latency

(* clock.py: a wall-clock step cannot make an expired lease look fresh.    *)
ExpiredStaysExpired ==
  [][(Held # NoHeartbeat /\ Held' = Held /\ ~Fresh) => ~Fresh']_vars
=============================================================================
