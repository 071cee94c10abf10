------------------------------- MODULE Lineage -------------------------------
(***************************************************************************)
(* Publishers, the wire, and a consumer's trackers.                        *)
(*                                                                         *)
(* A process publishes one participant's heartbeat stream through a        *)
(* HeartbeatIssuer; processes start, crash and overlap.  The wire keeps    *)
(* every document ever sent, so a delivery may be late, repeated, out of   *)
(* order, to the wrong tracker, or may never happen.  A consumer keeps one *)
(* LineageState per participant and judges each delivery with admit() on   *)
(* its own wall clock, which may be stepped.                               *)
(***************************************************************************)
EXTENDS HeartbeatCore, FiniteSets, Sequences

CONSTANTS
  Procs,            \* publishing processes
  NoIssuer,         \* a process that is not running
  ConfiguredEpochs, \* epoch ids a deployment passes in instead of minting
  Leases,           \* lease_seconds a process may be configured with
  Offsets,          \* issuer clock minus consumer clock, at an issue
  Steps,            \* wall-clock steps of the consumer's host
  Foreign,          \* documents of publishers not built on this package
  MaxSequence,      \* bound: an epoch issues sequences 0..MaxSequence-1
  MaxSent,          \* bound: documents put on the wire
  MaxTime           \* bound: the consumer's clock stays in 0..MaxTime

ASSUME LineageAssumption ==
  /\ ConfiguredEpochs \subseteq Epochs
  /\ Leases \subseteq MsTicks..MaxLease
  /\ Offsets \subseteq Int
  /\ Steps \subseteq Int
  /\ Foreign \subseteq Document
  /\ MaxSequence \in Nat
  /\ MaxSent \in Nat
  /\ MaxTime \in Nat
  /\ NoHeartbeat \notin Heartbeat \cup [boot : Epochs \cup {Null}, seq : Nat]

VARIABLES
  now,       \* the consumer's wall clock
  issuer,    \* the HeartbeatIssuer of each running process
  born,      \* history: epochs in the order they came into use
  sent,      \* documents put on the wire so far
  tracker,   \* the consumer's LineageState per participant
  everHeld,  \* history: heartbeats each tracker has held
  admittedAt \* history: consumer clock when the held heartbeat was admitted

vars == <<now, issuer, born, sent, tracker, everHeld, admittedAt>>
publishers == <<issuer, born, sent>>
consumer == <<tracker, everHeld, admittedAt>>

Issuer == [participant : Participants, epoch : Epochs, next : Nat,
           lease : Leases, body : Bodies]

Init ==
  /\ now = 0
  /\ issuer = [i \in Procs |-> NoIssuer]
  /\ born = <<>>
  /\ sent = {}
  /\ tracker = [p \in Participants |-> EmptyLineage(p)]
  /\ everHeld = [p \in Participants |-> {}]
  /\ admittedAt = [p \in Participants |-> 0]

-----------------------------------------------------------------------------
(* Publishers *)

InUse == {born[k] : k \in DOMAIN born}
Older(e, f) == \E j, k \in DOMAIN born : j < k /\ born[j] = e /\ born[k] = f

(* mint_epoch_id draws at random, so it never meets an epoch in use;       *)
(* an explicit epoch_id is whatever the deployment passes, again and again *)
(* if it is derived from something that outlives the process.              *)
Mintable == Epochs \ (ConfiguredEpochs \cup {d.boot : d \in Foreign})
EpochChoices == ConfiguredEpochs \cup (Mintable \ InUse)

Start(i, p, e, l, b) ==
  /\ issuer[i] = NoIssuer
  /\ e \in EpochChoices
  /\ issuer' = [issuer EXCEPT ![i] =
       [participant |-> p, epoch |-> e, next |-> 0, lease |-> l, body |-> b]]
  /\ born' = IF e \in InUse THEN born ELSE Append(born, e)
  /\ UNCHANGED <<now, sent, consumer>>

(* The heartbeat process i would issue on a clock that shows t. *)
NextHeartbeat(i, t) ==
  [node |-> issuer[i].participant, boot |-> issuer[i].epoch,
   seq |-> issuer[i].next, issued |-> t, expires |-> t + issuer[i].lease,
   body |-> issuer[i].body]

Issue(i, off) ==
  /\ issuer[i] # NoIssuer
  /\ issuer[i].next < MaxSequence
  /\ Cardinality(sent) < MaxSent
  /\ sent' = sent \cup {ToDict(NextHeartbeat(i, now + off))}
  /\ issuer' = [issuer EXCEPT ![i].next = @ + 1]
  /\ UNCHANGED <<now, born, consumer>>

Crash(i) ==
  /\ issuer[i] # NoIssuer
  /\ issuer' = [issuer EXCEPT ![i] = NoIssuer]
  /\ UNCHANGED <<now, born, sent, consumer>>

-----------------------------------------------------------------------------
(* The consumer *)

(* The tracker of p is handed some document of the wire. *)
Deliver(p, d) ==
  LET a == Admit(tracker[p], d, now) IN
  /\ tracker' = [tracker EXCEPT ![p] = a.state]
  /\ IF a.outcome = "accepted"
     THEN /\ everHeld' = [everHeld EXCEPT ![p] = @ \cup {a.state.held}]
          /\ admittedAt' = [admittedAt EXCEPT ![p] = now]
     ELSE UNCHANGED <<everHeld, admittedAt>>
  /\ UNCHANGED <<now, publishers>>

Tick ==
  /\ now < MaxTime
  /\ now' = now + 1
  /\ UNCHANGED <<publishers, consumer>>

StepClock(s) ==
  /\ now + s \in 0..MaxTime
  /\ now' = now + s
  /\ UNCHANGED <<publishers, consumer>>

Next ==
  \/ \E i \in Procs, p \in Participants, e \in Epochs, l \in Leases,
        b \in Bodies : Start(i, p, e, l, b)
  \/ \E i \in Procs, off \in Offsets : Issue(i, off)
  \/ \E i \in Procs : Crash(i)
  \/ \E p \in Participants, d \in sent \cup Foreign : Deliver(p, d)
  \/ Tick
  \/ \E s \in Steps : StepClock(s)

Spec == Init /\ [][Next]_vars

-----------------------------------------------------------------------------
(* Types: every variable stays in its domain. *)
TypeOK ==
  /\ now \in Int
  /\ issuer \in [Procs -> Issuer \cup {NoIssuer}]
  /\ born \in Seq(Epochs)
  /\ sent \subseteq Document
  /\ tracker \in [Participants -> LineageState]
  /\ everHeld \in [Participants -> SUBSET Heartbeat]
  /\ admittedAt \in [Participants -> Int]

Revision(h) == [boot |-> h.boot, seq |-> h.seq]

(* Every tracker is a register whose revision only moves forward, however  *)
(* the wire delays, repeats and reorders, and whoever publishes.           *)
Register == INSTANCE LeaseRegister WITH
  Epochs  <- Epochs \cup {Null},
  Nothing <- NoHeartbeat,
  current <- [p \in Participants |->
                IF tracker[p].held = NoHeartbeat THEN NoHeartbeat
                ELSE Revision(tracker[p].held)],
  past    <- [p \in Participants |-> {Revision(h) : h \in everHeld[p]}]

ImplementsRegister == Register!Spec

(* Two writers under one identity never both get their content held for    *)
(* the same (epoch, sequence): sequence_conflict keeps the first.          *)
OneContentPerRevision ==
  \A p \in Participants : \A g, h \in everHeld[p] :
    Revision(g) = Revision(h) => g = h

(* A document that reaches the wrong tracker leaves nothing behind: two    *)
(* trackers never retire the same minted epoch.                            *)
EpochsDoNotCross ==
  \A p, q \in Participants : p # q =>
    tracker[p].retired \cap tracker[q].retired \cap Mintable = {}

(* How long a held lease may be believed is bounded by the consumer's own  *)
(* clock at its admission, whatever the publisher's clock and lease        *)
(* setting, and redelivery does not extend it.                             *)
BoundedTrust ==
  \A p \in Participants : tracker[p].held # NoHeartbeat =>
    /\ tracker[p].held.expires > admittedAt[p]
    /\ tracker[p].held.expires <= admittedAt[p] + MaxSkew + MaxLease

(* A document admitted once and superseded since is always reported as     *)
(* the rollback or the epoch reuse that it is, never as skew, expiry or    *)
(* anything else: the purpose of checking lineage before skew.             *)
ReplayIsNamed ==
  \A p \in Participants, d \in sent \cup Foreign :
    ( /\ DocumentReason(d) = "none"
      /\ FromDict(d) \in everHeld[p] \ {tracker[p].held} )
    => Verdict(tracker[p], d, now) \in {"boot_id_reuse", "sequence_rollback"}

(* Whatever an issuer with a lawful lease setting publishes is             *)
(* structurally acceptable, at the boundaries of the window too, although  *)
(* the wire truncates both instants.                                       *)
IssuedIsAcceptable == \A d \in sent : DocumentReason(d) = "none"

(* A running process with an epoch of its own is never locked out: unless  *)
(* its epoch was superseded, its next heartbeat would be accepted.         *)
NextBeatAdmitted ==
  \A i \in Procs : issuer[i] # NoIssuer =>
    LET p == issuer[i].participant
        e == issuer[i].epoch
    IN  (/\ e \in Mintable
         /\ e \in tracker[p].retired => tracker[p].held.boot = e)
        => Verdict(tracker[p], ToDict(NextHeartbeat(i, now)), now) = "accepted"

-----------------------------------------------------------------------------
(* The inductive invariant: what ties a tracker to its own history.        *)
HistoryMatches ==
  \A p \in Participants :
    /\ tracker[p].participant = p
    /\ tracker[p].held = NoHeartbeat => everHeld[p] = {}
    /\ tracker[p].held # NoHeartbeat => tracker[p].held \in everHeld[p]
    /\ \A g \in everHeld[p] :
         /\ g.node = p
         /\ g.boot \in tracker[p].retired

(* The held heartbeat is the highest its epoch has reached. *)
HeldIsHighest ==
  \A p \in Participants : \A g \in everHeld[p] :
    g.boot = tracker[p].held.boot => g.seq <= tracker[p].held.seq

(* No document of the wire carries a null sequence.  True of every issuer; *)
(* of other publishers it has to be assumed, as admit() does not check it. *)
ForeignSequencesPresent == \A d \in Foreign : d.seq # Null
SequencesPresent ==
  /\ \A d \in sent : d.seq # Null
  /\ \A p \in Participants : \A g \in everHeld[p] : g.seq # Null

IInv ==
  /\ TypeOK
  /\ SequencesPresent
  /\ HistoryMatches
  /\ HeldIsHighest
  /\ OneContentPerRevision
  /\ BoundedTrust

-----------------------------------------------------------------------------
(* Statements of the repository that the code does not keep.               *)

(* convergence.py's rolling_deployment rule: once a newer instance is      *)
(* admitted, the older one's leases are refused, not interleaved.          *)
OldInstanceIsRefused ==
  [][\A p \in Participants :
       LET g == tracker[p].held
           h == tracker'[p].held
       IN  (g # NoHeartbeat /\ h.boot # g.boot) => ~Older(h.boot, g.boot)
    ]_vars

(* heartbeat-0.1.md section 2: a consumer that discards every optional     *)
(* member reaches exactly the same verdict.                                *)
StripDocument(d) == [d EXCEPT !.body = NoBody]
StripState(s) ==
  IF s.held = NoHeartbeat THEN s ELSE [s EXCEPT !.held.body = NoBody]

OptionalMembersIgnorable ==
  \A p \in Participants, d \in sent :
    Verdict(StripState(tracker[p]), StripDocument(d), now) =
      Verdict(tracker[p], d, now)

(* The schema types every required member; what is held conforms to it.    *)
HeldConformsToSchema ==
  \A p \in Participants : tracker[p].held # NoHeartbeat =>
    tracker[p].held.boot # Null /\ tracker[p].held.seq # Null
=============================================================================
