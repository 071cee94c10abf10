------------------------------ MODULE Consumers ------------------------------
(***************************************************************************)
(* The three consumers of the repository, as pure operators on their       *)
(* state: HeartbeatConsumer of the current era (convergence.py), driven    *)
(* synchronously as its tests and the conformance suite do,                *)
(* LegacyHeartbeatConsumer (resources.py) and CleanRoomConsumer, which was *)
(* written from the schema alone (cleanroom/hb_cleanroom/participant.py).  *)
(* Module Convergence has the first with reads that take time.             *)
(***************************************************************************)
EXTENDS HeartbeatCore, Identity, FiniteSets

CONSTANT
  Unreachable   \* a read that raises

-----------------------------------------------------------------------------
(* HeartbeatConsumer: what it holds, and how one read ends.  Its hints, its*)
(* deadline and its counters, which have no part in it, are in Convergence.*)
(* Without a binder_factory binds is FALSE; with one, its policy is a table*)
(* in compact keys.  An answer is Unreachable or a document with the       *)
(* principal of its response.                                              *)

NewConsumer(p, binds) == [tracker |-> EmptyLineage(p), binds |-> binds]

HeldBy(c) == c.tracker.held

(* The facet of one answer: none without a binder.                         *)
FacetOf(c, table, a) ==
  IF c.binds THEN Evaluate(table, a.principal, c.tracker.participant)
  ELSE [binding |-> "none", reason |-> "none"]

(* refetch(): what it concludes ...                                        *)
Concludes(c, table, a, now) ==
  IF a = Unreachable THEN "unreachable"
  ELSE LET facet == FacetOf(c, table, a) IN
       IF EnforceRaises(facet) THEN "identity_unbound"
       ELSE IF c.binds /\ ~Authoritative(facet) THEN "non_authoritative"
       ELSE LET v == Verdict(c.tracker, a.doc, now) IN
            CASE v = "accepted"  -> "advanced"
              [] v = "duplicate" -> "unchanged"
              [] v = "raised"    -> "raised"
              [] OTHER           -> "refused"

(* ... and the consumer it leaves.                                         *)
Refetch(c, table, a, now) ==
  IF Concludes(c, table, a, now) = "advanced"
  THEN [c EXCEPT !.tracker = Accept(@, FromDict(a.doc))] ELSE c

-----------------------------------------------------------------------------
(* LegacyHeartbeatConsumer.  binder is the session's, or none.             *)

NewLegacyConsumer(p, binds) == [tracker |-> EmptyLineage(p), binds |-> binds]

(* The publisher the document names, or this consumer's own participant    *)
(* if it names none.                                                       *)
Claimed(s, d) == IF d.node = Null THEN s.tracker.participant ELSE d.node

(* Mutated form: the claim is taken to be the one expected. *)
EvidenceExpected(s, table, callable, principal, d) ==
  IF ~s.binds THEN UnverifiedEvidence
  ELSE IF d.node = s.tracker.participant THEN Bound
  ELSE Evidence(table, callable, principal, s.tracker.participant)

EvidenceOf(s, table, callable, principal, d) ==
  IF ~s.binds THEN UnverifiedEvidence
  ELSE Evidence(table, callable, principal, Claimed(s, d))

(* refetch(): refused without a read unless the session has negotiated;    *)
(* then judged twice, by the core and by the binder.  "unverified" moves   *)
(* the held lease.                                                         *)
LegacyConcludes(s, ready, table, callable, a, now) ==
  IF ~ready THEN "heartbeat_not_negotiated"
  ELSE IF a = Unreachable THEN "raised"
  ELSE IF Verdict(s.tracker, a.doc, now) = "raised" THEN "raised"
  ELSE IF EvidenceOf(s, table, callable, a.principal, a.doc).binding = "unbound"
       THEN "identity_unbound"
  ELSE Verdict(s.tracker, a.doc, now)

LegacyRefetch(s, ready, table, callable, a, now) ==
  IF LegacyConcludes(s, ready, table, callable, a, now) = "accepted"
  THEN [s EXCEPT !.tracker = Accept(@, FromDict(a.doc))] ELSE s

-----------------------------------------------------------------------------
(* CleanRoomConsumer *)

NewCleanRoom(p) == [participant |-> p, held |-> NoHeartbeat, seen |-> {}]

(* validate(): the core's structure, read off the schema; an instant that  *)
(* is no instant is a violation, and so is a version other than 0.1, but   *)
(* not a null one.                                                         *)
CleanValid(d) ==
  /\ d.version \in {"0.1", Null}
  /\ d.wellFormed
  /\ ~FromDictRaises(d)
  /\ d.expires > d.issued
  /\ d.expires - d.issued <= MaxLease

(* Mutated form: an epoch seen before is as good as a new one. *)
CleanVerdictForgets(c, d, now) ==
  IF ~CleanValid(d) THEN "schema_invalid"
  ELSE IF d.node # c.participant THEN "node_id_mismatch"
  ELSE IF now >= d.expires THEN "expired_on_arrival"
  ELSE IF c.held = NoHeartbeat \/ d.boot # c.held.boot THEN "ok"
  ELSE IF d.seq = Null \/ c.held.seq = Null THEN "raised"
  ELSE IF d.seq < c.held.seq THEN "sequence_rollback"
  ELSE IF d.seq > c.held.seq THEN "ok"
  ELSE IF d = c.held THEN "duplicate" ELSE "sequence_conflict"

(* Expiry comes before lineage here, and no skew is looked for.  The       *)
(* digest is over the document as it came.  "raised" is the comparison of  *)
(* a sequence with None.                                                   *)
CleanVerdict(c, d, now) ==
  IF ~CleanValid(d) THEN "schema_invalid"
  ELSE IF d.node # c.participant THEN "node_id_mismatch"
  ELSE IF now >= d.expires THEN "expired_on_arrival"
  ELSE IF c.held = NoHeartbeat \/ d.boot # c.held.boot
       THEN IF d.boot \in c.seen THEN "boot_id_reuse" ELSE "ok"
  ELSE IF d.seq = Null \/ c.held.seq = Null THEN "raised"
  ELSE IF d.seq < c.held.seq THEN "sequence_rollback"
  ELSE IF d.seq > c.held.seq THEN "ok"
  ELSE IF d = c.held THEN "duplicate" ELSE "sequence_conflict"

CleanAdmit(c, d, now) ==
  IF CleanVerdict(c, d, now) = "ok"
  THEN [c EXCEPT !.held = d, !.seen = @ \cup {d.boot}] ELSE c
=============================================================================
