---------------------------- MODULE HeartbeatCore ----------------------------
(***************************************************************************)
(* The portable core's judgement, as pure operators: what a wire document  *)
(* says (model.py), whether it is structurally acceptable (validation.py)  *)
(* and whether it supersedes what a consumer holds (lineage.py).           *)
(*                                                                         *)
(* Abstractions.  Names, epochs and the `extensions` object are opaque     *)
(* values.  An instant is an integer number of clock ticks; the wire       *)
(* carries MsTicks-aligned instants, as format_rfc3339 truncates to        *)
(* milliseconds.  Every structural rule that the properties do not tell    *)
(* apart (identifier patterns, namespaced keys, missing members, types     *)
(* other than null) is the flag `wellFormed`.  A member that is present    *)
(* with JSON null is the value Null, because the validator treats it       *)
(* differently from every other bad value.                                 *)
(***************************************************************************)
EXTENDS Integers

CONSTANTS
  Participants,  \* participant ids (node_id on the wire)
  Epochs,        \* epoch ids (boot_id on the wire)
  Bodies,        \* contents of the optional `extensions` member
  NoBody,        \* the empty `extensions`
  Null,          \* a member present with JSON null
  NoHeartbeat,   \* Python's None where a Heartbeat is expected
  MsTicks,       \* clock ticks per millisecond of wire resolution
  MaxSkew,       \* a consumer's bound on |issued_at - now|, in ticks
  MaxLease       \* MAX_LEASE_SECONDS, in ticks

Versions == {"0.1", "other"}

ASSUME CoreAssumption ==
  /\ NoBody \in Bodies
  /\ Null \notin Participants \cup Epochs \cup Versions
  /\ Null \notin Int
  /\ MsTicks \in Nat \ {0}
  /\ MaxSkew \in Nat
  /\ MaxLease \in Nat \ {0}
  /\ MaxLease % MsTicks = 0      \* 3600 s is a whole number of milliseconds

(* A heartbeat as from_dict builds it.  node_id never is Null in a held    *)
(* heartbeat, and the instants never are: admit refuses or raises first.   *)
Heartbeat == [node : Participants \cup {Null}, boot : Epochs \cup {Null},
              seq : Nat \cup {Null}, issued : Int, expires : Int,
              body : Bodies]

Document == [version : Versions \cup {Null}, wellFormed : BOOLEAN,
             node : Participants \cup {Null}, boot : Epochs \cup {Null},
             seq : Nat \cup {Null}, issued : Int \cup {Null},
             expires : Int \cup {Null}, body : Bodies]

-----------------------------------------------------------------------------
(* Wire form *)

Truncate(t) == (t \div MsTicks) * MsTicks

ToDict(h) ==
  [version |-> "0.1", wellFormed |-> TRUE, node |-> h.node, boot |-> h.boot,
   seq |-> h.seq, issued |-> Truncate(h.issued),
   expires |-> Truncate(h.expires), body |-> h.body]

(* from_dict raises (ValueError) on an instant it cannot parse; the        *)
(* members the core does not know are gone afterwards.                     *)
FromDictRaises(d) == d.issued = Null \/ d.expires = Null

FromDict(d) ==
  [node |-> d.node, boot |-> d.boot, seq |-> d.seq, issued |-> d.issued,
   expires |-> d.expires, body |-> d.body]

(* sha256 over the canonical JSON of to_dict: equal exactly when to_dict   *)
(* is, collisions left aside.                                              *)
Digest(h) == ToDict(h)

IsFresh(h, now) == h.expires - now > 0

-----------------------------------------------------------------------------
(* Structure: document_reason and the two checks it calls *)

(* Mutated forms: no upper limit; the limit exclusive. *)
ExpiryWindowUnlimited(d) ==
  IF ~FromDictRaises(d) /\ d.expires - d.issued <= 0
  THEN "invalid_expiry_window" ELSE "none"

ExpiryWindowExclusive(d) ==
  IF FromDictRaises(d) THEN "none"
  ELSE IF d.expires - d.issued <= 0 THEN "invalid_expiry_window"
  ELSE IF d.expires - d.issued >= MaxLease THEN "expiry_window_too_long"
  ELSE "none"

ExpiryWindowViolation(d) ==
  IF FromDictRaises(d) THEN "none"
  ELSE IF d.expires - d.issued <= 0 THEN "invalid_expiry_window"
  ELSE IF d.expires - d.issued > MaxLease THEN "expiry_window_too_long"
  ELSE "none"

DocumentReason(d) ==
  IF d.version # "0.1" THEN "unsupported_extension_version"
  ELSE IF ExpiryWindowViolation(d) # "none" THEN ExpiryWindowViolation(d)
  ELSE IF ~d.wellFormed THEN "schema_invalid"
  ELSE "none"

-----------------------------------------------------------------------------
(* Lineage and freshness *)

LineageState == [participant : Participants,
                 held : Heartbeat \cup {NoHeartbeat},
                 retired : SUBSET (Epochs \cup {Null})]

EmptyLineage(p) == [participant |-> p, held |-> NoHeartbeat, retired |-> {}]

SameEpoch(s, c) == s.held # NoHeartbeat /\ c.boot = s.held.boot

IsDuplicate(s, c) ==
  /\ SameEpoch(s, c)
  /\ c.seq = s.held.seq
  /\ Digest(c) = Digest(s.held)

(* `candidate.sequence < held.sequence` with a None on one side *)
ComparisonRaises(s, c) ==
  SameEpoch(s, c) /\ (c.seq = Null \/ s.held.seq = Null)

(* Mutated forms: no conflict check; the held epoch counts as retired.     *)
LastWriterWins(s, c) ==
  IF ~SameEpoch(s, c)
  THEN IF c.boot \in s.retired THEN "boot_id_reuse" ELSE "none"
  ELSE IF c.seq < s.held.seq THEN "sequence_rollback" ELSE "none"

RetiredIsFinal(s, c) ==
  IF c.boot \in s.retired THEN "boot_id_reuse" ELSE "none"

CheckLineage(s, c) ==
  IF ~SameEpoch(s, c)
  THEN IF c.boot \in s.retired THEN "boot_id_reuse" ELSE "none"
  ELSE IF c.seq < s.held.seq THEN "sequence_rollback"
  ELSE IF c.seq = s.held.seq /\ Digest(c) # Digest(s.held)
       THEN "sequence_conflict"
  ELSE "none"

CheckFreshness(c, now) ==
  IF c.issued - now > MaxSkew \/ now - c.issued > MaxSkew
  THEN "clock_skew_exceeded"
  ELSE IF ~IsFresh(c, now) THEN "expired_on_arrival"
  ELSE "none"

Outcomes == {"accepted", "duplicate", "raised",
             "unsupported_extension_version", "invalid_expiry_window",
             "expiry_window_too_long", "schema_invalid", "node_id_mismatch",
             "boot_id_reuse", "sequence_rollback", "sequence_conflict",
             "clock_skew_exceeded", "expired_on_arrival"}

(* Mutated forms: freshness before lineage; no routing check.             *)
SkewBeforeLineage(s, d, now) ==
  LET c == FromDict(d) IN
  IF DocumentReason(d) # "none" THEN DocumentReason(d)
  ELSE IF FromDictRaises(d) THEN "raised"
  ELSE IF c.node # s.participant THEN "node_id_mismatch"
  ELSE IF IsDuplicate(s, c) THEN "duplicate"
  ELSE IF CheckFreshness(c, now) # "none" THEN CheckFreshness(c, now)
  ELSE IF CheckLineage(s, c) # "none" THEN CheckLineage(s, c)
  ELSE "accepted"

UnroutedVerdict(s, d, now) ==
  LET c == FromDict(d) IN
  IF DocumentReason(d) # "none" THEN DocumentReason(d)
  ELSE IF IsDuplicate(s, c) THEN "duplicate"
  ELSE IF CheckLineage(s, c) # "none" THEN CheckLineage(s, c)
  ELSE IF CheckFreshness(c, now) # "none" THEN CheckFreshness(c, now)
  ELSE "accepted"

(* The first of the normative checks that speaks.  "raised" is an          *)
(* exception other than the package's own leaving admit.                   *)
Verdict(s, d, now) ==
  LET c == FromDict(d) IN
  IF DocumentReason(d) # "none" THEN DocumentReason(d)
  ELSE IF FromDictRaises(d) THEN "raised"
  ELSE IF c.node # s.participant THEN "node_id_mismatch"
  ELSE IF IsDuplicate(s, c) THEN "duplicate"
  ELSE IF ComparisonRaises(s, c) THEN "raised"
  ELSE IF CheckLineage(s, c) # "none" THEN CheckLineage(s, c)
  ELSE IF CheckFreshness(c, now) # "none" THEN CheckFreshness(c, now)
  ELSE "accepted"

(* Mutated forms: the epoch is not retired; the wrong member is; the lease *)
(* keeps the instant it was first admitted with.                           *)
AcceptWithoutRetiring(s, c) == [s EXCEPT !.held = c]
AcceptRetiringSequence(s, c) == [s EXCEPT !.held = c, !.retired = @ \cup {c.seq}]
AcceptMerging(s, c) ==
  [s EXCEPT !.held = IF @ = NoHeartbeat THEN c ELSE [c EXCEPT !.issued = s.held.issued],
            !.retired = @ \cup {c.boot}]
Accept(s, c) == [s EXCEPT !.held = c, !.retired = @ \cup {c.boot}]

(* admit(): the outcome, and the state it leaves *)
Admit(s, d, now) ==
  LET v == Verdict(s, d, now) IN
  [outcome |-> v,
   state   |-> IF v = "accepted" THEN Accept(s, FromDict(d)) ELSE s]
=============================================================================
