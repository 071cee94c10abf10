---------------------------- MODULE MCConvergence ----------------------------
(* Instances of Convergence for TLC. *)
EXTENDS Convergence, FiniteSets, TLC

CONSTANTS p1, e1, e2, b0, owner, stranger

MCNone == {}
MCStepBack == {-2}
MCStepForward == {2}

(* Time without end.  Only differences of instants matter, and only the    *)
(* order of an epoch's sequences, so instead of going beyond MaxTime the   *)
(* clock stands and everything else gets older; what is MaxTime old grows  *)
(* no older, and sequences are counted anew among the documents in play.   *)
(* The histories, which no action and not Converges reads, are forgotten.  *)
Older(t) == IF t \in Int /\ t > 0 THEN t - 1 ELSE t

InPlay ==
  ({pub.doc, Held}
     \cup (IF fetch.phase = "answered" THEN {fetch.doc} ELSE {}))
  \ {NoDocument, NoHeartbeat}

Place(d) == Cardinality({c.seq : c \in {x \in InPlay : x.boot = d.boot /\ x.seq < d.seq}})

Aged(d) ==
  IF d \in {NoDocument, NoHeartbeat} THEN d
  ELSE [d EXCEPT !.issued = Older(@), !.expires = Older(@), !.seq = Place(d)]

TimeGoesOn ==
  /\ now = MaxTime
  /\ InTime
  /\ pub' = IF ~pub.up THEN pub
            ELSE [pub EXCEPT !.doc = Aged(@), !.renewed = Older(@),
                             !.next = Place(pub.doc) + 1]
  /\ tracker' = [tracker EXCEPT !.held = Aged(@)]
  /\ lastFetch' = Older(lastFetch)
  /\ fetch' = CASE fetch = Idle -> Idle
                [] fetch.phase = "asked" ->
                     [fetch EXCEPT !.at = Older(@), !.since = Older(@)]
                [] OTHER ->
                     [fetch EXCEPT !.at = Older(@), !.since = Older(@), !.doc = Aged(@)]
  /\ lastPoll' = Older(lastPoll)
  /\ asked' = 0 /\ hinted' = NoDocument /\ calm' = FALSE
  /\ UNCHANGED <<clocks, used, pending, heldFrom>>

EndlessSpec ==
  /\ Init /\ [][Next \/ TimeGoesOn]_vars
  /\ WF_vars(Tick \/ TimeGoesOn) /\ FairlyServed
=============================================================================
