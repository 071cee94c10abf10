---------------------------- MODULE LeaseRegister ----------------------------
(***************************************************************************)
(* What a lease tracker promises, with no documents, clocks or reasons: a  *)
(* register per participant whose revision only ever moves forward.        *)
(* Inside an epoch it moves to a higher sequence; between epochs it moves  *)
(* to an epoch that participant has never been in.                         *)
(***************************************************************************)
EXTENDS Naturals

CONSTANTS Participants, Epochs, Nothing

VARIABLES
  current,   \* the revision each register holds, or Nothing
  past       \* every revision it has held, the current one included

vars == <<current, past>>

Revision == [boot : Epochs, seq : Nat]

Forward(p, r) ==
  \/ /\ current[p] # Nothing
     /\ r.boot = current[p].boot
     /\ r.seq > current[p].seq
  \/ \A q \in past[p] : q.boot # r.boot

Init ==
  /\ current = [p \in Participants |-> Nothing]
  /\ past = [p \in Participants |-> {}]

(* The register of p takes some revision; the others stand still. *)
Advance(p) ==
  /\ current'[p] \in Revision
  /\ Forward(p, current'[p])
  /\ current' = [current EXCEPT ![p] = current'[p]]
  /\ past' = [past EXCEPT ![p] = @ \cup {current'[p]}]

Next == \E p \in Participants : Advance(p)

Spec == Init /\ [][Next]_vars

-----------------------------------------------------------------------------
TypeOK ==
  /\ current \in [Participants -> Revision \cup {Nothing}]
  /\ past \in [Participants -> SUBSET Revision]

(* No revision is overtaken within its epoch: the current one is the       *)
(* highest its epoch has reached.                                          *)
CurrentIsHighest ==
  \A p \in Participants : current[p] # Nothing =>
    /\ current[p] \in past[p]
    /\ \A q \in past[p] : q.boot = current[p].boot => q.seq <= current[p].seq

NothingBeforeTheFirst ==
  \A p \in Participants : current[p] = Nothing => past[p] = {}

(* A register never moves back to a revision it has held (replay), nor to  *)
(* an epoch it has left (resurrection).                                    *)
Returns(p) ==
  \/ current'[p] \in past[p]
  \/ /\ current'[p].boot # current[p].boot
     /\ \E q \in past[p] : q.boot = current'[p].boot

NeverReturns ==
  [][\A p \in Participants :
       (current[p] # Nothing /\ current'[p] # current[p]) => ~Returns(p)]_vars
=============================================================================
