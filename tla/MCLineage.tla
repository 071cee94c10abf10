------------------------------ MODULE MCLineage ------------------------------
(* Instances of Lineage for TLC. *)
EXTENDS Lineage, TLC

CONSTANTS p1, p2, e1, e2, e3, b0, b1, i1, i2

MCNone == {}
MCOffsets == {0}
MCSkewedOffsets == {0, 2}
MCSteps == {-1}

(* A document another implementation could publish. *)
Foreigner(boot, seq, issued, expires) ==
  [version |-> "0.1", wellFormed |-> TRUE, node |-> p1, boot |-> boot,
   seq |-> seq, issued |-> issued, expires |-> expires, body |-> NoBody]

(* The longest lawful window, windows just outside both ends, a document   *)
(* of another version and one with a malformed member.                     *)
MCForeign ==
  { Foreigner(e3, 0, 1, 1 + MaxLease),
    Foreigner(e3, 1, 1, 2 + MaxLease),
    Foreigner(e3, 1, 2, 2),
    [Foreigner(e3, 1, 1, 2) EXCEPT !.version = "other"],
    [Foreigner(e3, 1, 1, 2) EXCEPT !.wellFormed = FALSE] }

(* Required members present, but null. *)
MCNullForeign ==
  { Foreigner(e3, Null, 0, 2), Foreigner(Null, 0, 0, 2),
    Foreigner(e3, 0, Null, 2), Foreigner(e3, 0, 0, Null),
    [Foreigner(e3, 0, 0, 2) EXCEPT !.node = Null] }

ProcSymmetry == Permutations(Procs)
=============================================================================
