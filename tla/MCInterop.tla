------------------------------ MODULE MCInterop -------------------------------
(* Instances of Interop for TLC. *)
EXTENDS Interop, TLC

CONSTANTS me, other, e1, e2

MCEpochOf == ("a" :> e1) @@ ("b" :> e2) @@ ("twin" :> e2)
MCSkewOf == ("a" :> 0) @@ ("b" :> 0) @@ ("twin" :> 2)

(* Two services, each with a principal; "guest" is in no table.            *)
MCTable == ("api" :> {me}) @@ ("billing" :> {other})

(* The other participant's document, and one no publisher may issue.       *)
Mine(n, l) == [version |-> "0.1", wellFormed |-> TRUE, node |-> n, boot |-> e1,
            seq |-> 0, issued |-> 1, expires |-> 1 + l, body |-> NoBody]
MCMisrouted == {Mine(other, Lease), Mine(me, 0)}

(* A document that declares null.                                          *)
MCUndeclared == {[Mine(me, Lease) EXCEPT !.version = Null]}

(* What the theorems about clean-room and reconnecting consumers ask for.  *)
ASSUME MCMisroutedOK ==
  Misrouted = MCMisrouted => MisroutedWhole /\ NoImpostors
=============================================================================
