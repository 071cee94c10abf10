--------------------------- MODULE MCLegacySession ---------------------------
(* Instances of LegacySession for TLC. *)
EXTENDS LegacySession

CONSTANTS v1, v2

Stray(version, capabilities) ==
  [kind |-> "initialize", owner |-> "stray", version |-> version,
   capabilities |-> capabilities]

(* Another client's handshake, with every version and capability that the  *)
(* negotiation tells apart, and a result that names the modern era, which  *)
(* our client refuses.                                                     *)
MCStrays ==
  { Stray(v, Says(TRUE)) : v \in {v1, Modern, Missing, Malformed, Unknown} }
    \cup { Stray(v1, [Says(FALSE) EXCEPT !.legacy = l, !.modern = b]) :
             l \in {"absent", "malformed", "other_version", "ours"},
             b \in BOOLEAN }
    \cup { Stray(v1, [Says(TRUE) EXCEPT !.object = FALSE]),
           [kind |-> "initialized", owner |-> "stray"],
           [kind |-> "result", owner |-> "ours", version |-> Modern,
            capabilities |-> Says(FALSE)] }
=============================================================================
