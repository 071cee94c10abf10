-------------------------- MODULE MCReleaseProcess ---------------------------
(* Instances of ReleaseProcess for TLC. *)
EXTENDS ReleaseProcess, TLC

(* The cases the levels name, and one besides in the matrix without any.   *)
MCCases ==
  ("cross-era" :> {"current-current-sdk", "downgrade-confusion"})
  @@ ("distributed-runtime" :> {"round-robin"})
  @@ ("identity-binding" :> {"gates-convergence", "policy-gap-divergence"})
  @@ ("clean-room" :> {"no-link", "bidirectional-interop"})
  @@ ("measurement" :> {"bytes", "hint-flood"})
  @@ ("isolation" :> {"boundaries", "no-leaks", "core-size"})

(* v1 and v2 differ outside the attested sources; v3 has a core above the  *)
(* ceiling and a red suite; v4 one in the budget.                                *)
MCDigestOf == ("v1" :> "d1") @@ ("v2" :> "d1") @@ ("v3" :> "d3") @@ ("v4" :> "d4")
MCLocOf == ("v1" :> 2) @@ ("v2" :> 2) @@ ("v3" :> 3) @@ ("v4" :> 1)
MCDocumented == [v \in Versions |-> v # "v2"]
MCSuitePasses == [v \in Versions |-> v # "v3"]
=============================================================================
