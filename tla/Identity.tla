------------------------------- MODULE Identity -------------------------------
(***************************************************************************)
(* Whether an answer's principal may speak for a participant: the binder   *)
(* of the current era, one per request (mcp_heartbeat_current/identity.py),*)
(* and that of the legacy era, one per session                             *)
(* (mcp_heartbeat_legacy/identity.py).  Both decide over a policy that the *)
(* deployment injects; neither owns one.                                   *)
(*                                                                         *)
(* A policy is a table from keys to the participants they may publish.     *)
(* The current era looks a principal up under its compact form, the legacy *)
(* era under the bare name.                                                *)
(***************************************************************************)

CONSTANTS
  NoPrincipal,   \* no principal: Python's None
  NoOne          \* a principal with nothing in it: Principal(), or ""

ASSUME IdentityAssumption == NoPrincipal # NoOne

Bindings == {"bound", "unbound", "unverified"}
Reasons == {"none", "no_principal_evidence", "principal_not_permitted",
            "no_policy_for_principal", "no_binder_injected"}

Bound == [binding |-> "bound", reason |-> "none"]
Unbound(reason) == [binding |-> "unbound", reason |-> reason]
Unverified(reason) == [binding |-> "unverified", reason |-> reason]

-----------------------------------------------------------------------------
(* The current era *)

(* Principal.compact(): the triple, which is no bare name.                 *)
Compact(principal) == <<principal>>

IsEmpty(principal) == principal \in {NoPrincipal, NoOne}

(* StaticPermittedParticipants: TRUE, FALSE, or no opinion.                *)
Permits(table, principal, participant) ==
  IF Compact(principal) \notin DOMAIN table THEN "no_opinion"
  ELSE IF participant \in table[Compact(principal)] THEN "yes" ELSE "no"

(* Mutated form: before decision D2, silence was missing evidence. *)
EvaluateBeforeD2(table, principal, participant) ==
  IF IsEmpty(principal) THEN Unverified("no_principal_evidence")
  ELSE CASE Permits(table, principal, participant) = "yes" -> Bound
         [] Permits(table, principal, participant) = "no" ->
              Unbound("principal_not_permitted")
         [] OTHER -> Unverified("no_policy_for_principal")

(* RequestIdentityBinder.evaluate                                          *)
Evaluate(table, principal, participant) ==
  IF IsEmpty(principal) THEN Unverified("no_principal_evidence")
  ELSE CASE Permits(table, principal, participant) = "yes" -> Bound
         [] Permits(table, principal, participant) = "no" ->
              Unbound("principal_not_permitted")
         [] OTHER -> Unbound("no_policy_for_principal")

Authoritative(binding) == binding.binding = "bound"

(* enforce() raises IdentityUnbound.                                       *)
EnforceRaises(binding) == binding.binding = "unbound"

-----------------------------------------------------------------------------
(* The legacy era *)

IsPermitted(table, principal, participant) ==
  principal \in DOMAIN table /\ participant \in table[principal]

(* A policy injected as a predicate cannot say why it refuses.             *)
RefusalReason(table, callable, principal) ==
  IF ~callable /\ principal \notin DOMAIN table
  THEN "no_policy_for_principal" ELSE "principal_not_permitted"

(* LegacySessionIdentityBinder.evidence: "" is a principal like another.   *)
Evidence(table, callable, principal, claimed) ==
  IF principal = NoPrincipal THEN Unverified("no_principal_evidence")
  ELSE IF IsPermitted(table, principal, claimed) THEN Bound
  ELSE Unbound(RefusalReason(table, callable, principal))

(* unverified_evidence(): no binder was injected at all.                   *)
UnverifiedEvidence == Unverified("no_binder_injected")

(* One policy in both key shapes.                                          *)
InCompactKeys(table) ==
  [k \in {Compact(p) : p \in DOMAIN table} |->
     table[CHOOSE p \in DOMAIN table : Compact(p) = k]]
=============================================================================
