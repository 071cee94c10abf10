----------------------------- MODULE MCDualEra ------------------------------
(* Instances of DualEra for TLC. *)
EXTENDS DualEra

CONSTANTS v1, m1

MCRevisions == <<m1>>

Stray(version) ==
  [kind |-> "initialize", owner |-> "stray", version |-> version,
   capabilities |-> [object |-> TRUE, modern |-> FALSE, legacy |-> "ours"]]

(* Another legacy client offers a modern revision.                         *)
MCStrays == {Stray(m1)}

Ask(method, meta) == [BuildRequest(method, "another", meta)
                        EXCEPT !.headers = NoHeaders]

(* Every way a request of another client is refused, and the methods that  *)
(* only one era has (cross_era.py, unsupported_version, downgrade_confusion).*)
MCForeign ==
  { Ask("resources/read", v1), Ask("resources/read", Malformed),
    Ask("resources/subscribe", m1), Ask("", m1),
    [Ask("resources/read", m1) EXCEPT !.headers.name = "ours"] }

(* A server of the handshake era, one with another version of the          *)
(* extension, and one without hints.                                       *)
MCOffers ==
  { [versions |-> {v1}, extension |-> "ours", hints |-> TRUE],
    [versions |-> {v1, m1}, extension |-> "other_version", hints |-> TRUE],
    [versions |-> {Unknown, m1}, extension |-> "ours", hints |-> FALSE] }
=============================================================================
