--------------------------- MODULE MCListenStream ----------------------------
(* Instances of ListenStream for TLC. *)
EXTENDS ListenStream, TLC

CONSTANTS a, b

MCAsked == [types |-> {"resources"}, uris |-> {a}]

(* All, a part or nothing of what was asked for, and something else. *)
MCGrants ==
  { MCAsked, [types |-> {"resources"}, uris |-> {}], [types |-> {}, uris |-> {a}],
    [types |-> {"tools"}, uris |-> {a, b}] }

(* Notifications of another stream, a method no stream carries, and        *)
(* acknowledgements: without an id, and a second one, without filter or of *)
(* more than was asked for.                                                *)
MCForeign ==
  { [method |-> "tools"], [method |-> "other"],
    [method |-> "updated", uri |-> b, hint |-> 0] }
    \cup { [method |-> "acknowledged", id |-> NoId, filter |-> NoFilter],
           [method |-> "acknowledged", id |-> "s2", filter |-> NoFilter],
           [method |-> "acknowledged", id |-> "s2",
            filter |-> [types |-> {"tools"}, uris |-> {a}]] }
=============================================================================
