----------------------------- MODULE ListenStream -----------------------------
(***************************************************************************)
(* One subscriptions/listen response stream (subscriptions.py): the server *)
(* that acknowledges and then notifies, SubscriptionStream on the client's *)
(* side, and the consumer that is told of changes and reads the lease      *)
(* anew (convergence.py).                                                  *)
(*                                                                         *)
(* The frames come in the order they were sent, unless the transport       *)
(* misbehaves: it may repeat, reorder or lose them, and frames that belong *)
(* to other streams may turn up among them.  A frame that accept() refuses *)
(* is dropped.  A read takes time and may fail.                            *)
(***************************************************************************)
EXTENDS SequencesExt, Naturals

CONSTANTS
  Uris, Mine,      \* lease URIs, and the one the consumer tracks
  Asked,           \* the filter of the listen request
  Grants,          \* filters the server may acknowledge, whatever was asked
  Foreign,         \* frames of other streams
  NoFilter, NoId,
  MaxRevision, MaxFrames, MaxKept     \* bounds

ListTypes == {"tools", "prompts", "resources"}    \* list_changed of each
StreamMethods == ListTypes \cup {"updated"}
Filter == [types : SUBSET ListTypes, uris : SUBSET Uris]

(* hint is the revision under the heartbeat key of _meta, or 0 when there  *)
(* is none, or one that does not parse.                                    *)
Acknowledgement == [method : {"acknowledged"}, id : {"s1", "s2", NoId},
                    filter : Filter \cup {NoFilter}]
Notification == [method : ListTypes \cup {"other"}]
                  \cup [method : {"updated"}, uri : Uris, hint : 0..MaxRevision]
Frame == Acknowledgement \cup Notification

ASSUME ListenAssumption ==
  /\ Mine \in Uris
  /\ Asked \in Filter
  /\ Grants \subseteq Filter
  /\ Foreign \subseteq Frame
  /\ NoFilter \notin Filter
  /\ NoId \notin {"s1", "s2"}
  /\ MaxRevision \in Nat \ {0}
  /\ {MaxFrames, MaxKept} \subseteq Nat
  \* another stream may be about Mine, but announces no revision to come
  /\ \A f \in Foreign : (f.method = "updated" /\ f.uri = Mine) => f.hint <= 1

VARIABLES
  revision,   \* of the document under Mine
  granted,    \* the filter the server acknowledged
  wire,       \* the frames sent, in order
  taken,      \* how many of them the client has taken in order
  stream,     \* SubscriptionStream
  held,       \* the revision the consumer holds
  pending,    \* its refetch_pending
  fetch,      \* its refetch in flight
  disturbed,  \* history: the transport has misbehaved
  erred,      \* history: accept() has raised
  heard,      \* history: the latest change of Mine that was accepted
  missed      \* history: the latest change that a read made in vain was for

server == <<revision, granted>>
consumer == <<held, pending, fetch, missed>>
vars == <<server, wire, taken, stream, consumer, disturbed, erred, heard>>

Idle == [phase |-> "idle"]

Init ==
  /\ revision = 1
  /\ granted = NoFilter
  /\ wire = <<>>
  /\ taken = 0
  /\ stream = [acknowledged |-> FALSE, id |-> NoId, honoured |-> NoFilter,
               received |-> <<>>]
  /\ held = 0
  /\ pending = FALSE
  /\ fetch = Idle
  /\ disturbed = FALSE
  /\ erred = FALSE
  /\ heard = 0
  /\ missed = 0

-----------------------------------------------------------------------------
(* The stream *)

(* Mutated form: only the list changes count. *)
HonouredTypes(f) == f.types

HonouredMethods(f) == f.types \cup (IF f.uris = {} THEN {} ELSE {"updated"})

(* The acknowledgement's own filter counts, if it carries one.             *)
Acknowledged(s, f) ==
  [s EXCEPT !.acknowledged = TRUE, !.id = f.id,
            !.honoured = IF f.filter = NoFilter THEN Asked ELSE f.filter]

(* Mutated forms: a second acknowledgement replaces the first; what comes  *)
(* before any is kept for later.                                           *)
RefusedReplacing(s, f) ==
  IF f.method = "acknowledged" THEN f.id = NoId
  ELSE ~s.acknowledged \/ f.method \notin StreamMethods
         \/ f.method \notin HonouredMethods(s.honoured)

RefusedLate(s, f) ==
  IF f.method = "acknowledged" THEN s.acknowledged \/ f.id = NoId
  ELSE f.method \notin StreamMethods
         \/ (s.acknowledged /\ f.method \notin HonouredMethods(s.honoured))

(* accept() raises SubscriptionProtocolError.                              *)
Refused(s, f) ==
  IF f.method = "acknowledged" THEN s.acknowledged \/ f.id = NoId
  ELSE ~s.acknowledged \/ f.method \notin StreamMethods
         \/ f.method \notin HonouredMethods(s.honoured)

Accept(s, f) ==
  IF f.method = "acknowledged" THEN Acknowledged(s, f)
  ELSE [s EXCEPT !.received = Append(@, f)]

(* The caller hands a frame to accept(), and drops it if that raises.      *)
Offer(f) ==
  /\ stream' = IF Refused(stream, f) THEN stream ELSE Accept(stream, f)
  /\ erred' = (erred \/ Refused(stream, f))
  /\ heard' = IF ~Refused(stream, f) /\ f.method = "updated" /\ f.uri = Mine
              THEN Max({heard, IF f.hint = 0 THEN revision ELSE f.hint})
              ELSE heard

(* hints(), as far as they are about Mine.                                 *)
Hints(s) ==
  {n.hint : n \in {f \in Range(s.received) : f.method = "updated" /\ f.uri = Mine}}

-----------------------------------------------------------------------------
(* The server *)

Send(f) == Len(wire) < MaxFrames /\ wire' = Append(wire, f)

(* It may decline part of the filter, and nothing keeps it from naming     *)
(* more than was asked for.                                                *)
Acknowledge(f) ==
  /\ granted = NoFilter
  /\ granted' = f
  /\ Send([method |-> "acknowledged", id |-> "s1", filter |-> f])
  /\ UNCHANGED <<revision, taken, stream, consumer, disturbed, erred, heard>>

(* build_resource_updated(), with the hint or without.                     *)
Notify(f) ==
  /\ granted # NoFilter
  /\ \/ f.method \in granted.types
     \/ f.method = "updated" /\ f.uri \in granted.uris /\ f.hint \in {0, revision}
  /\ Send(f)
  /\ UNCHANGED <<server, taken, stream, consumer, disturbed, erred, heard>>

Publish ==
  /\ revision < MaxRevision
  /\ revision' = revision + 1
  /\ UNCHANGED <<granted, wire, taken, stream, consumer, disturbed, erred,
                 heard>>

-----------------------------------------------------------------------------
(* The transport *)

Deliver ==
  /\ taken < Len(wire)
  /\ taken' = taken + 1
  /\ Offer(wire[taken + 1])
  /\ UNCHANGED <<server, wire, consumer, disturbed>>

(* Again, out of order, or another stream's.                               *)
Misdeliver(f) ==
  /\ Len(stream.received) < MaxKept
  /\ Offer(f)
  /\ disturbed' = TRUE
  /\ UNCHANGED <<server, wire, taken, consumer>>

Lose ==
  /\ taken < Len(wire)
  /\ taken' = taken + 1
  /\ disturbed' = TRUE
  /\ UNCHANGED <<server, wire, stream, consumer, erred, heard>>

-----------------------------------------------------------------------------
(* The consumer: it takes the hints, whose only effect is a refetch owed,  *)
(* and empties the stream; it refetches when one is owed, or at its        *)
(* deadline.                                                               *)
Drain ==
  /\ stream.received # <<>>
  /\ pending' = (pending \/ \E h \in Hints(stream) : h = 0 \/ h # held)
  /\ stream' = [stream EXCEPT !.received = <<>>]
  /\ UNCHANGED <<server, wire, taken, held, fetch, missed, disturbed, erred,
                 heard>>

(* The flag is cleared before the read is made.                            *)
Ask ==
  /\ fetch = Idle
  /\ fetch' = [phase |-> "asked", owed |-> heard]
  /\ pending' = FALSE
  /\ UNCHANGED <<server, wire, taken, stream, held, missed, disturbed, erred,
                 heard>>

Answer ==
  /\ fetch.phase = "asked"
  /\ fetch' = [phase |-> "answered", owed |-> fetch.owed, doc |-> revision]
  /\ UNCHANGED <<server, wire, taken, stream, held, pending, missed, disturbed,
                 erred, heard>>

(* UNREACHABLE, before or after the answer; or an answer that is unbound,  *)
(* not authoritative or refused.  The refetch is no longer owed.           *)
AskedInVain ==
  /\ fetch # Idle
  /\ fetch' = Idle
  /\ missed' = Max({missed, fetch.owed})
  /\ UNCHANGED <<server, wire, taken, stream, held, pending, disturbed, erred,
                 heard>>

(* Mutated form: clears the flag when the read is over. *)
AdmittedThenCleared ==
  /\ fetch.phase = "answered"
  /\ held' = fetch.doc
  /\ fetch' = Idle
  /\ pending' = FALSE
  /\ UNCHANGED <<server, wire, taken, stream, missed, disturbed, erred, heard>>

Admitted ==
  /\ fetch.phase = "answered"
  /\ held' = fetch.doc
  /\ fetch' = Idle
  /\ UNCHANGED <<server, wire, taken, stream, pending, missed, disturbed, erred,
                 heard>>

Next ==
  \/ \E f \in Grants : Acknowledge(f)
  \/ \E f \in Notification : Notify(f)
  \/ Publish
  \/ Deliver
  \/ \E f \in Range(wire) \cup Foreign : Misdeliver(f)
  \/ Lose
  \/ Drain
  \/ Ask
  \/ Answer
  \/ AskedInVain
  \/ Admitted

Spec == Init /\ [][Next]_vars

-----------------------------------------------------------------------------
(* Within what was asked for. *)
Narrower(f) == f.types \subseteq Asked.types /\ f.uris \subseteq Asked.uris

Fetch ==
  [phase : {"asked"}, owed : 0..MaxRevision]
    \cup [phase : {"answered"}, owed : 0..MaxRevision, doc : 1..MaxRevision]
    \cup {Idle}

(* Types: every variable stays in its domain.                              *)
TypeOK ==
  /\ revision \in 1..MaxRevision
  /\ granted \in Filter \cup {NoFilter}
  /\ wire \in Seq(Frame) /\ taken \in 0..Len(wire)
  /\ stream \in [acknowledged : BOOLEAN, id : {"s1", "s2", NoId},
                 honoured : Filter \cup {NoFilter}, received : Seq(Notification)]
  /\ {held, heard, missed} \subseteq 0..MaxRevision
  /\ fetch \in Fetch
  /\ {pending, disturbed, erred} \subseteq BOOLEAN

(* A stream whose frames come in order is never refused one: what the      *)
(* server may send after its acknowledgement, however narrow, is what the  *)
(* client accepts after reading it (subscriptions.py, accept).             *)
OrderedStreamAccepted == ~disturbed => ~erred

(* Whatever the transport repeats, reorders or mixes in, the client takes  *)
(* nothing before the acknowledgement and nothing that it does not name    *)
(* (subscriptions.py, invariants 1 and 2) - so no type the client did not  *)
(* ask for, unless the peer has acknowledged more than was asked for.      *)
OnlyAgreedTypes ==
  \A i \in DOMAIN stream.received :
    /\ stream.acknowledged
    /\ stream.received[i].method \in HonouredMethods(stream.honoured)
    /\ stream.received[i].method \in HonouredMethods(Asked)
         \/ ~Narrower(stream.honoured)

(* What was agreed stands: no later frame changes the subscription's id or *)
(* what it may carry ("subscription acknowledged twice").                  *)
AgreementStands ==
  [][stream.acknowledged =>
       stream'.id = stream.id /\ stream'.honoured = stream.honoured]_vars

(* A change that was accepted is not forgotten: it waits in the stream, or *)
(* a refetch is owed or under way for it, or the consumer holds it - with  *)
(* metadata or without ("degrading to an unqualified refetch is strictly   *)
(* safer"), and also if it comes while a read is in flight.  Only a read   *)
(* made in vain forgets the changes it was for: the refetch is not owed    *)
(* again, and the next one waits for its deadline.                         *)
AcceptedIsNoticed ==
  \/ heard <= held
  \/ pending
  \/ Hints(stream) # {}
  \/ fetch # Idle /\ heard <= fetch.owed
  \/ heard <= missed
=============================================================================
