------------------------------- MODULE Interop -------------------------------
(***************************************************************************)
(* Several replicas serve one participant behind a gateway (Replica,       *)
(* Gateway, runtime.py), and the repository's consumers read through it:   *)
(* HeartbeatConsumer, LegacyHeartbeatConsumer over a session, the          *)
(* clean-room consumer, and a HeartbeatConsumer that reconnects, each with *)
(* its own rules about the same answers.                                   *)
(*                                                                         *)
(* One Read is one answer of the gateway, put to all of them at the same   *)
(* instant: what they then disagree about is theirs.  Reads that fail, and *)
(* the time between asking and judging, are in Convergence; the legacy     *)
(* session is up.  `apart` collects the reasons for which they may.        *)
(***************************************************************************)
EXTENDS Consumers

CONSTANTS
  Self,        \* the participant read
  Replicas, EpochOf, \* serving processes, and the epoch each has
  SkewOf,      \* what a replica's clock shows, minus the true time
  Principals,  \* who may authenticate a response
  Table,       \* the injected policy, in bare names
  Callable,    \* whether the legacy binder gets it as a predicate
  Lease,
  Misrouted,   \* documents that are not a replica's
  NoDocument,  \* a replica that has issued nothing yet
  MaxBeats, MaxTime    \* bounds: documents issued in all, and instants

ASSUME InteropAssumption ==
  /\ Self \in Participants
  /\ EpochOf \in [Replicas -> Epochs]
  /\ SkewOf \in [Replicas -> Int]
  /\ Principals \cap {NoPrincipal, NoOne} = {}
  /\ Callable \in BOOLEAN
  /\ Misrouted \subseteq Document
  /\ Lease \in 1..MaxLease
  /\ IsFiniteSet(Replicas)
  /\ NoHeartbeat \notin Heartbeat \cup Document
                     \cup [boot : Epochs \cup {Null}, seq : Nat]
  /\ Unreachable \notin [doc : Document, principal : Principals \cup {NoPrincipal}]

VARIABLES
  now,
  replica,   \* each process: its issuer's next sequence, and its document
  current,   \* HeartbeatConsumer, with a binder
  legacy,    \* LegacyHeartbeatConsumer, with one
  bare,      \* HeartbeatConsumer without a binder
  clean,     \* CleanRoomConsumer
  newcomer,  \* HeartbeatConsumer that has just connected
  apart,     \* history: why some of them may disagree
  shown      \* history: every revision each has held

vars == <<now, replica, current, legacy, bare, clean, newcomer, apart,
          shown>>

CompactTable == InCompactKeys(Table)
Anyone == Principals \cup {NoPrincipal}

Init ==
  /\ now = 0
  /\ replica = [r \in Replicas |-> [next |-> 0, doc |-> NoDocument]]
  /\ current = NewConsumer(Self, TRUE)
  /\ legacy = NewLegacyConsumer(Self, TRUE)
  /\ bare = NewConsumer(Self, FALSE)
  /\ clean = NewCleanRoom(Self)
  /\ newcomer = NewConsumer(Self, TRUE)
  /\ apart = {}
  /\ shown = [current |-> {}, legacy |-> {}, clean |-> {}]

Issued == UNION {{r} \X (0..(replica[r].next - 1)) : r \in Replicas}

readers == <<current, legacy, bare, clean, newcomer, apart, shown>>

(* Replica.beat(), and its first document, which is issued on construction.*)
Beat(r) ==
  LET t == now + SkewOf[r] IN
  /\ Cardinality(Issued) < MaxBeats
  /\ replica' = [replica EXCEPT ![r] =
       [next |-> @.next + 1,
        doc |-> ToDict([node |-> Self, boot |-> EpochOf[r], seq |-> @.next,
                        issued |-> t, expires |-> t + Lease,
                        body |-> NoBody])]]
  /\ UNCHANGED <<now, readers>>

Tick ==
  /\ now < MaxTime
  /\ now' = now + 1
  /\ UNCHANGED <<replica, readers>>

(* Round robin or pinned, the gateway answers from whichever replica it    *)
(* picks, and has no idea that they disagree.                              *)
Served == {replica[r].doc : r \in Replicas} \ {NoDocument}

(* Why the consumers may part over an answer: nobody vouches for it, or    *)
(* clocks do not agree about it.                                           *)
Excuses(d, pr) ==
  (IF pr = NoPrincipal THEN {"unverified"} ELSE {})
    \cup (IF d.issued - now > MaxSkew \/ now - d.issued > MaxSkew
          THEN {"skewed"} ELSE {})

Judge(c, a) == Refetch(c, CompactTable, a, now)

Revision(h) == [boot |-> h.boot, seq |-> h.seq]
Shows(h) == IF h = NoHeartbeat THEN {} ELSE {Revision(h)}

Read(d, pr) ==
  LET a == [doc |-> d, principal |-> pr] IN
  /\ current' = Judge(current, a)
  /\ bare' = Judge(bare, a)
  /\ newcomer' = Judge(newcomer, a)
  /\ legacy' = LegacyRefetch(legacy, TRUE, Table, Callable, a, now)
  /\ clean' = CleanAdmit(clean, d, now)
  /\ apart' = apart \cup Excuses(d, pr)
  /\ shown' = [current |-> shown.current \cup Shows(HeldBy(current')),
               legacy |-> shown.legacy \cup Shows(HeldBy(legacy')),
               clean |-> shown.clean \cup Shows(clean'.held)]
  /\ UNCHANGED <<now, replica>>

Reconnect ==
  /\ newcomer' = NewConsumer(Self, TRUE)
  /\ UNCHANGED <<now, replica, current, legacy, bare, clean, apart, shown>>

Next ==
  \/ \E r \in Replicas : Beat(r)
  \/ Tick
  \/ \E d \in Served \cup Misrouted, pr \in Anyone : Read(d, pr)
  \/ Reconnect

Spec == Init /\ [][Next]_vars

-----------------------------------------------------------------------------
(* Types: every variable stays in its domain.                              *)
TypeOK ==
  /\ now \in 0..MaxTime
  /\ replica \in [Replicas -> [next : 0..MaxBeats,
                               doc : Document \cup {NoDocument}]]
  /\ {current.tracker, bare.tracker, newcomer.tracker, legacy.tracker}
       \subseteq LineageState
  /\ clean.held \in Document \cup {NoHeartbeat}
  /\ clean.seen \subseteq Epochs \cup {Null}
  /\ apart \subseteq {"unverified", "skewed"}

(* Both eras bind alike whatever a replica serves, whoever vouches for it: *)
(* though the legacy binder goes by the document's claim and the current   *)
(* one by the participant it was built for, an operator is told the same   *)
(* (identity_matrix.py, eras_agree_on_every_input; decision D2).           *)
ErasBindAlike ==
  \A d \in Served, pr \in Anyone :
    Evaluate(CompactTable, pr, current.tracker.participant).binding
      = EvidenceOf(legacy, Table, Callable, pr, d).binding

(* As long as every answer was authenticated, the two eras' consumers hold *)
(* and have retired the same: though the one judges first who speaks, for  *)
(* whom it reads, and the other first what is said, and for whom the       *)
(* document speaks.                                                        *)
ErasAgree ==
  "unverified" \notin apart => legacy.tracker = current.tracker

(* The schema alone says enough: a consumer written from it holds what the *)
(* core holds, while clocks agree (cleanroom/hb_cleanroom/participant.py). *)
CleanRoomAgrees ==
  "skewed" \notin apart =>
    /\ clean.seen = bare.tracker.retired
    /\ clean.held = IF HeldBy(bare) = NoHeartbeat THEN NoHeartbeat
                    ELSE ToDict(HeldBy(bare))

Showing(h) == IF h = NoHeartbeat THEN NoHeartbeat ELSE Revision(h)

CurrentRegister == INSTANCE LeaseRegister WITH
  Participants <- {Self}, Epochs <- Epochs \cup {Null}, Nothing <- NoHeartbeat,
  current <- [p \in {Self} |-> Showing(HeldBy(current))],
  past    <- [p \in {Self} |-> shown.current]
LegacyRegister == INSTANCE LeaseRegister WITH
  Participants <- {Self}, Epochs <- Epochs \cup {Null}, Nothing <- NoHeartbeat,
  current <- [p \in {Self} |-> Showing(HeldBy(legacy))],
  past    <- [p \in {Self} |-> shown.legacy]
CleanRegister == INSTANCE LeaseRegister WITH
  Participants <- {Self}, Epochs <- Epochs \cup {Null}, Nothing <- NoHeartbeat,
  current <- [p \in {Self} |-> Showing(clean.held)],
  past    <- [p \in {Self} |-> shown.clean]

(* Three implementations of one promise: each consumer is a register that  *)
(* only moves forward, whichever replica answers, whatever is misrouted    *)
(* and however clocks and policies differ, though each has its own checks  *)
(* in an order of its own (convergence.py, resources.py, participant.py).  *)
ImplementRegisters ==
  CurrentRegister!Spec /\ LegacyRegister!Spec /\ CleanRegister!Spec

(* "A consumer that supports 0.1 reads only documents declaring 0.1"       *)
(* (mcp-heartbeat-0.1.schema.json), the clean-room one too.                *)
ReadsOnlyDeclared ==
  clean.held # NoHeartbeat => clean.held.version = "0.1"

Unique(e) == Cardinality({r \in Replicas : EpochOf[r] = e}) = 1

(* A consumer that reconnects does not see another history: of an epoch    *)
(* that one process has, it holds exactly what the long-lived one holds    *)
(* (runtime.py, reconnect_inherits_nothing).                               *)
ReconnectAgrees ==
  (/\ HeldBy(newcomer) # NoHeartbeat /\ HeldBy(current) # NoHeartbeat
   /\ HeldBy(newcomer).boot = HeldBy(current).boot
   /\ Unique(HeldBy(current).boot))
  => HeldBy(newcomer) = HeldBy(current)

-----------------------------------------------------------------------------
(* What is said of misrouted documents, where it matters: that they went   *)
(* through some to_dict, as everything published does, and that none that  *)
(* could be admitted claims to be from one of the replicas.                *)
OnGrid(d) == d.issued = Truncate(d.issued) /\ d.expires = Truncate(d.expires)

MisroutedWhole ==
  \A d \in Misrouted :
    d.version # Null /\ d.seq # Null /\ (~FromDictRaises(d) => OnGrid(d))

NoImpostors ==
  \A d \in Misrouted : (d.node = Self /\ DocumentReason(d) = "none")
    => \A r \in Replicas : d.boot # EpochOf[r]

-----------------------------------------------------------------------------
(* "A brand new consumer with no history must land exactly where the       *)
(* long-lived one did" (runtime.py, reconnect_inherits_nothing).           *)
ReconnectLandsAlike ==
  (HeldBy(newcomer) # NoHeartbeat /\ apart = {}) => HeldBy(newcomer) = HeldBy(current)
=============================================================================
