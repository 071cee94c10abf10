----------------------------- MODULE Demo_proofs -----------------------------
(***************************************************************************)
(* The demonstration's checks and the core's decisions fit together, for   *)
(* every lease, skew bound and pair of budgets: a run that nobody disturbs *)
(* passes.                                                                 *)
(***************************************************************************)
EXTENDS Demo, TLAPS

Publisher ==
  [issuer : DOMAIN Minted, next : Nat, last : Document \cup {NothingMinted},
   frozen : BOOLEAN, status : {"serving", "draining"}, restarts : Nat]

(* The heartbeat that is minted next.                                      *)
Fresh(p) ==
  [node |-> Self, boot |-> EpochNow(p), seq |-> p.next, issued |-> now,
   expires |-> now + Lease, body |-> p.status]

(* The observer holds a heartbeat of the publisher's i-th process, and has *)
(* been through the processes before it.                                   *)
Holds(i) ==
  /\ i \in DOMAIN Minted
  /\ state \in LineageState /\ state.participant = Self
  /\ Held \in Heartbeat /\ Held.node = Self /\ Held.boot = Minted[i]
  /\ Held.seq \in Nat /\ Held.issued <= now /\ Held.expires = Held.issued + Lease
  /\ state.retired = {Minted[j] : j \in 1..i}

(* It is the last one minted, by a publisher that mints on or is frozen.   *)
InStep(i, status, frozen) ==
  /\ Holds(i)
  /\ pub \in Publisher /\ pub.issuer = i
  /\ pub.last = ToDict(Held) /\ pub.next = Held.seq + 1
  /\ pub.status = status /\ pub.frozen = frozen

(* A process that has minted nothing yet.                                  *)
Starts(i, status) ==
  /\ pub \in Publisher /\ pub.issuer = i
  /\ pub.last = NothingMinted /\ pub.next = 0
  /\ pub.status = status /\ pub.frozen = FALSE

Phases ==
  /\ at = "handshake" => Starts(1, "serving") /\ state = EmptyLineage(Self)
  /\ at \in {"renewal", "sleep", "before", "drain"} => InStep(1, "serving", FALSE)
  /\ at \in {"after", "expiry", "freeze"} => InStep(1, "draining", FALSE)
  /\ at \in {"lapse", "stale", "recovery", "restart"} => InStep(1, "draining", TRUE)
  /\ at = "readmit" => Starts(2, "draining") /\ Holds(1)
  /\ at \in {"state", "rest", "done"} => InStep(2, "draining", FALSE)

Timing ==
  /\ at = "renewal" => Held.issued = now
  /\ at = "sleep" => wake = Held.issued + 1 /\ lease.boot = Held.boot
  /\ at = "expiry" => Held.issued = now
  /\ at \in {"freeze", "lapse"} => wake = Held.expires + Grace
  /\ at \in {"freeze", "lapse", "stale"} => lease = Held /\ now <= Held.expires
  /\ at = "stale" => Lapsed
  /\ at \in {"restart", "readmit"} => lease = Held
  /\ at = "readmit" => wake \in Int /\ now < wake

Reports ==
  /\ at \in {"state", "rest", "done"} => Held.body = "draining"
  /\ at = "rest" => report = [epoch |-> Held.boot, next |-> 0, status |-> "draining"]
  /\ at = "done" => report = [epoch |-> Held.boot, next |-> Held.seq + 1,
                              status |-> Held.body]

Places == {"handshake", "renewal", "sleep", "before", "drain", "after",
           "expiry", "freeze", "lapse", "stale", "recovery", "restart",
           "readmit", "state", "rest", "done"}

(* Where a run that nobody disturbs can be.                                *)
Smooth ==
  /\ now \in Nat /\ at \in Places /\ failed = {}
  /\ Phases /\ Timing /\ Reports

IInv == ~disturbed => Smooth

-----------------------------------------------------------------------------
(* Minting *)

(* On whole milliseconds the wire keeps what a heartbeat says.             *)
LEMMA OnTheWire ==
  ASSUME Unhurried, NEW h \in Heartbeat
  PROVE  /\ FromDict(ToDict(h)) = h
         /\ ToDict(h) \in Document /\ ToDict(h) # NothingMinted
         /\ ToDict(h) =
              [version |-> "0.1", wellFormed |-> TRUE, node |-> h.node,
               boot |-> h.boot, seq |-> h.seq, issued |-> h.issued,
               expires |-> h.expires, body |-> h.body]
<1>1. \A t \in Int : Truncate(t) = t
  BY DEF Unhurried, Truncate
<1>2. h.issued \in Int /\ h.expires \in Int
  BY DEF Heartbeat
<1>3. ToDict(h) =
        [version |-> "0.1", wellFormed |-> TRUE, node |-> h.node,
         boot |-> h.boot, seq |-> h.seq, issued |-> h.issued,
         expires |-> h.expires, body |-> h.body]
  BY <1>1, <1>2 DEF ToDict
<1>4. ToDict(h) \in Document
  BY <1>3 DEF Heartbeat, Document, Versions
<1>5. FromDict(ToDict(h)) = h
  BY <1>3 DEF FromDict, Heartbeat
<1> QED BY <1>3, <1>4, <1>5, DemoAssumption DEF NothingMinted

(* Incarnations have epochs of their own.                                  *)
LEMMA OwnEpochs ==
  /\ 1 \in DOMAIN Minted
  /\ \A i \in DOMAIN Minted : Minted[i] \in Epochs
  /\ \A i, j \in DOMAIN Minted : Minted[i] = Minted[j] => i = j
<1>1. DOMAIN Minted = 1..Len(Minted) /\ Len(Minted) \in Nat
      /\ \A i \in 1..Len(Minted) : Minted[i] \in Epochs
  BY DemoAssumption
<1> QED BY <1>1, DemoAssumption

LEMMA MintType ==
  ASSUME now \in Nat, pub \in Publisher
  PROVE  Fresh(pub) \in Heartbeat /\ Mint(pub) = ToDict(Fresh(pub))
<1>1. EpochNow(pub) \in Epochs /\ pub.next \in Nat /\ pub.status \in Bodies
  BY OwnEpochs, DemoAssumption DEF Publisher, EpochNow
<1>2. Self \in Participants /\ Lease \in Nat
  BY DemoAssumption, CoreAssumption
<1>3. now \in Int /\ now + Lease \in Int
  BY <1>2
<1> QED BY <1>1, <1>2, <1>3 DEF Fresh, Heartbeat, Mint

(* What is minted now passes every check that does not look at lineage.    *)
LEMMA MintIsSound ==
  ASSUME Unhurried, now \in Nat, pub \in Publisher
  PROVE  /\ DocumentReason(Mint(pub)) = "none" /\ ~FromDictRaises(Mint(pub))
         /\ FromDict(Mint(pub)) = Fresh(pub)
         /\ CheckFreshness(Fresh(pub), now) = "none"
         /\ IsFresh(Fresh(pub), now)
<1>1. Lease \in Int /\ 1 <= Lease /\ Lease <= MaxLease /\ Lease <= MaxSkew
      /\ MaxLease \in Int /\ MaxSkew \in Int /\ 0 <= MaxSkew
  BY DemoAssumption, CoreAssumption
<1>2. Fresh(pub) \in Heartbeat /\ Mint(pub) = ToDict(Fresh(pub))
  BY MintType
<1>3. Fresh(pub).issued = now /\ Fresh(pub).expires = now + Lease
  BY DEF Fresh
<1>4. /\ Mint(pub).version = "0.1" /\ Mint(pub).wellFormed = TRUE
      /\ Mint(pub).issued = now /\ Mint(pub).expires = now + Lease
      /\ FromDict(Mint(pub)) = Fresh(pub)
  BY <1>2, <1>3, OnTheWire
<1>5. now \in Int /\ now # Null /\ now + Lease # Null
  BY <1>1, CoreAssumption
<1>6. ~FromDictRaises(Mint(pub))
  BY <1>4, <1>5 DEF FromDictRaises
<1>7. ExpiryWindowViolation(Mint(pub)) = "none"
  BY <1>1, <1>4, <1>5, <1>6 DEF ExpiryWindowViolation
<1>8. DocumentReason(Mint(pub)) = "none"
  BY <1>4, <1>7 DEF DocumentReason
<1>9. IsFresh(Fresh(pub), now)
  BY <1>1, <1>3 DEF IsFresh
<1>10. CheckFreshness(Fresh(pub), now) = "none"
  BY <1>1, <1>3, <1>9 DEF CheckFreshness
<1> QED BY <1>4, <1>6, <1>8, <1>9, <1>10

(* What a poll brings from a process that mints on or has just started.    *)
LEMMA MintAccepted ==
  ASSUME Unhurried, now \in Nat, pub \in Publisher, ~Replays(pub),
         state \in LineageState, state.participant = Self,
         \/ /\ Held # NoHeartbeat /\ Held.boot = EpochNow(pub)
            /\ Held.seq \in Nat /\ Held.seq < pub.next
         \/ /\ Held = NoHeartbeat \/ Held.boot # EpochNow(pub)
            /\ EpochNow(pub) \notin state.retired
  PROVE  /\ Answer(pub) = Mint(pub)
         /\ Outcome.outcome = "accepted"
         /\ Outcome.state = Accept(state, Fresh(pub))
<1> DEFINE c == Fresh(pub)
<1>1. Answer(pub) = Mint(pub)
  BY DEF Answer
<1>2. c.node = Self /\ c.boot = EpochNow(pub) /\ c.seq = pub.next /\ pub.next \in Nat
  BY DEF Fresh, Publisher
<1>3. ~IsDuplicate(state, c) /\ ~ComparisonRaises(state, c)
      /\ CheckLineage(state, c) = "none"
  <2>1. CASE /\ Held # NoHeartbeat /\ Held.boot = EpochNow(pub)
             /\ Held.seq \in Nat /\ Held.seq < pub.next
    <3>1. SameEpoch(state, c) /\ state.held.seq \in Nat /\ state.held.seq < c.seq
          /\ c.seq # Null /\ state.held.seq # Null /\ c.seq \in Nat
      BY <1>2, <2>1, CoreAssumption DEF SameEpoch, Held
    <3> HIDE DEF c
    <3>2. ~(c.seq < state.held.seq) /\ c.seq # state.held.seq
      BY <3>1
    <3> QED BY <3>1, <3>2 DEF IsDuplicate, ComparisonRaises, CheckLineage
  <2>2. CASE /\ Held = NoHeartbeat \/ Held.boot # EpochNow(pub)
             /\ EpochNow(pub) \notin state.retired
    <3>1. ~SameEpoch(state, c)
      BY <1>2, <2>2 DEF SameEpoch, Held
    <3> QED BY <1>2, <2>2, <3>1 DEF IsDuplicate, ComparisonRaises, CheckLineage
  <2> QED BY <2>1, <2>2
<1>4. /\ DocumentReason(Mint(pub)) = "none" /\ ~FromDictRaises(Mint(pub))
      /\ FromDict(Mint(pub)) = c /\ CheckFreshness(c, now) = "none"
  BY MintIsSound
<1> HIDE DEF c
<1>5. Verdict(state, Mint(pub), now) = "accepted"
  BY <1>2, <1>3, <1>4 DEF Verdict
<1> QED BY <1>1, <1>4, <1>5 DEF Outcome, Admit, c

(* ... and in what step it leaves them.                                    *)
LEMMA PollMints ==
  ASSUME Unhurried, now \in Nat, NEW i \in DOMAIN Minted, NEW status,
         \/ InStep(i, status, FALSE)
         \/ Starts(i, status) /\ i = 1 /\ state = EmptyLineage(Self)
         \/ Starts(i, status) /\ i = 2 /\ Holds(1),
         Poll, now' = now
  PROVE  /\ InStep(i, status, FALSE)'
         /\ Held' = Fresh(pub)
         /\ Answer(pub) = ToDict(Fresh(pub))
         /\ Outcome.outcome = "accepted"
<1>1. pub \in Publisher /\ ~Replays(pub) /\ pub.issuer = i /\ pub.status = status
      /\ pub.frozen = FALSE
      /\ \/ pub.last = NothingMinted
         \/ /\ pub.last = ToDict(Held) /\ pub.next = Held.seq + 1
            /\ Held \in Heartbeat /\ Held.seq \in Nat
  BY DEF InStep, Holds, Starts, Replays
<1>2. EpochNow(pub) = Minted[i] /\ Minted[i] \in Epochs
  BY <1>1, OwnEpochs DEF EpochNow
<1>3. /\ state \in LineageState /\ state.participant = Self
      /\ state.retired \cup {Minted[i]} = {Minted[j] : j \in 1..i}
      /\ \/ /\ Held # NoHeartbeat /\ Held.boot = EpochNow(pub)
            /\ Held.seq \in Nat /\ Held.seq < pub.next
         \/ /\ Held = NoHeartbeat \/ Held.boot # EpochNow(pub)
            /\ EpochNow(pub) \notin state.retired
  <2>1. CASE InStep(i, status, FALSE)
    <3>1. i \in 1..i
      <4>1. i \in Nat /\ 1 <= i
        BY DemoAssumption
      <4> QED BY <4>1
    <3>2. Held # NoHeartbeat /\ Held.seq < pub.next /\ Held.seq \in Nat
      BY <2>1, DemoAssumption DEF InStep, Holds
    <3> QED BY <1>2, <2>1, <3>1, <3>2 DEF InStep, Holds
  <2>2. CASE i = 1 /\ state = EmptyLineage(Self)
    <3>1. {Minted[j] : j \in 1..1} = {Minted[1]}
      OBVIOUS
    <3> QED BY <2>2, <3>1, DemoAssumption DEF EmptyLineage, LineageState, Held
  <2>3. CASE i = 2 /\ Holds(1)
    <3>1. {Minted[j] : j \in 1..1} = {Minted[1]}
      OBVIOUS
    <3>2. {Minted[j] : j \in 1..2} = {Minted[1], Minted[2]}
      OBVIOUS
    <3>3. Minted[1] # Minted[2]
      BY <2>3, OwnEpochs
    <3> QED BY <1>2, <2>3, <3>1, <3>2, <3>3 DEF Holds
  <2> QED BY <2>1, <2>2, <2>3
<1>4. /\ Answer(pub) = Mint(pub)
      /\ Outcome.outcome = "accepted"
      /\ Outcome.state = Accept(state, Fresh(pub))
  BY <1>1, <1>3, MintAccepted
<1>5. Fresh(pub) \in Heartbeat /\ Mint(pub) = ToDict(Fresh(pub))
  BY <1>1, MintType
<1>6. /\ state' = Accept(state, Fresh(pub)) /\ Held' = Fresh(pub)
      /\ state'.participant = Self /\ state'.retired = state.retired \cup {Minted[i]}
      /\ state' \in LineageState
  <2>1. state' = Accept(state, Fresh(pub)) /\ Fresh(pub).boot = Minted[i]
    BY <1>2, <1>4 DEF Poll, Fresh
  <2>2. state' = [state EXCEPT !.held = Fresh(pub), !.retired = @ \cup {Minted[i]}]
    BY <2>1 DEF Accept
  <2> QED BY <1>2, <1>3, <1>5, <2>1, <2>2 DEF LineageState, Held
<1>7. /\ Fresh(pub).seq = pub.next /\ Fresh(pub).node = Self
      /\ Fresh(pub).boot = Minted[i]
      /\ Fresh(pub).issued = now /\ Fresh(pub).expires = now + Lease
  BY <1>2 DEF Fresh
<1>8. Answer(pub) # pub.last
  <2>1. CASE pub.last = NothingMinted
    BY <1>4, <1>5, <2>1, OnTheWire
  <2>2. CASE /\ pub.last = ToDict(Held) /\ pub.next = Held.seq + 1
             /\ Held \in Heartbeat /\ Held.seq \in Nat
    <3>1. pub.last.seq = Held.seq /\ Answer(pub).seq = pub.next
      BY <1>4, <1>5, <1>7, <2>2, OnTheWire
    <3>2. Held.seq # Held.seq + 1
      BY <2>2
    <3> QED BY <2>2, <3>1, <3>2
  <2> QED BY <1>1, <2>1, <2>2
<1>9. pub' = [pub EXCEPT !.last = ToDict(Fresh(pub)), !.next = pub.next + 1]
  BY <1>4, <1>5, <1>8 DEF Poll, Answered
<1>10. /\ pub' \in Publisher /\ pub'.issuer = i /\ pub'.last = ToDict(Held')
       /\ pub'.next = pub.next + 1 /\ pub'.status = status /\ pub'.frozen = FALSE
       /\ pub.next \in Nat
  <2>1. ToDict(Fresh(pub)) \in Document
    BY <1>5, OnTheWire
  <2>2. pub.next \in Nat /\ pub.next + 1 \in Nat
    BY <1>1 DEF Publisher
  <2>3. pub' \in Publisher
    BY <1>1, <1>9, <2>1, <2>2 DEF Publisher
  <2>4. pub'.last = ToDict(Held') /\ pub'.next = pub.next + 1
    BY <1>1, <1>6, <1>9 DEF Publisher
  <2>5. pub'.issuer = i /\ pub'.status = status /\ pub'.frozen = FALSE
    BY <1>1, <1>9 DEF Publisher
  <2> QED BY <2>2, <2>3, <2>4, <2>5
<1>11. Holds(i)'
  BY <1>3, <1>5, <1>6, <1>7, <1>10 DEF Holds, Held
<1> QED BY <1>4, <1>5, <1>6, <1>7, <1>10, <1>11 DEF InStep, Held

-----------------------------------------------------------------------------
(* The scenarios *)

LEMMA InitSmooth == Init => Smooth
<1> SUFFICES ASSUME Init PROVE Smooth
  OBVIOUS
<1>1. Starts(1, "serving")
  BY OwnEpochs DEF Init, Starts, Publisher
<1> QED BY <1>1 DEF Init, Smooth, Phases, Timing, Reports, Places

(* Handshake, renewals and status: each poll brings a new heartbeat.       *)
LEMMA MintingSteps ==
  ASSUME Unhurried, Smooth,
         Handshake \/ BeginRenewal \/ Renew \/ StatusBefore \/ Drain \/ StatusAfter
  PROVE  Smooth'
<1>0. now \in Nat /\ failed = {}
  BY DEF Smooth
<1>1. CASE Handshake
  <2>1. Starts(1, "serving") /\ state = EmptyLineage(Self) /\ Poll /\ now' = now
    BY <1>1 DEF Smooth, Phases, Handshake
  <2>2. /\ InStep(1, "serving", FALSE)' /\ Held' = Fresh(pub)
        /\ Answer(pub) = ToDict(Fresh(pub)) /\ Outcome.outcome = "accepted"
    BY <1>0, <2>1, PollMints, OwnEpochs
  <2>3. pub \in Publisher /\ pub.next = 0
    BY <2>1 DEF Starts
  <2>4. Answer(pub).seq = 0 /\ IsFresh(Held', now) /\ Held'.issued = now
    BY <1>0, <2>2, <2>3, MintIsSound DEF ToDict, Fresh
  <2>5. failed' = {} /\ at' = "renewal"
    BY <1>0, <1>1, <2>2, <2>4 DEF Handshake, Check, Goto, Held
  <2> QED
    BY <1>0, <2>1, <2>2, <2>4, <2>5 DEF Smooth, Phases, Timing, Reports, Places
<1>2. CASE BeginRenewal
  <2>1. InStep(1, "serving", FALSE) /\ Held.issued = now
    BY <1>2 DEF Smooth, Phases, Timing, BeginRenewal
  <2>2. Held # NoHeartbeat
    BY <2>1, DemoAssumption DEF InStep, Holds
  <2>3. /\ at' = "sleep" /\ lease' = Held /\ wake' = now + 1
        /\ UNCHANGED <<now, pub, state, failed>>
    BY <1>2, <2>2 DEF BeginRenewal, AssertHeld, Goto
  <2>4. InStep(1, "serving", FALSE)' /\ Held' = Held
    BY <2>1, <2>3 DEF InStep, Holds, Held
  <2> QED
    BY <1>0, <2>1, <2>3, <2>4 DEF Smooth, Phases, Timing, Reports, Places
<1>3. CASE Renew
  <2>1. /\ InStep(1, "serving", FALSE) /\ Poll /\ now' = now
        /\ wake <= now /\ wake = Held.issued + 1 /\ lease.boot = Held.boot
    BY <1>3 DEF Smooth, Phases, Timing, Renew
  <2>2. /\ InStep(1, "serving", FALSE)' /\ Held' = Fresh(pub)
        /\ Answer(pub) = ToDict(Fresh(pub)) /\ Outcome.outcome = "accepted"
    BY <1>0, <2>1, PollMints, OwnEpochs
  <2>3. /\ Held.seq \in Nat /\ pub.next = Held.seq + 1
        /\ Held.issued \in Int /\ Held.expires = Held.issued + Lease
        /\ Held.boot = Minted[1] /\ pub.issuer = 1 /\ Lease \in Int
    BY <2>1, DemoAssumption, CoreAssumption DEF InStep, Holds, Heartbeat
  <2>4. /\ Held'.seq > Held.seq /\ Held'.expires > Held.expires
        /\ Held'.boot = lease.boot /\ Held'.issued = now
    BY <1>0, <2>1, <2>2, <2>3 DEF Fresh, EpochNow
  <2>5. failed' = {} /\ at' \in {"before", "sleep"} /\ wake' = now + 1 /\ lease' = lease
    BY <1>0, <1>3, <2>2, <2>4 DEF Renew, Check, Goto, Held
  <2>6. Held'.boot = lease'.boot
    BY <2>4, <2>5
  <2> QED
    BY <1>0, <2>1, <2>2, <2>4, <2>5, <2>6 DEF Smooth, Phases, Timing, Reports, Places
<1>4. CASE StatusBefore
  <2>1. InStep(1, "serving", FALSE) /\ Poll /\ now' = now
    BY <1>4 DEF Smooth, Phases, StatusBefore
  <2>2. /\ InStep(1, "serving", FALSE)' /\ Answer(pub) = ToDict(Fresh(pub))
    BY <1>0, <2>1, PollMints, OwnEpochs
  <2>3. Answer(pub).body = "serving"
    BY <2>1, <2>2 DEF ToDict, Fresh, InStep
  <2>4. failed' = {} /\ at' = "drain"
    BY <1>0, <1>4, <2>3 DEF StatusBefore, Check, Goto
  <2> QED
    BY <1>0, <2>1, <2>2, <2>4 DEF Smooth, Phases, Timing, Reports, Places
<1>5. CASE Drain
  <2>1. InStep(1, "serving", FALSE)
    BY <1>5 DEF Smooth, Phases, Drain, Operate
  <2>2. /\ at' = "after" /\ UNCHANGED <<now, state, failed>>
        /\ pub' = [pub EXCEPT !.status = "draining"]
    BY <1>5 DEF Drain, Operate, Control, Goto
  <2>3. InStep(1, "draining", FALSE)'
    BY <2>1, <2>2 DEF InStep, Holds, Held, Publisher
  <2> QED
    BY <1>0, <2>2, <2>3 DEF Smooth, Phases, Timing, Reports, Places
<1>6. CASE StatusAfter
  <2>1. InStep(1, "draining", FALSE) /\ Poll /\ now' = now
    BY <1>6 DEF Smooth, Phases, StatusAfter
  <2>2. /\ InStep(1, "draining", FALSE)' /\ Held' = Fresh(pub)
        /\ Answer(pub) = ToDict(Fresh(pub)) /\ Outcome.outcome = "accepted"
    BY <1>0, <2>1, PollMints, OwnEpochs
  <2>3. Answer(pub).body = "draining" /\ Held'.issued = now /\ IsFresh(Held', now)
    BY <1>0, <2>1, <2>2, MintIsSound DEF ToDict, Fresh, InStep
  <2>4. failed' = {} /\ at' = "expiry"
    BY <1>0, <1>6, <2>2, <2>3 DEF StatusAfter, Check, Goto, Held
  <2> QED
    BY <1>0, <2>1, <2>2, <2>3, <2>4 DEF Smooth, Phases, Timing, Reports, Places
<1> QED BY <1>1, <1>2, <1>3, <1>4, <1>5, <1>6

(* Expiry: the frozen publisher lets the lease lapse, and no later, so     *)
(* that what it redelivers is too old without being skewed.                *)
LEMMA ExpirySteps ==
  ASSUME Unhurried, Smooth,
         \/ BeginExpiry \/ Freeze \/ SeeLapse \/ Redelivered
         \/ at = "lapse" /\ TimesOut("expiry", "recovery")
  PROVE  Smooth'
<1>0. now \in Nat /\ failed = {} /\ Lease \in Int /\ 1 <= Lease /\ Lease <= MaxSkew
      /\ Lease <= MaxLease /\ MaxLease \in Int
      /\ Grace \in Int /\ Grace > 0 /\ MaxSkew \in Int
  BY DemoAssumption, CoreAssumption DEF Smooth, Unhurried
<1>1. CASE BeginExpiry
  <2>1. InStep(1, "draining", FALSE) /\ Held.issued = now
    BY <1>1 DEF Smooth, Phases, Timing, BeginExpiry
  <2>2. Held # NoHeartbeat /\ Held.expires = now + Lease /\ IsFresh(Held, now)
    BY <1>0, <2>1, DemoAssumption DEF InStep, Holds, IsFresh
  <2>3. /\ at' = "freeze" /\ lease' = Held /\ wake' = Held.expires + Grace
        /\ UNCHANGED <<now, pub, state, failed>>
    BY <1>1, <2>2 DEF BeginExpiry, AssertHeld, Goto
  <2>4. InStep(1, "draining", FALSE)' /\ Held' = Held
    BY <2>1, <2>3 DEF InStep, Holds, Held
  <2>5. now <= Held.expires
    BY <1>0, <2>2
  <2> QED
    BY <1>0, <2>3, <2>4, <2>5 DEF Smooth, Phases, Timing, Reports, Places
<1>2. CASE Freeze
  <2>1. /\ InStep(1, "draining", FALSE) /\ wake = Held.expires + Grace
        /\ lease = Held /\ now <= Held.expires
    BY <1>2 DEF Smooth, Phases, Timing, Freeze, Operate
  <2>2. /\ at' = "lapse" /\ UNCHANGED <<now, state, failed, wake, lease>>
        /\ pub' = [pub EXCEPT !.frozen = TRUE]
    BY <1>2 DEF Freeze, Operate, Control, Goto
  <2>3. InStep(1, "draining", TRUE)' /\ Held' = Held
    BY <2>1, <2>2 DEF InStep, Holds, Held, Publisher
  <2> QED
    BY <1>0, <2>1, <2>2, <2>3 DEF Smooth, Phases, Timing, Reports, Places
<1>3. CASE SeeLapse
  <2>1. /\ InStep(1, "draining", TRUE) /\ lease = Held /\ now <= Held.expires
        /\ Lapsed
    BY <1>3 DEF Smooth, Phases, Timing, SeeLapse
  <2>2. /\ at' = "stale" /\ UNCHANGED <<now, pub, state, failed, lease>>
    BY <1>3 DEF SeeLapse, Goto
  <2>3. InStep(1, "draining", TRUE)' /\ Held' = Held /\ Lapsed'
    BY <2>1, <2>2 DEF InStep, Holds, Held, Lapsed
  <2> QED
    BY <1>0, <2>1, <2>2, <2>3 DEF Smooth, Phases, Timing, Reports, Places
<1>4. CASE at = "lapse" /\ TimesOut("expiry", "recovery")
  <2>1. /\ InStep(1, "draining", TRUE) /\ wake = Held.expires + Grace
        /\ now <= Held.expires /\ wake <= now
    BY <1>4 DEF Smooth, Phases, Timing, TimesOut
  <2>2. Held.expires \in Int
    BY <2>1 DEF InStep, Holds, Heartbeat
  <2> QED BY <1>0, <2>1, <2>2
<1>5. CASE Redelivered
  <2>1. /\ InStep(1, "draining", TRUE) /\ lease = Held /\ now <= Held.expires
        /\ Lapsed /\ Poll /\ now' = now
    BY <1>5 DEF Smooth, Phases, Timing, Redelivered
  <2>2. /\ Held \in Heartbeat /\ Held # NoHeartbeat /\ Held.node = Self
        /\ Held.issued \in Int /\ Held.expires = Held.issued + Lease
        /\ now = Held.expires /\ Held.issued # Null /\ Held.expires # Null
    <3>1. /\ Held \in Heartbeat /\ Held.node = Self
          /\ Held.expires = Held.issued + Lease
      BY <2>1 DEF InStep, Holds
    <3>2. Held.issued \in Int /\ Held.expires \in Int
      BY <3>1 DEF Heartbeat
    <3>3. ~(Held.expires - now > 0)
      BY <2>1 DEF Lapsed, IsFresh
    <3> QED BY <1>0, <2>1, <3>1, <3>2, <3>3, DemoAssumption, CoreAssumption
  <2> DEFINE d == ToDict(Held)
  <2>3. /\ FromDict(d) = Held /\ d \in Document /\ d # NothingMinted
        /\ d.version = "0.1" /\ d.wellFormed = TRUE
        /\ d.issued = Held.issued /\ d.expires = Held.expires
    BY <2>2, OnTheWire
  <2>4. Answer(pub) = d
    BY <2>1, <2>3 DEF InStep, Answer, Replays
  <2>5. DocumentReason(d) = "none" /\ ~FromDictRaises(d)
    <3> HIDE DEF d
    <3>1. ~FromDictRaises(d)
      BY <2>2, <2>3 DEF FromDictRaises
    <3>2. ExpiryWindowViolation(d) = "none"
      BY <1>0, <2>2, <2>3, <3>1 DEF ExpiryWindowViolation
    <3> QED BY <2>3, <3>1, <3>2 DEF DocumentReason
  <2>6. Outcome.outcome = "duplicate" /\ Outcome.state = state
    <3>1. state.held = Held /\ state.participant = Self
      BY <2>1 DEF Held, InStep, Holds
    <3>2. IsDuplicate(state, Held)
      BY <2>2, <3>1 DEF IsDuplicate, SameEpoch
    <3> HIDE DEF d
    <3>3. Verdict(state, d, now) = "duplicate"
      BY <2>2, <2>3, <2>5, <3>1, <3>2 DEF Verdict
    <3> QED BY <2>4, <3>3 DEF Outcome, Admit
  <2>7. Verdict(EmptyLineage(Self), d, now) = "expired_on_arrival"
    <3> DEFINE s == EmptyLineage(Self)
    <3>1. s.held = NoHeartbeat /\ s.retired = {} /\ s.participant = Self
      BY DEF EmptyLineage
    <3> HIDE DEF s, d
    <3>2. ~IsDuplicate(s, Held) /\ ~ComparisonRaises(s, Held)
          /\ CheckLineage(s, Held) = "none"
      BY <3>1 DEF IsDuplicate, ComparisonRaises, CheckLineage, SameEpoch
    <3>3. CheckFreshness(Held, now) = "expired_on_arrival"
      BY <1>0, <2>2 DEF CheckFreshness, IsFresh
    <3>4. Verdict(s, d, now) = "expired_on_arrival"
      BY <2>2, <2>3, <2>5, <3>1, <3>2, <3>3 DEF Verdict
    <3> QED BY <3>4 DEF s
  <2>8. state' = state /\ pub' = pub /\ Held' = Held
    BY <2>1, <2>4, <2>6 DEF Poll, Answered, InStep, Held
  <2>9. failed' = {} /\ at' = "recovery"
    BY <1>0, <1>5, <2>1, <2>4, <2>6, <2>7, <2>8 DEF Redelivered, Check, Goto, Held
  <2>10. InStep(1, "draining", TRUE)'
    BY <2>1, <2>8 DEF InStep, Holds, Held
  <2> QED
    BY <1>0, <2>1, <2>9, <2>10 DEF Smooth, Phases, Timing, Reports, Places
<1> QED BY <1>1, <1>2, <1>3, <1>4, <1>5

(* Recovery: the restarted publisher is admitted at the first poll, and    *)
(* the lease it replaces is refused from then on.                          *)
LEMMA RecoverySteps ==
  ASSUME Unhurried, Smooth,
         \/ BeginRecovery \/ Restart \/ Readmit \/ Retry
         \/ at = "readmit" /\ TimesOut("recovery", "state")
         \/ ReadEpoch \/ ReadRest
  PROVE  Smooth'
<1>0. now \in Nat /\ failed = {} /\ Budget \in Int /\ Budget > 0
      /\ Lease \in Int /\ 1 <= Lease /\ Lease <= MaxLease /\ MaxLease \in Int
  BY DemoAssumption, CoreAssumption DEF Smooth, Unhurried
<1>1. CASE BeginRecovery
  <2>1. InStep(1, "draining", TRUE)
    BY <1>1 DEF Smooth, Phases, BeginRecovery
  <2>2. Held # NoHeartbeat
    BY <2>1, DemoAssumption DEF InStep, Holds
  <2>3. /\ at' = "restart" /\ lease' = Held
        /\ UNCHANGED <<now, pub, state, failed>>
    BY <1>1, <2>2 DEF BeginRecovery, AssertHeld, Goto
  <2>4. InStep(1, "draining", TRUE)' /\ Held' = Held
    BY <2>1, <2>3 DEF InStep, Holds, Held
  <2> QED
    BY <1>0, <2>3, <2>4 DEF Smooth, Phases, Timing, Reports, Places
<1>2. CASE Restart
  <2>1. InStep(1, "draining", TRUE) /\ lease = Held
    BY <1>2 DEF Smooth, Phases, Timing, Restart, Operate
  <2>2. /\ at' = "readmit" /\ wake' = now + Budget
        /\ UNCHANGED <<now, state, failed, lease>>
        /\ 1 < Len(Minted)
        /\ pub' = [pub EXCEPT !.issuer = @ + 1, !.next = 0, !.last = NothingMinted,
                              !.frozen = FALSE, !.restarts = @ + 1]
    BY <1>2, <2>1 DEF Restart, Operate, Control, Goto, Restartable, InStep
  <2>3. 2 \in DOMAIN Minted
    BY <2>2, DemoAssumption
  <2>4. Starts(2, "draining")'
    <3>1. pub \in Publisher /\ pub.issuer = 1 /\ pub.status = "draining"
          /\ pub.issuer + 1 = 2 /\ pub.restarts + 1 \in Nat
      BY <2>1 DEF InStep, Publisher
    <3>2. pub' = [pub EXCEPT !.issuer = 2, !.next = 0, !.last = NothingMinted,
                             !.frozen = FALSE, !.restarts = pub.restarts + 1]
      BY <2>2, <3>1
    <3> QED BY <2>3, <3>1, <3>2 DEF Starts, Publisher
  <2>5. Holds(1)' /\ Held' = Held
    BY <2>1, <2>2 DEF InStep, Holds, Held
  <2>6. wake' \in Int /\ now < wake'
    BY <1>0, <2>2
  <2> QED
    BY <1>0, <2>1, <2>2, <2>4, <2>5, <2>6 DEF Smooth, Phases, Timing, Reports, Places
<1>3. CASE Readmit
  <2>1. Starts(2, "draining") /\ Holds(1) /\ lease = Held /\ Poll /\ now' = now
    BY <1>3 DEF Smooth, Phases, Timing, Readmit
  <2>2. 2 \in DOMAIN Minted /\ 1 \in DOMAIN Minted /\ Minted[1] # Minted[2]
    BY <2>1, OwnEpochs DEF Starts, Publisher
  <2>3. /\ InStep(2, "draining", FALSE)' /\ Held' = Fresh(pub)
        /\ Answer(pub) = ToDict(Fresh(pub)) /\ Outcome.outcome = "accepted"
    BY <1>0, <2>1, <2>2, PollMints
  <2>4. /\ Fresh(pub) \in Heartbeat /\ Held \in Heartbeat
        /\ Held'.boot = Minted[2] /\ Held.boot = Minted[1]
        /\ Held'.seq = 0 /\ Held'.body = "draining"
    BY <1>0, <2>1, <2>3, MintType DEF Starts, Holds, Fresh, EpochNow
  <2>5. Digest(Held') # Digest(lease) /\ lease.boot = Minted[1]
    BY <2>1, <2>2, <2>4 DEF Digest, ToDict
  <2>6. IsFresh(Held', now)
    BY <1>0, <2>1, <2>3, MintIsSound DEF Starts
  <2>7. Verdict(state', ToDict(lease), now) = "boot_id_reuse"
    <3> DEFINE d == ToDict(Held)
               s == state'
    <3>1. /\ s.held = Held' /\ s.participant = Self /\ Minted[1] \in s.retired
      <4>1. s.participant = Self /\ s.retired = {Minted[j] : j \in 1..2}
        BY <2>3 DEF InStep, Holds
      <4> QED BY <4>1 DEF Held
    <3>2. /\ FromDict(d) = Held /\ d.version = "0.1" /\ d.wellFormed = TRUE
          /\ d.issued = Held.issued /\ d.expires = Held.expires
      BY <2>4, OnTheWire
    <3>3. Held.issued \in Int /\ Held.expires = Held.issued + Lease /\ Held.node = Self
      BY <2>1 DEF Holds, Heartbeat
    <3> HIDE DEF d, s
    <3>4. ~FromDictRaises(d)
      BY <1>0, <3>2, <3>3, CoreAssumption DEF FromDictRaises
    <3>5. DocumentReason(d) = "none"
      <4>1. ExpiryWindowViolation(d) = "none"
        BY <1>0, <3>2, <3>3, <3>4 DEF ExpiryWindowViolation
      <4> QED BY <3>2, <4>1 DEF DocumentReason
    <3>6. ~SameEpoch(s, Held)
      BY <2>2, <2>4, <3>1 DEF SameEpoch
    <3>7. /\ ~IsDuplicate(s, Held) /\ ~ComparisonRaises(s, Held)
          /\ CheckLineage(s, Held) = "boot_id_reuse"
      BY <2>4, <3>1, <3>6 DEF IsDuplicate, ComparisonRaises, CheckLineage
    <3>8. Verdict(s, d, now) = "boot_id_reuse"
      BY <3>1, <3>2, <3>3, <3>4, <3>5, <3>7 DEF Verdict
    <3> QED BY <2>1, <3>8 DEF d, s
  <2>8. failed' = {} /\ at' = "state"
    BY <1>0, <1>3, <2>2, <2>3, <2>4, <2>5, <2>6, <2>7 DEF Readmit, Check, Goto, Held
  <2> QED
    BY <1>0, <2>1, <2>3, <2>4, <2>8 DEF Smooth, Phases, Timing, Reports, Places
<1>4. CASE Retry
  BY <1>4 DEF Retry, Smooth, Places
<1>5. CASE at = "readmit" /\ TimesOut("recovery", "state")
  <2>1. wake \in Int /\ now < wake /\ wake <= now
    BY <1>5 DEF Smooth, Timing, TimesOut
  <2> QED BY <1>0, <2>1
<1>6. CASE ReadEpoch
  <2>1. InStep(2, "draining", FALSE) /\ Held.body = "draining"
    BY <1>6 DEF Smooth, Phases, Reports, ReadEpoch
  <2>2. /\ at' = "rest" /\ UNCHANGED <<now, pub, state, failed>>
        /\ report' = [epoch |-> EpochNow(pub), next |-> 0, status |-> pub.status]
    BY <1>6 DEF ReadEpoch, Goto
  <2>3. EpochNow(pub) = Held.boot /\ pub.status = "draining"
    BY <2>1 DEF InStep, Holds, EpochNow
  <2>4. InStep(2, "draining", FALSE)' /\ Held' = Held
    BY <2>1, <2>2 DEF InStep, Holds, Held
  <2> QED
    BY <1>0, <2>1, <2>2, <2>3, <2>4 DEF Smooth, Phases, Timing, Reports, Places
<1>7. CASE ReadRest
  <2>1. /\ InStep(2, "draining", FALSE) /\ Held.body = "draining"
        /\ report = [epoch |-> Held.boot, next |-> 0, status |-> "draining"]
    BY <1>7 DEF Smooth, Phases, Reports, ReadRest
  <2>2. /\ at' = "done" /\ UNCHANGED <<now, pub, state, failed>>
        /\ report' = [report EXCEPT !.next = pub.next, !.status = pub.status]
    BY <1>7 DEF ReadRest, Goto
  <2>3. pub.next = Held.seq + 1 /\ pub.status = "draining"
    BY <2>1 DEF InStep
  <2>4. InStep(2, "draining", FALSE)' /\ Held' = Held
    BY <2>1, <2>2 DEF InStep, Holds, Held
  <2>5. report' = [epoch |-> Held.boot, next |-> Held.seq + 1, status |-> Held.body]
    BY <2>1, <2>2, <2>3
  <2> QED
    BY <1>0, <2>1, <2>2, <2>4, <2>5 DEF Smooth, Phases, Timing, Reports, Places
<1> QED BY <1>1, <1>2, <1>3, <1>4, <1>5, <1>6, <1>7

(* Time only passes in the sleep before a renewal and until the lease has  *)
(* lapsed.                                                                 *)
LEMMA TickSmooth ==
  ASSUME Unhurried, Smooth, Tick
  PROVE  Smooth'
<1>0. now \in Nat /\ now' = now + 1 /\ now' \in Nat
  BY DEF Smooth, Tick
<1>1. at' = at /\ UNCHANGED <<pub, state, wake, round, lease, failed, report>>
  BY DEF Tick, Smooth, Places
<1>2. Held' = Held
  BY <1>1 DEF Held
<1>3. CASE at = "sleep"
  <2>1. InStep(1, "serving", FALSE)
    BY <1>3 DEF Smooth, Phases
  <2>2. InStep(1, "serving", FALSE)'
    <3>1. Held.issued \in Int /\ Held.issued <= now
      BY <2>1 DEF InStep, Holds, Heartbeat
    <3>2. Held.issued <= now'
      BY <1>0, <3>1
    <3> QED BY <1>1, <1>2, <2>1, <3>2 DEF InStep, Holds
  <2> QED
    BY <1>0, <1>1, <1>2, <1>3, <2>2 DEF Smooth, Phases, Timing, Reports, Places
<1>4. CASE at = "lapse" /\ ~Lapsed
  <2>1. InStep(1, "draining", TRUE) /\ Held # NoHeartbeat
    BY <1>4, DemoAssumption DEF Smooth, Phases, InStep, Holds
  <2>2. Held.issued \in Int /\ Held.issued <= now /\ Held.expires \in Int
    BY <2>1 DEF InStep, Holds, Heartbeat
  <2>3. now' <= Held.expires
    BY <1>0, <1>4, <2>1, <2>2 DEF Lapsed, IsFresh
  <2>4. Held.issued <= now'
    BY <1>0, <2>2
  <2>5. InStep(1, "draining", TRUE)'
    BY <1>1, <1>2, <2>1, <2>4 DEF InStep, Holds
  <2> QED
    BY <1>0, <1>1, <1>2, <1>4, <2>3, <2>5 DEF Smooth, Phases, Timing, Reports, Places
<1> QED BY <1>3, <1>4 DEF Tick, Waiting, Smooth, Places

LEMMA StepSmooth ==
  ASSUME Unhurried, IInv, [Next]_vars
  PROVE  IInv'
<1> SUFFICES ASSUME ~disturbed' PROVE Smooth'
  BY DEF IInv
<1>1. CASE Observe
  <2>1. disturbed' = disturbed
    BY <1>1 DEF Observe, Handshake, BeginRenewal, Renew, StatusBefore, Drain,
         StatusAfter, BeginExpiry, Freeze, SeeLapse, Redelivered, TimesOut,
         BeginRecovery, Restart, Readmit, Retry, ReadEpoch, ReadRest, others
  <2> QED
    BY <1>1, <2>1, MintingSteps, ExpirySteps, RecoverySteps DEF Observe, IInv
<1>2. CASE Tick
  <2>1. disturbed' = disturbed
    BY <1>2 DEF Tick, others
  <2> QED BY <1>2, <2>1, TickSmooth DEF IInv
<1>3. CASE Stall \/ Lose \/ \E p : Visit(p)
  BY <1>3 DEF Stall, Lose, Visit
<1>4. CASE UNCHANGED vars
  BY <1>4 DEF vars, IInv, Smooth, Phases, Timing, Reports, InStep, Holds, Starts,
       Held, Lapsed
<1> QED BY <1>1, <1>2, <1>3, <1>4 DEF Next

(* Left alone and answered in time, the publisher passes all five          *)
(* scenarios, under every lease and budget: no check of the observer is at *)
(* odds with what the core decides or with the order in which it decides   *)
(* (hb_demo_observer, SCENARIOS).                                          *)
THEOREM UndisturbedAlwaysPasses ==
  ASSUME Unhurried
  PROVE  Spec => []UndisturbedRunPasses
<1>1. Init => IInv
  BY InitSmooth DEF IInv
<1>2. IInv /\ [Next]_vars => IInv'
  BY StepSmooth
<1>3. IInv => UndisturbedRunPasses
  BY DEF IInv, Smooth, Reports, Places, UndisturbedRunPasses
<1> QED BY <1>1, <1>2, <1>3, PTL DEF Spec
==============================================================================
