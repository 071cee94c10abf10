--------------------------------- MODULE Demo ---------------------------------
(***************************************************************************)
(* The two-participant demonstration: a publisher that mints a heartbeat   *)
(* per GET and takes scenario controls (hb_demo_publisher), and an observer*)
(* that runs five scenarios against it in order (hb_demo_observer).  The   *)
(* publisher serves every request in a thread of its own, under a lock but *)
(* for GET /state, and its port is open to others on the host.             *)
(*                                                                         *)
(* The observer is sequential, so `at` is its place in the scenarios.  A   *)
(* tick is the time it sleeps between renewals.                            *)
(***************************************************************************)
EXTENDS HeartbeatCore, Sequences, FiniteSets

CONSTANTS
  Self,
  Minted,      \* the epochs mint_epoch_id will return, in order
  Lease,
  Grace,       \* what wait_until allows beyond the remaining lease
  Budget,      \* and for the recovery
  NoReport,
  MaxVisits, MaxStalls   \* bounds: others' requests, ticks nobody waits for

ASSUME DemoAssumption ==
  /\ Self \in Participants
  /\ Minted \in Seq(Epochs) /\ Len(Minted) > 0
  /\ \A i, j \in DOMAIN Minted : Minted[i] = Minted[j] => i = j
  /\ {"serving", "draining"} \subseteq Bodies
  /\ Lease \in 1..MaxLease /\ Lease <= MaxSkew
  /\ {Grace, Budget, MaxVisits, MaxStalls} \subseteq Nat
  /\ NoHeartbeat \notin Heartbeat \cup Document

VARIABLES
  now,
  pub,        \* Participant
  state,      \* the observer's LineageState
  at,         \* where the observer is
  wake,       \* when its sleep or its budget ends
  round,      \* renewals done, and then: 0 before the first draining poll, 1 after
  lease,      \* the heartbeat held when the current scenario began
  failed,     \* scenarios with a check that failed
  report,     \* publisher.state(), the epoch first, then the rest
  visits, stalls,
  disturbed   \* history: somebody else used the publisher, an answer was
              \* lost, or time passed where nobody waits

vars == <<now, pub, state, at, wake, round, lease, failed, report, visits,
          stalls, disturbed>>

observer == <<state, at, wake, round, lease, failed, report>>
others == <<visits, stalls, disturbed>>

NothingMinted == NoHeartbeat

Init ==
  /\ now = 0
  /\ pub = [issuer |-> 1, next |-> 0, last |-> NothingMinted, frozen |-> FALSE,
            status |-> "serving", restarts |-> 0]
  /\ state = EmptyLineage(Self)
  /\ at = "handshake"
  /\ wake = 0
  /\ round = 0
  /\ lease = NoHeartbeat
  /\ failed = {}
  /\ report = NoReport
  /\ visits = 0
  /\ stalls = 0
  /\ disturbed = FALSE

-----------------------------------------------------------------------------
(* The publisher *)

EpochNow(p) == Minted[p.issuer]

Mint(p) ==
  ToDict([node |-> Self, boot |-> EpochNow(p), seq |-> p.next, issued |-> now,
          expires |-> now + Lease, body |-> p.status])

Replays(p) == p.frozen /\ p.last # NothingMinted

(* Mutated form: a frozen publisher still mints. *)
AnswerAlways(p) == Mint(p)

(* heartbeat(): what is answered, and what it leaves. *)
Answer(p) == IF Replays(p) THEN p.last ELSE Mint(p)

Answered(p) ==
  IF Answer(p) = p.last THEN p ELSE [p EXCEPT !.last = Answer(p), !.next = @ + 1]

Controls == {"freeze", "thaw", "restart", "serving", "draining"}

(* A restart is possible as long as there are epochs left to mint.         *)
Restartable(p) == p.issuer < Len(Minted)

Control(p, op) ==
  CASE op = "freeze"  -> [p EXCEPT !.frozen = TRUE]
    [] op = "thaw"    -> [p EXCEPT !.frozen = FALSE]
    [] op = "restart" -> [p EXCEPT !.issuer = @ + 1, !.next = 0,
                                   !.last = NothingMinted, !.frozen = FALSE,
                                   !.restarts = @ + 1]
    [] OTHER          -> [p EXCEPT !.status = op]

-----------------------------------------------------------------------------
(* The observer.  Session.poll() gets a document and admits it.            *)

Held == state.held
Lapsed == Held # NoHeartbeat /\ ~IsFresh(Held, now)
Outcome == Admit(state, Answer(pub), now)

Poll ==
  /\ pub' = Answered(pub)
  /\ state' = Outcome.state

Check(scenario, ok) == failed' = IF ok THEN failed ELSE failed \cup {scenario}

Goto(next) == at' = next

(* Mutated form: the scenario ends as soon as it is found out of budget,   *)
(* and the others with it.                                                 *)
TimeoutEndsRun(scenario, next) ==
  /\ wake <= now
  /\ failed' = failed \cup {scenario}
  /\ Goto("stuck")
  /\ UNCHANGED <<now, pub, state, wake, round, lease, report, others>>

(* A scenario that runs out of budget fails, and the next one is begun.    *)
TimesOut(scenario, next) ==
  /\ wake <= now
  /\ failed' = failed \cup {scenario}
  /\ Goto(next)
  /\ UNCHANGED <<now, pub, state, wake, round, lease, report, others>>

(* `assert held is not None`, at the beginning of a scenario, is caught by *)
(* nobody.                                                                 *)
AssertHeld(next) == Goto(IF Held = NoHeartbeat THEN "crashed" ELSE next)

Handshake ==
  /\ at = "handshake"
  /\ Poll
  /\ Check("handshake", /\ Outcome.outcome = "accepted"
                        /\ Answer(pub).seq = 0
                        /\ IsFresh(state'.held, now))
  /\ Goto("renewal")
  /\ UNCHANGED <<now, wake, round, lease, report, others>>

BeginRenewal ==
  /\ at = "renewal"
  /\ AssertHeld("sleep")
  /\ lease' = Held
  /\ wake' = now + 1
  /\ UNCHANGED <<now, pub, state, round, failed, report, others>>

Renew ==
  /\ at = "sleep"
  /\ wake <= now
  /\ Poll
  /\ Check("renewal", /\ Outcome.outcome = "accepted"
                      /\ state'.held.seq > Held.seq
                      /\ state'.held.expires > Held.expires
                      /\ state'.held.boot = lease.boot)
  /\ round' = round + 1
  /\ Goto(IF round = 2 THEN "before" ELSE "sleep")
  /\ wake' = now + 1
  /\ UNCHANGED <<now, lease, report, others>>

StatusBefore ==
  /\ at = "before"
  /\ Poll
  /\ Check("status-transition", Answer(pub).body = "serving")
  /\ Goto("drain")
  /\ UNCHANGED <<now, wake, round, lease, report, others>>

Operate(from, op, next) ==
  /\ at = from
  /\ op = "restart" => Restartable(pub)
  /\ pub' = Control(pub, op)
  /\ Goto(next)

Drain ==
  /\ Operate("drain", "draining", "after")
  /\ UNCHANGED <<now, state, wake, round, lease, failed, report, others>>

StatusAfter ==
  /\ at = "after"
  /\ Poll
  /\ Check("status-transition", /\ Answer(pub).body = "draining"
                                /\ Outcome.outcome = "accepted"
                                /\ IsFresh(state'.held, now))
  /\ Goto("expiry")
  /\ UNCHANGED <<now, wake, round, lease, report, others>>

BeginExpiry ==
  /\ at = "expiry"
  /\ AssertHeld("freeze")
  /\ lease' = Held
  /\ wake' = IF IsFresh(Held, now) THEN Held.expires + Grace ELSE now + Grace
  /\ UNCHANGED <<now, pub, state, round, failed, report, others>>

Freeze ==
  /\ Operate("freeze", "freeze", "lapse")
  /\ UNCHANGED <<now, state, wake, round, lease, failed, report, others>>

SeeLapse ==
  /\ at = "lapse"
  /\ now < wake
  /\ Lapsed
  /\ Goto("stale")
  /\ UNCHANGED <<now, pub, state, wake, round, lease, failed, report, others>>

(* The redelivered document is a duplicate, and no newcomer admits it.     *)
Redelivered ==
  /\ at = "stale"
  /\ Poll
  /\ Check("expiry",
       /\ Outcome.outcome = "duplicate"
       /\ Verdict(EmptyLineage(Self), Answer(pub), now) = "expired_on_arrival"
       /\ Digest(state'.held) = Digest(lease))
  /\ Goto("recovery")
  /\ UNCHANGED <<now, wake, round, lease, report, others>>

BeginRecovery ==
  /\ at = "recovery"
  /\ AssertHeld("restart")
  /\ lease' = Held
  /\ UNCHANGED <<now, pub, state, wake, round, failed, report, others>>

Restart ==
  /\ Operate("restart", "restart", "readmit")
  /\ wake' = now + Budget
  /\ UNCHANGED <<now, state, round, lease, failed, report, others>>

(* wait_until(poll accepted): once per tick.                               *)
Readmit ==
  /\ at = "readmit"
  /\ now < wake
  /\ Poll
  /\ IF Outcome.outcome = "accepted"
     THEN /\ Check("recovery",
               /\ Digest(state'.held) # Digest(lease)
               /\ state'.held.boot # lease.boot
               /\ state'.held.seq = 0
               /\ IsFresh(state'.held, now)
               /\ Verdict(state', ToDict(lease), now) = "boot_id_reuse")
          /\ Goto("state")
     ELSE Goto("retry") /\ failed' = failed
  /\ UNCHANGED <<now, wake, round, lease, report, others>>

Retry ==
  /\ at = "retry-over"
  /\ Goto("readmit")
  /\ UNCHANGED <<now, pub, state, wake, round, lease, failed, report, others>>

(* GET /state takes no lock: other threads may come in between.            *)
ReadEpoch ==
  /\ at = "state"
  /\ report' = [epoch |-> EpochNow(pub), next |-> 0, status |-> pub.status]
  /\ Goto("rest")
  /\ UNCHANGED <<now, pub, state, wake, round, lease, failed, others>>

ReadRest ==
  /\ at = "rest"
  /\ report' = [report EXCEPT !.next = pub.next, !.status = pub.status]
  /\ Goto("done")
  /\ UNCHANGED <<now, pub, state, wake, round, lease, failed, others>>

Observe ==
  \/ Handshake
  \/ BeginRenewal \/ Renew
  \/ StatusBefore \/ Drain \/ StatusAfter
  \/ BeginExpiry \/ Freeze \/ SeeLapse \/ Redelivered
  \/ (at = "lapse" /\ TimesOut("expiry", "recovery"))
  \/ BeginRecovery \/ Restart \/ Readmit \/ Retry
  \/ (at = "readmit" /\ TimesOut("recovery", "state"))
  \/ ReadEpoch \/ ReadRest

-----------------------------------------------------------------------------
(* Time, others, and the network *)

Over == at \in {"done", "crashed"}

(* Where the observer sleeps, or waits for something not yet so.           *)
Waiting ==
  \/ at = "sleep" /\ now < wake
  \/ at = "lapse" /\ now < wake /\ ~Lapsed
  \/ at = "retry"

Tick ==
  /\ Waiting
  /\ now' = now + 1
  /\ at' = IF at = "retry" THEN "retry-over" ELSE at
  /\ UNCHANGED <<pub, state, wake, round, lease, failed, report, others>>

Stall ==
  /\ ~Waiting /\ ~Over
  /\ stalls < MaxStalls
  /\ stalls' = stalls + 1
  /\ now' = now + 1
  /\ disturbed' = TRUE
  /\ UNCHANGED <<pub, observer, visits>>

Visit(p) ==
  /\ visits < MaxVisits /\ ~Over
  /\ visits' = visits + 1
  /\ pub' = p
  /\ disturbed' = TRUE
  /\ UNCHANGED <<now, observer, stalls>>

(* The observer catches no error of its requests, once the publisher has   *)
(* answered it for the first time.                                         *)
Lose ==
  /\ ~Over
  /\ at \in {"handshake", "before", "drain", "after", "freeze", "stale",
             "restart", "readmit", "state"} \/ (at = "sleep" /\ wake <= now)
  /\ Goto("crashed")
  /\ disturbed' = TRUE
  /\ UNCHANGED <<now, pub, state, wake, round, lease, failed, report, visits, stalls>>

Next ==
  \/ Observe
  \/ Tick \/ Stall
  \/ Visit(Answered(pub))
  \/ \E op \in Controls :
       (op = "restart" => Restartable(pub)) /\ Visit(Control(pub, op))
  \/ Lose

Spec == Init /\ [][Next]_vars

(* The observer runs, and time goes on while it waits.                     *)
FairSpec == Spec /\ WF_vars(Observe) /\ WF_vars(Tick)

-----------------------------------------------------------------------------
(* Left alone and answered in time, the publisher is found to do all that  *)
(* the five scenarios check, and the state reported last is that of the    *)
(* lease held (hb_demo_observer, SCENARIOS): no check is at odds with what *)
(* the core decides or with the order in which it decides.                 *)
UndisturbedRunPasses ==
  ~disturbed =>
    /\ failed = {}
    /\ at # "crashed"
    /\ at = "done" => report = [epoch |-> Held.boot, next |-> Held.seq + 1,
                                status |-> Held.body]

(* What the settings of the demo are like: a tick, the observer's sleep    *)
(* between two renewals, is no part of a millisecond of the wire, and both *)
(* of its waits have time to spare (10 s and 30 s in the source).          *)
Unhurried == MsTicks = 1 /\ Grace > 0 /\ Budget > 0

(* Whoever freezes, restarts or reads the publisher meanwhile, the run     *)
(* comes to an end: each wait has a budget (wait_until).                   *)
RunEnds == <>Over
=============================================================================
