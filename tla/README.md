# Formal models of mcp-heartbeat

A TLA+ development kept beside the Python sources: models of the heartbeat
lease protocol as the code implements it, TLC configurations that check them on
small instances, and theorems that TLAPS checks for every value of the
constants. Every definition is translated from `src/`; `PROJECT.json` ("map")
says which lines each one stands for. Paths below are relative to `src/`.

    tlc -workers 2 -config Lineage_overlap.cfg MCLineage.tla
    tlapm Lineage_proofs.tla

## 1. The system

A *participant* publishes a stream of *heartbeats*: leases `(node_id, boot_id,
sequence, issued_at, expires_at)` plus optional `extensions`. `boot_id` is the
*epoch*, one process lifetime. A *consumer* holds at most one heartbeat per
participant and decides, for every document it is handed, whether that document
supersedes what it holds. Two adapters carry the documents over two eras of
MCP. There is no server: everything a consumer knows it learns from documents.

| Part | State | Operations | Interacts with |
|---|---|---|---|
| `src/mcp_heartbeat/lineage.py` | `LineageState` (held heartbeat, retired epochs), immutable | `admit` and the checks it calls in order | validation, model; called by every consumer |
| `.../model.py`, `validation.py` | none | wire form, digest, millisecond truncation; structural rules | lineage |
| `.../issuer.py` | next sequence, epoch, lease setting | `issue`; a new process mints a new epoch | clock |
| `.../clock.py`, `ports.py` | wall and monotonic clock; `ChangeHint` | `now`, `monotonic`; `matches` | everyone |
| `src/mcp_heartbeat_current/convergence.py` | `HeartbeatConsumer`: lineage state, pending flag, last fetch | `on_hint`, `due`, `refetch`, `poll` | source, identity binder, `admit` |
| `.../identity.py` | none (policy is injected) | `evaluate`, `enforce`, per response | convergence |
| `.../subscriptions.py` | `SubscriptionStream` (acknowledged, filter) | `accept`, `hints` | convergence |
| `.../era.py`, `metadata.py`, `discovery.py`, `contract.py` | none | request routing, header checks, negotiation | dual-era server |
| `src/mcp_heartbeat_legacy/session.py`, `era.py`, `capabilities.py` | client and server session states, negotiated era and extension | `initialize` handshake, dispatch | each other, over the wire |
| `.../resources.py`, `identity.py` | `LegacyHeartbeatConsumer` (lineage state) | `refetch`, hints in two forms | session, `admit` |
| `src/mcp_heartbeat_conformance/cross_era.py` (`DualEraServer`), `runtime.py` (`Replica`, `Gateway`) | the legacy session it wraps; each replica's issuer and last document | dispatch by era; `beat`, routing | both eras' consumers |
| `.../verdicts.py`, `release.py`, `sdk_attestation.py`, `isolation.py` | verdict of a `Case`, level of a release; attestation and signoff files | checks, adjudication | `tools/` |
| `cleanroom/` | a second consumer's held document and seen epochs | `validate`, `admit` | the wire only |
| `demo/` | publisher: participant under a lock; observer: its place in the scenarios | `heartbeat`, controls; five scenarios | core |
| `tools/` | committed release files, checksums, records | verify, emit evidence, build and check | conformance |

What makes it hard, and what correctness means, part by part:

* **Lineage and admission.** Documents arrive late, twice, out of order and at
  the wrong tracker; processes of one participant overlap, crash, restart and
  may share an epoch; other publishers are only trusted as far as validation
  goes. A tracker must only move forward, keep one content per revision, bound
  how long it trusts a lease, call a replay a replay, and never lock out the
  publisher it ought to follow.
* **Convergence.** Hints are lost or repeated, reads are slow, fail, or are
  answered by the wrong principal, the publisher restarts, the caller's loop is
  late, the clock steps. A lease must not run out unasked, a live publisher
  must not look dead, only permitted answers may move held state, a hint must
  not be swallowed by a read in flight, and a publisher that lives must be seen
  to live.
* **Legacy session.** A handshake of two state machines over a channel that
  repeats and reorders: both ends must agree on era and extension, nothing is
  served before both are done.
* **Era routing and discovery.** One endpoint, clients of both eras, gateways
  that add or drop members and headers: a message belongs to exactly one era or
  is refused, nobody's session is spoilt by another's message, what our own
  builders make is served.
* **Subscriptions.** Frames are lost, repeated, reordered or another stream's:
  frames outside what was acknowledged have no effect, an accepted change is
  not forgotten though it comes while a read is under way.
* **Consumers side by side.** Two eras' consumers and the clean-room one apply
  the same rules in different orders, to the same answers: they must bind alike
  and hold alike.
* **Release.** A failed, held or skipped step is never reported as passed, no
  approval covers a tree it was not given for, and released files and checksums
  belong together though builds are cut short.
* **Demo.** The observer's checks must not be at odds with the core, and the
  run must end whoever else uses the publisher.

`PROJECT.json` lists every hazard at its line ("hazards") and the parts not yet
modelled, with the reason ("components").

## 2. Modules

| Module | What it is |
|---|---|
| `HeartbeatCore` | the portable core as pure operators: wire form, structural reasons, lineage, freshness, `Verdict`, `Admit`. No variables |
| `Lineage` | publishers (`Start`, `Issue`, `Crash`), the wire, and a consumer's trackers (`Deliver`), with clocks (`Tick`, `StepClock`) |
| `LeaseRegister` | the abstract specification of trackers: one register per participant that only moves forward; `Lineage` implements it, and so does each consumer of `Interop` |
| `Convergence` | one `HeartbeatConsumer`, its publisher, the read in flight and the hints, in explicit time |
| `LegacySession` | a legacy client session and a server session, and the wire between them |
| `EraRouting` | era detection, request building, header checks, discovery and negotiation, as pure operators |
| `DualEra` | `DualEraServer` with clients of both eras and a rewriting gateway; contains `LegacySession` by `INSTANCE` |
| `Identity` | both eras' binders over an injected policy, as pure operators |
| `Consumers` | the current, the legacy and the clean-room consumer as pure operators, on `HeartbeatCore` and `Identity` |
| `Interop` | replicas behind a gateway, read by all consumers at once |
| `ListenStream` | one subscription stream: server, transport, `SubscriptionStream`, and the refetch it causes |
| `ReleaseGate` | from the steps of a case to the readiness levels, as pure operators |
| `ReleaseProcess` | the release tools over one working tree that is edited meanwhile |
| `Demo` | the demo publisher with its controls, and the observer's five scenarios |
| `MC...` | the instances TLC checks |
| `..._proofs` | theorems about `Lineage`, `Convergence`, `LegacySession`, `DualEra`, `Interop` with the operators of `Identity` and `Consumers`, `ListenStream`, `ReleaseProcess` with those of `ReleaseGate`, and `Demo`; those about modules built on `HeartbeatCore` begin with the lemmas on its operators that they use, so that each can be read and checked by itself |

Operators such as `LastWriterWins` or `DueByHint`, marked "Mutated form", are
wrong variants of the operator that follows them. Putting one in its place makes
the property it is paired with in `PROJECT.json` ("mutants") fail: the
properties can tell this code from its plausible bugs.

### HeartbeatCore

`Verdict(s, d, now)` is `admit` as the first check that speaks, in the code's
order: structure, `from_dict`, routing, duplicate, lineage, freshness. `Admit`
adds the state it leaves. Identifiers and `extensions` are opaque values;
instants are integers, of which the wire carries multiples of `MsTicks`
(`format_rfc3339` truncates to milliseconds; `from_dict` does not, so a foreign
document may carry finer instants, which the digest does not see). Rules no
property tells apart (patterns, namespacing, missing members) are the flag
`wellFormed`. JSON `null` in a required member is the value `Null` because the
validator lets it through; `"raised"` is an exception out of `admit` that is not
the package's own (an instant that cannot be parsed, an ordering comparison
with `None`).

### Lineage

`sent` keeps every document ever issued and `Deliver(p, d)` hands any of them,
or any document of `Foreign`, to any tracker at any time: loss, delay,
repetition, reordering and misrouting in one action. `Start` gives a process a
minted epoch, never seen before, or one of `ConfiguredEpochs`, which may be used
again and by two processes at once. Each issue reads a clock that is off the
consumer's by a member of `Offsets`; the consumer's clock ticks and is stepped
by members of `Steps`. `everHeld`, `admittedAt` and `born` are history variables.

### Convergence

A refetch is three steps: `Poll` (captures `now`, clears `pending`, sends the
read), `Answer` (the publisher reads its current document out, some principal
vouches for it), and `FetchEnds` or `FetchFails`. Everything else may happen in
between, hints included: `on_hint` is a callback of whatever reads the
connection. `FetchEnds` is everything `refetch` does with an answer, judged on
the instant captured before it. `Poll` is also the turn of the loop that finds
nothing due.

`on_hint` only asks whether a hint matches the held heartbeat, so `Hints` holds
the current document's, the held one's, and one for all others (old, forged,
bare). Time is discrete and urgent: `Tick` waits while the loop has not had its
turn for `PollGap`, a read has been out for `Latency`, or a renewal is
`RenewGap` old (`InTime`). These bounds belong to the deployment, not to the code, which
has no timer; every property that depends on them names them.

### LegacySession

One action per method of the two session classes; `HandleRead` is `handle` for
an ordinary request and `Read` the one the heartbeat consumer sends. The classes
have no transport, so the wire keeps every message and delivers any of them at
any time, and it starts with `Strays`: initialize requests of other clients with
every version and capability the negotiation distinguishes, their notification,
and a result that names the modern era. `ConsumeInitializeResult` has no guard
on the state because the method has none: a failed client comes back with a
later good result, and a repeated result takes a ready one back. The client is
ready before the server knows it, so a read may overtake the notification and be
refused with `session_not_initialized`; the next one is served. `from` and
`refusals` are history variables. A registry that only declares
`resources/read`, for a deployment that routes it elsewhere, is `"declared"`:
such a server advertises the extension and its own `handle` still refuses the
read.

### EraRouting and DualEra

`Route(r)` is `route` of `era.py`: the era a message belongs to, or the reason
it is refused, with `has_modern_envelope`, the mixed-era checks and the header
rungs of `metadata.py` in their order. `BuildRequest`, `BuildDiscoverResult`
and `Negotiate` are what the client and the server side build and conclude.
Revisions, names and header values are members of small sets; `Missing` and
`Malformed` stand for what is absent or no usable string.

`DualEra` has one action per thing that can arrive: `ServeLegacy`,
`ServeModern`, `ServeForeign`, each with a way `how` in which a gateway has
rewritten it (members stripped, an envelope or headers added, relabelled), and
one per thing a client does. Its legacy half is `LegacySession` itself, so that
`ImplementsLegacy` says that modern traffic cannot touch it. `last` is the
latest dispatch, which the safety properties speak of.

### Identity, Consumers, Interop

A policy is a table from keys to participants, looked up by compact form in the
current era and by bare name in the legacy one; `Callable` is the legacy binder
over a predicate. `Refetch`, `LegacyRefetch` and `CleanAdmit` are the three
consumers' reads, order of checks included; the hints, deadline and counters of
`HeartbeatConsumer`, which have no part in what a read concludes, are only in
`Convergence`. In `Interop` a `Read` puts
one answer of the gateway to all consumers at the same instant, so what they
then disagree about is theirs; `apart` collects the two reasons for which they
may (an answer that nobody vouched for, clocks that disagree), `shown` every
revision each of three of them has held, which is the register it implements.
Reads that fail or take time are in `Convergence`. A document may declare a null
version, which the core refuses and the clean-room validator lets through.

### ListenStream

`Deliver` takes frames in order; `Misdeliver` repeats, reorders or mixes in
others (`Foreign`), `Lose` drops. `Refused` is what `accept` raises for.
A grant may be wider than what was asked for: the module makes no use of the
server's good will. `Drain` is the caller's `hints()` loop; a hint's only effect
is a refetch owed. A refetch is `Ask`, which clears that flag, then `Answer`,
then `Admitted` or, at any point, `AskedInVain` - the source unreachable, or an
answer that is unbound, not authoritative or refused - which does not set it
again. `missed` is the latest change such a read was for. The deadline is in
`Convergence`; here a read may be made at any time.

### ReleaseGate and ReleaseProcess

A case is the script of what happened in it (checks passed or failed,
`unsupported()`, `hold()`, an exception), and `VerdictOf` plays it back as
`Case` does, so that an overwriting step is seen. `ReleaseProcess` runs
`verify_sdk.sh` with `record_sdk_verification.py`, `emit_hb05_evidence.py` and
`build_release.py` (with and without `--check`) one at a time, each in the steps
in which it reads or writes the tree; `Edit` and `Sign` come in between, and
`Interrupt` may cut any tool short. `FinishCheck` passes or fails on what `run`
compares and on nothing else: somebody may have edited the tree between the two
builds, or since. `seen` keeps what the tree has been since the check began, so
`CheckMeansCommitted` can say what a pass then means.

### Demo

The observer is sequential, so `at` is its place; one action per request, sleep
or wait. `Visit` is any other client on the publisher's open port, `Stall` and
`Lose` a slow machine and a lost answer. `GET /state` is read in two steps,
because it takes no lock.

## 3. Runs

| Run | Expect | Shows |
|---|---|---|
| `lineage_overlap` | pass | two overlapping publishers, minted epochs, stepped clock: `ImplementsRegister` (refinement of `LeaseRegister`), `ReplayIsNamed`, `NextBeatAdmitted`, `TypeOK` |
| `lineage_mixed` | pass | two trackers, a configured epoch, foreign documents at both ends of the window, issuer clock skew, 2 ticks per millisecond: `OneContentPerRevision`, `EpochsDoNotCross`, `BoundedTrust`, `IssuedIsAcceptable` |
| `convergence_timing` | pass | `AskedBeforeExpiry`, `NoFalseDeath`, `HeldIsBound`, `HintReflected` |
| `convergence_faults` | pass | `Converges`, a liveness property, in time without end (`EndlessSpec`) |
| `legacy_session` | pass | `EndsAgree`, `ReadyMeansNegotiated`, `ReadsAreImplemented`, `ServerNeverGoesBack`, `Completes`, `TypeOK` |
| `lineage_nulls` | violation | `HeldConformsToSchema` |
| `dual_era` | pass | `ErasDoNotMix`, `HonestTrafficServed`, `ModernOfferSpoilsNothing`, `ImplementsLegacy` (refinement of `LegacySession`), `ModernServed` (liveness) |
| `interop` | pass | `ErasBindAlike`, `ErasAgree`, `CleanRoomAgrees`, `ReconnectAgrees`, `ImplementRegisters` (three refinements of `LeaseRegister`) |
| `listen` | pass | `OrderedStreamAccepted`, `OnlyAgreedTypes`, `AcceptedIsNoticed`, `AgreementStands` |
| `release` | pass | `PublishMeansClean`, `LevelsNest`, `ApprovalIsExact`, `CheckMeansCommitted`, `FilesAgree` |
| `release_sdk` | violation | `InstalledSdkSettlesTheLeg` |
| `demo` | pass | `UndisturbedRunPasses`, `RunEnds` (liveness) |

**Bounds and why they suffice.** Two epochs (three with foreign ones) and two
sequences give every relation of a candidate to the held heartbeat: same epoch
below, equal and above, retired, new. Two processes give overlap and split
brain; four documents in flight give a replay of each after a restart. Clocks
run a few ticks past the lease, so a lease is issued, trusted and expired in
one behaviour. In `convergence_timing` the lease (6), renewal gap (2), poll gap
and latency (1) are the tightest for which `NoFalseDeath` holds, since half of
the remaining window must exceed poll gap plus latency: with a lease of 5 TLC
finds a false death. The horizon of 7 ticks lies beyond the first expiry.
`convergence_faults` has no horizon. What `Convergence` does depends on
differences of instants and on the order of an epoch's sequences, so when the
clock is at `MaxTime`, `TimeGoesOn` (`MCConvergence`) lets it stand and makes
every instant in the state a tick older. An instant at 0 gets no older, which
changes no decision: the loop's last turn, a read and a renewal are never more
than a tick ago (`InTime`), so no document on its way is more than two; a last
fetch two ticks ago is due by `MaxRefetchInterval` (2) however much longer ago
it was; and a held lease that expires at 0 is over. Sequences are counted anew
among the documents in play. So held leases (5 ticks) run out while reads fail,
processes crash and their successors are read, without end, and every retry
meets a later clock. The skew bound (3) covers the renewal gap (1) and the step
of the clock (2); with 2 a consumer whose clock has stepped can refuse every
document for ever, which TLC finds, and which is item 6 of section 4.
`legacy_session` is unbounded: two supported versions, every kind of other
version and of advertisement, all configurations of both ends. `dual_era` is
unbounded too, and small by its constants: one revision of each era, every way
a request is refused, every kind of discovery result. `interop` has a
replica with a clock of its own, another whose clock is two ticks ahead, beyond
the skew bound, and one epoch served twice; three documents and three
instants give duplicates, conflicts, rollbacks and expiry in one behaviour.
`listen`: two revisions and three frames, so an acknowledgement and two
notifications, or one lost and one again, and two frames in the stream when
another is mixed in; acknowledgements of all, part or nothing of what was
asked, and of something else, from this server or another stream. `release`: four states of the tree, chosen so that
digest, size, documentation and test result do not move together; two edits or
signoffs, three tools, one trouble in a run of the matrices (each level
excludes by single cases). `demo`: a budget (4) longer than a lease (2), as
the code's 30 s is longer than its 6 s, and two visits, enough to freeze and
thaw or to restart twice. All
bounds are constants with a comment; `CHECK_DEADLOCK FALSE` is set because a
bounded behaviour ends, and a deployment may stop too.

**Fairness** (`convergence_faults`, `legacy_session`, `dual_era`, `demo`). In the
first, `WF` of time and of `Poll`: clocks run and the caller drives its loop, as
`HeartbeatConsumer` asks of it; `WF(Issue)`: a live publisher renews;
`WF(FetchFails \/ FetchEnds)`: a read ends one way or the other. Strong fairness
is on what outsiders may spoil time and again: of all reads made for ever, not
all are answered by strangers, and not all that a permitted principal has
answered are lost. Without that no consumer converges. Nothing is assumed of
hints, so they may all be lost, nor of strangers, crashes and restarts;
`Converges` speaks of publishers that in the end stay up, whatever happened
before, and asks for a fresh lease of the running process again and again, not
once for all, since reads may go on failing. Clock steps in this run are forward. In
`legacy_session`, `WF` of the two client calls (the caller goes on with the
handshake) and of the delivery of what client and server say to each other;
nothing of other clients, so they may do nothing or spoil the handshake, which
`Completes` allows for. In `dual_era`, `WF` of the modern client's two calls
and of the delivery, as they were sent, of its requests and of the endpoint's
own discovery answers: a caller that can ask does, and the transport gets
through. Rewriting gateways, other servers' offers and other clients have no
fairness and may interfere for ever; `ModernServed` only speaks of clients that
in the end keep a usable negotiation. In `demo`, `WF` of the observer's next step
and of time while it waits; that the waits end is what the code's budgets are
for.

**Scope of single properties.** `NextBeatAdmitted` speaks of minted epochs: a
configured one may have been retired by a previous life of its process.
`ReplayIsNamed` speaks of documents that pass validation. `HintReflected` and
`NoFalseDeath` need a skew bound of at least the renewal gap and the latency,
and these two and `AskedBeforeExpiry` a wall clock that is not stepped (section
4, items 5 and 6). `ErasAgree` ends with the first unauthenticated answer, which the
two eras treat differently, `CleanRoomAgrees` with the first document whose
clock is off, since the clean-room consumer has no skew check. `ReconnectAgrees`
speaks of epochs that one process has. `Converges` speaks of a publisher that
renews every `RenewGap` and needs a skew bound that covers that gap and what the
consumer's clock is ahead: `check_freshness` refuses an older document however
often it is read (item 6). `OnlyAgreedTypes` bounds what
gets in by the acknowledgement, and by the request only if the acknowledgement
is within it; `AcceptedIsNoticed` excepts changes whose read was made in vain;
`CheckMeansCommitted` speaks of the files beside `SHA256SUMS` only if no rewrite
was cut short; and `ApprovalIsExact` assumes that nobody edits
the attested sources while the suite runs on them (section 4, items 8, 12, 13 and 7).

## 4. What the code does not keep

Two violation runs check one statement of the repository each; quotes are in `PROJECT.json` ("findings").

1. **Null members are admitted** (`lineage_nulls`). `validate_document` tests
   `if sequence is not None`, and the required-member check only asks for the
   key: `"sequence": null` or `"boot_id": null` passes, is admitted and held.
   The schema types both. A null instant makes `admit` raise `ValueError`, and a
   held null sequence makes the next heartbeat raise `TypeError`; neither is a
   `HeartbeatError`, so `refetch`, which "never raises", does.
2. **An installed SDK fails its own leg** (`release_sdk`). The cross-era case
   looks for `implements_revision` where `assert_contract_matches_sdk` does not
   put it, so where the SDK is importable the case fails although the contract
   agrees, and no readiness level is reached.

The following were met while modelling. Their statements are kept in the
modules, unchecked by the runs; the change of constants in parentheses makes
TLC show each.

3. **A rolling deployment seen in the other order** (`OldInstanceIsRefused`, as
   a PROPERTY of `Lineage_overlap.cfg`). The older instance is refused only if
   this consumer held it earlier. One that first sees the newer instance admits
   the older one later, and then refuses the newer one as `boot_id_reuse`.
4. **Optional members decide** (`OptionalMembersIgnorable`, an INVARIANT; that file with
   `ConfiguredEpochs = {e1}`, `Bodies = {b0, b1}`, `MaxSkew = 0`, `MaxTime = 0`,
   `Steps <- MCNone`). The digest includes `extensions`, so two documents that
   differ only there are a conflict, not a duplicate.
5. **Expiry follows the wall clock** (`ExpiredStaysExpired`;
   `Convergence_timing.cfg` with `Epochs = {e1}`, `Answering = {owner}`,
   `Lease = 3`, `MaxSequence = 3`, `MaxTime = 4`,
   `Steps <- MCStepBack`). `clock.py` promises scheduling on the monotonic clock;
   no consumer reads it, and a step back makes an expired lease fresh.
6. **Age counts as skew** (`NoFalseDeath` with `MaxSkew = 1`). `check_freshness`
   compares `issued_at` with the time of the read. With the default bound of 5 s
   and a 30 s lease, a document that is merely 6 s old is refused, so a consumer
   that got no hint may fetch in time, be refused each time, and see a live
   publisher's lease run out.
7. **The tree is digested after the suite ran** (`ApprovalIsExact` with
   `EditsDuringTests = TRUE`). `record_sdk_verification.py` attests the sources
   as they are when it is called, which an edit during the tests has changed.
8. **The acknowledgement is believed** (`OnlyAgreedTypes` without its last
   disjunct). The docstring of `subscriptions.py` says that only requested types
   are accepted, "enforced here rather than assumed". `accept` stores the peer's filter
   as it comes (239-244), so a server that acknowledges more than was asked for
   gets more in, and it compares no stream id, so a notification of another
   stream is taken if its type is agreed here.
9. **Advertised and not served** (`LegacyReadsServed`, `ListenServed` in `dual_era`). The
   dual-era server advertises the extension to legacy clients, whose
   authoritative read has no envelope and is routed nowhere, and advertises
   change hints, though its modern path raises `KeyError` for
   `subscriptions/listen`.
10. **A newcomer may land elsewhere** (`ReconnectLandsAlike` in `interop`).
    `reconnect_inherits_nothing` says a new consumer "must land exactly where the
    long-lived one did"; a gateway that answers it from an older replica makes it
    hold that one's epoch.
11. **The clean-room consumer reads undeclared documents** (`ReadsOnlyDeclared`,
    as an INVARIANT of `Interop.cfg` with `Misrouted <- MCUndeclared`).
    Its `validate` compares `extension_version` only if it is not `None`, and its
    required-field loop only asks for the key, so a null version is valid,
    admitted and held. The schema says that a consumer of 0.1 reads only documents
    that declare 0.1; the core refuses such a document.
12. **A failed read forgets the hint** (`AcceptedIsNoticed` without its last
    disjunct). `refetch` clears `refetch_pending` before it reads and restores it
    after no failure, so a change that was announced and accepted can be neither
    held nor owed; only the deadline brings it, unless nothing is held yet.
13. **A check vouches for one file** (`CheckMeansCommitted` without `~cut`).
    `build_release.py --check` compares `SHA256SUMS`, and a rewrite cut short after
    that file leaves others of an older build, which it passes. What it compares
    with is what the tree was while it built, not what the tree is when it ends.

Read off the code, without a property: `unsupported()` and `hold()` overwrite a
FAIL (`verdicts.py`), so a case may come out held though a check of it failed
(such a case still blocks publication: `PublishMeansClean`); the docstring of the
policy-gap case says it holds on a red run too, where it fails; a demo publisher frozen
before its first heartbeat mints one; `GET /state` may mix two epochs in one
report; failed assertions and `URLError` of the observer are caught by nobody;
the dual-era server's ledger of refusals misses `MalformedEnvelope` and
`HeaderMismatch`; the legacy consumer admits unverified answers, where the
identity matrix says that only bound ones move held state; and an empty legacy
principal is unbound where the current era calls it unverified.

## 5. Theorems

| Theorem | Says | Assumes |
|---|---|---|
| `Lineage_proofs!TypeCorrect`, `Inductive` | `TypeOK`, `IInv` | F |
| `...!NoSplitBrain`, `TrustIsBounded` | `OneContentPerRevision`, `BoundedTrust` | F |
| `...!TrackersAreRegisters` | `Lineage` implements `LeaseRegister` | F |
| `...!ReplayAlwaysNamed`, `EpochsNeverCross`, `IssuedAlwaysAcceptable` | `ReplayIsNamed`, `EpochsDoNotCross`, `IssuedIsAcceptable` | F |
| `...!NeverLockedOut` | `NextBeatAdmitted` | F, `WireWithinSkew` |
| `...!TrackersNeverReturn` | no tracker returns to a revision it has moved on from or to an epoch it has left (`LeaseRegister!NeverReturns`) | F |
| `Convergence_proofs!TypeCorrect`, `OnlyPermittedMoves` | `TypeOK`, `HeldIsBound` | |
| `...!NeverUnasked` | `AskedBeforeExpiry` | `Steps = {}` |
| `...!HintsAreReflected` | `HintReflected` | `SkewCovers` |
| `...!NeverFalselyDead` | `NoFalseDeath` | `SkewCovers`, `LeaseOutlasts` |
| `LegacySession_proofs!TypeCorrect`, `EndsAlwaysAgree`, `ReadyWasNegotiated`, `ReadsAlwaysImplemented`, `ServerMovesForward` | `TypeOK`, `EndsAgree`, `ReadyMeansNegotiated`, `ReadsAreImplemented`, `ServerNeverGoesBack` | |
| `DualEra_proofs!LegacyLegImplementsSession`, `EndsAgreeAmongEras` | `ImplementsLegacy`: the legacy leg implements `LegacySession`; so `EndsAgree` holds behind the endpoint too | |
| `...!ErasNeverMix`, `HonestNeverRefused`, `ModernOfferIsHarmless` | `ErasDoNotMix`, `HonestTrafficServed`, `ModernOfferSpoilsNothing` | |
| `Interop_proofs!BindAlike` | the two eras' binders decide alike (decision D2) | |
| `...!BoundAlike`, `AgreedWhileAuthenticated` | `ErasBindAlike`, `ErasAgree` | |
| `...!CleanRoomAlwaysAgrees` | `CleanRoomAgrees` | `MisroutedWhole` |
| `...!ReconnectAlwaysAgrees` | `ReconnectAgrees` | `NoImpostors` |
| `...!ConsumersAreRegisters` | `ImplementRegisters`: the current, the legacy and the clean-room consumer each implement `LeaseRegister` | `MisroutedWhole` |
| `ListenStream_proofs!NeverRefusedInOrder`, `AcceptedChangeNoticed`, `AgreementNeverChanges` | `OrderedStreamAccepted`, `AcceptedIsNoticed`, `AgreementStands` | |
| `...!OnlyAgreedReceived` | `OnlyAgreedTypes` | |
| `ReleaseProcess_proofs!PublishedIsClean`, `LevelsAlwaysNest`, `CheckVouchesForTree`, `FilesAlwaysAgree` | `PublishMeansClean`, `LevelsNest`, `CheckMeansCommitted`, `FilesAgree` | |
| `...!ApprovalAlwaysExact` | `ApprovalIsExact` | `~EditsDuringTests` |
| `Demo_proofs!UndisturbedAlwaysPasses` | `UndisturbedRunPasses` | `Unhurried` |

They hold for all constants that satisfy the named ASSUMEs of the modules, the
bounds of the models included; TLC evaluates every one of these in the runs.
`CasesAssumption` is the code's list of cases, `SessionConstants` and
`DualAssumption` the kinds of messages the enumerated sets consist of. F, `ForeignSequencesPresent`, says that no foreign document has a
null sequence: finding 1 is why it has to be assumed, and
`Lineage!IssuedDocument` why issuers need no such assumption. `WireWithinSkew`:
the skew bound is not finer than the wire's milliseconds. `Steps = {}` is item
5 above, `~EditsDuringTests` item 7. `MisroutedWhole` says
that a document which reaches the consumers by accident declares a version, has
a sequence and instants on the wire's grid, as whatever went through some
`to_dict` does: the two implementations are only told to agree on those, items 1
and 11 are what happens otherwise. `NoImpostors` says that no
misrouted document which could be admitted claims an epoch of one of the
replicas, as `ReconnectAgrees` speaks of epochs that one process has. `MCInterop`
checks both of its documents. `SkewCovers` (also `Steps = {}`): the skew bound covers
the renewal gap with a millisecond's rounding, and the latency; the lease
outlives the renewal gap. `LeaseOutlasts`: half of a lease that is a renewal gap
old covers poll gap and latency. Item 6 is the failure of `SkewCovers`.

**Lineage.** An accepted document either raises the sequence of the held epoch
or brings an epoch outside the retired set (`AcceptedMoves`). That is not
inductive for histories as it stands: the retired set has to cover every epoch
in `everHeld` (`HistoryMatches`) and the held sequence to bound the history of
its epoch (`HeldIsHighest`). With both in `IInv`, an accepted heartbeat's
revision is new to the history, which gives `OneContentPerRevision`, the
step of the refinement, and the verdict on every replay. `EpochsDoNotCross` and
`NextBeatAdmitted` need to know whose a minted epoch is: at most one process
runs under it and everything sent under it is that process's, below its next
sequence (`OneOwner`), and what is retired was sent (`HeldWasSent`).

**Convergence.** `AskedBeforeExpiry` follows from the pace of loop and reads
(`Paced`) and from what the loop's last turn saw (`NoneDueSince`): it ended the
last refetch, or less than half of the window between the last fetch and the
expiry had gone. A refetch that failed moves neither the last fetch nor the
deadline, and one that was refused moves the last fetch no further than the
moment it asked, so the last attempt lies at most `LastTicks` before the
expiry. TLC shows that the bound is tight. `HintReflected` and `NoFalseDeath` rest
on the order of three documents: the one served, the one in an answer under way
and the one held. None of one epoch is ahead of the one before it, and an epoch
that is served but not held has not been retired, even if the publisher
restarted while the answer was under way (`Serving`, `HeldInOrder`,
`AnswerInOrder`). So an authoritative answer is never refused (`AnswerIsGood`):
it leaves the consumer with a document no older than what any earlier hint
announced (`HintOwed`) and with most of a lease (`CalmInTime`).

**LegacySession.** The inductive invariant follows a handshake through the wire:
every result and notification in it with our owner was written by a server that
negotiated what it says, a server that is past `created` keeps the era it
answered with, and a client holds only what such a result says.

**DualEra.** First the refinement, action by action: the legacy client and server
only ever see messages that `LegacySession` has on its wire, so each dispatch is
one of its steps or a stutter. That makes the invariant of `LegacySession_proofs`
an invariant here (`SessionInvariant`, by `INSTANCE` of that module), `EndsAgree`
included. The rest are facts about the pure operators: what `Route` says of each
way of rewriting a message, and that `BuildRequest` and `Route` fit together for
whatever `Negotiate` can have left behind, because it picks the version first in
the order of preference among those supported. The invariant
keeps that every modern request under way was built by our builder
(`AllBuilt`) and that a negotiation that enabled the extension settled on a modern
revision (`EnabledIsModern`).

**Interop.** `ErasAgree`: the two consumers' trackers are equal,
bound to the same participant, until an answer was unauthenticated; the binders
agree on every input (`BindAlike`), and where both let an answer through,
identity first or lineage first makes no difference. `CleanRoomAgrees`: the two
implementations make the same checks in another order, on a held document in
another form (the wire's instead of the parsed one). They accept
the same documents, since in both readings a document is accepted exactly when
it moves the tracker forward (`SameVerdict`); whether they call one that does
not a duplicate or a conflict leaves both where they were. Between two accepted
documents the invariant `CleanInv` says that the sets and the held documents
correspond through `to_dict`, which loses what is finer than a millisecond:
therefore `MisroutedWhole`. `ReconnectAgrees`: what a consumer holds of an epoch
that one process has is no later than that process's last document, and is that
document if it is as late (`HeldFromKept`). Every read of that replica brings the
same last document to both consumers, whichever of its earlier ones they have
seen, and neither is behind the other after it (`ReconnectInv`).
`ImplementRegisters`: all that the three consumers have in common is that a
document takes another's place only if it is later in the same epoch or of an
epoch that is not retired (`Overtakes`). For two of them that is the core's
`AcceptedMoves`, for the clean-room one its own order of checks
(`CleanOvertakes`). With the epochs of everything ever held among the retired
ones (`RegisterInv`), such a move is a step of the register.

**ListenStream.** Until the transport misbehaves, what is left on the wire is
what the server may send after what the stream has acknowledged (`InStep`,
`WireInOrder`). `OnlyAgreedReceived` needs no more than what was received
(`ReceivedAgreed`). For `AcceptedIsNoticed` a read is followed through its steps:
it is asked for the changes heard of by then, its answer is no older than those
nor than what is held, since revisions only grow (`FetchInOrder`), and a change
heard of later is still in a hint that will ask for it, or has set the flag
again (`HeardIsWaiting`).

**ReleaseProcess.** Five invariants of the tools, each checked by TLC first.
`FilesInv`: what a rewrite has written is from its first build, and before it has
written anything the files agree unless an earlier one was cut short.
`CheckInv`: what a check has built is among what the tree has been since it
began, and what it vouched for is on disk until something is rewritten; with
`FilesInv` that carries from the checksums to the files beside them.
`EvidenceInv`: the matrices that have run are a prefix of their order, all of them
once a pack is judged, each with one script per case of the kinds a case can
have, which are at most two steps long. With that `VerdictOf`, a fold, is what its unrolled form says
(`VerdictOfScript`): PASS exactly when every step passed. Every level's criteria
then reduce to the set of cases that did not pass (`PublishIffPassed`,
`NoRiskIffPassed`). `RecordsInv`: what a complete record attests was
run, what it signs off was signed, and the tree stands still while the suite
runs; so (`ApprovalInv`) a case that passed for want of nothing but a record had
one for exactly this tree.

**Demo.** `Smooth` says where a run that nobody disturbs can be. Every poll of a
publisher that mints brings a heartbeat above the one held, or of an epoch the
observer has not retired, and so is accepted (`MintAccepted`). Time passes only in
the sleeps and until the lease has lapsed, so the frozen publisher's document
comes back exactly at its expiry: too old for a newcomer, and a lease, hence no
more than the skew bound, after it was issued. After the restart the retired
epochs are those of both processes, which makes the replaced lease
`boot_id_reuse`, whether or not it has lapsed. `Unhurried` is about the settings
of the demo: a renewal after less than a millisecond may have the same expiry on
the wire, which the observer's check counts as a failure, and a wait without
budget ends before the first poll.

**Only model-checked.** The liveness properties (`Converges`, `Completes`,
`ModernServed`, `RunEnds`) are out of the prover's reach, since they rest on
fairness. Every invariant and every other action property that a run checks is
also proved.

## 6. Not modelled, and what is left

Not modelled, because it keeps no state, or is I/O only: the SDK seam, lint and
exception classes of the current era; the diagnostic `to_dict` forms; origin and
HTTP method checks; corroboration of hints in the legacy era, which influences no
decision; the measurements and scans behind the cases (their effect on a verdict
is modelled); `run_demo.py`, `verify_wheel.py`, `emit_evidence.py`, archive and SBOM
formats. The scenario drivers of the conformance package are not translated
step by step: the situations they arrange are states of `DualEra` and `Interop`.
String formats (identifiers, instants, URIs) are collapsed into flags throughout.

Two things `Interop` seems to leave out are in it. A replica that restarts is one
of `Replicas` that the gateway asks no more, and another that issues its first
document later; the theorems are for every finite set of them. A gateway that is
unreachable moves nothing that any of these consumers holds.
