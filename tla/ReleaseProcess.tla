---------------------------- MODULE ReleaseProcess ----------------------------
(***************************************************************************)
(* What leads to a release decision, in a working tree that is edited in   *)
(* between: verify_sdk.sh records a run of the SDK suite, an operator      *)
(* signs off a core size, emit_hb05_evidence.py runs the matrices and      *)
(* adjudicates, and build_release.py builds twice and compares with, or    *)
(* rewrites, the committed release files.  One tool runs at a time; it     *)
(* reads the tree as it is at each of its steps, and may be cut short.     *)
(***************************************************************************)
EXTENDS ReleaseGate

CONSTANTS
  Versions,       \* states of the tree
  First,          \* the one it starts in
  DigestOf,       \* of the attested sources
  LocOf, Documented,   \* core size, and whether loc-budget.md names it
  SuitePasses,    \* whether tests/current pass, the contract agreeing with the SDK
  EditsDuringTests,    \* somebody edits while the suite runs
  NoVersion,
  MaxActs,        \* bounds: edits and signoffs,
  MaxTools, MaxTroubles   \* tools, and cases gone wrong in one run

MatrixOrder == <<"cross-era", "distributed-runtime", "identity-binding",
                 "clean-room", "measurement", "isolation">>

ReleaseFiles == <<"SHA256SUMS", "sbom.json", "reproducibility.json", "dist">>

ASSUME ProcessAssumption ==
  /\ First \in Versions /\ NoVersion \notin Versions
  /\ {Documented, SuitePasses} \subseteq [Versions -> BOOLEAN]
  /\ LocOf \in [Versions -> Nat]
  /\ Matrices = Range(MatrixOrder)
  /\ EditsDuringTests \in BOOLEAN
  /\ {MaxActs, MaxTools, MaxTroubles} \subseteq Nat

VARIABLES
  tree, acts,
  attested,    \* docs/sdk-verification.json
  signoff,     \* docs/core-size-signoff.json
  files,       \* the release files: which version each is about
  tool,        \* the tool that runs, and how far it is
  started,     \* tools started so far
  pack,        \* the evidence: every case's script, and what it was about
  vouched,     \* history: a --check has passed, and nothing was rewritten since
  seen,        \* history: what the tree has been since the latest --check began
  cut,         \* history: a rewrite of the release files was cut short
  ran,         \* history: digests on which the SDK suite has passed
  signed       \* history: sizes an operator has accepted

checked == <<vouched, seen>>
vars == <<tree, acts, attested, signoff, files, tool, started, pack, checked,
          cut, ran, signed>>

Idle == [name |-> "idle"]
NoPack == [scripts |-> << >>, sdk |-> NoVersion, size |-> NoVersion]

Init ==
  /\ tree = First
  /\ acts = 0
  /\ attested \in {NoRecord, [digest |-> DigestOf[First], complete |-> FALSE]}
  /\ signoff = NoRecord
  /\ files = [f \in Range(ReleaseFiles) |-> NoVersion]
  /\ tool = Idle
  /\ started = 0
  /\ pack = NoPack
  /\ vouched = FALSE /\ seen = {}
  /\ cut = FALSE
  /\ ran = {}
  /\ signed = {}

-----------------------------------------------------------------------------
(* People *)

Edit(v) ==
  /\ v # tree
  /\ acts < MaxActs
  /\ tool.name = "verify" => EditsDuringTests
  /\ tree' = v
  /\ acts' = acts + 1
  /\ seen' = seen \cup {v}
  /\ UNCHANGED <<attested, signoff, files, tool, started, pack, vouched, cut,
                 ran, signed>>

(* The operator accepts the size as it is now, but may forget to say why.  *)
Sign(complete) ==
  /\ acts < MaxActs
  /\ acts' = acts + 1
  /\ signoff' = [measured |-> LocOf[tree], complete |-> complete]
  /\ signed' = IF complete THEN signed \cup {LocOf[tree]} ELSE signed
  /\ UNCHANGED <<tree, attested, files, tool, started, pack, checked,
                 cut, ran>>

Start(t) ==
  /\ tool = Idle
  /\ started < MaxTools
  /\ started' = started + 1
  /\ tool' = t
  /\ pack' = NoPack
  /\ UNCHANGED <<tree, acts, attested, signoff, files, cut, ran, signed>>

-----------------------------------------------------------------------------
(* verify_sdk.sh: the suite runs, then its run is recorded, if it was one  *)
(* that passed, under the digest the tree has by then.  A write that is    *)
(* cut short leaves a file that does not parse.                            *)
StartVerify ==
  Start([name |-> "verify", under |-> tree]) /\ UNCHANGED checked

Record(whole) ==
  /\ tool.name = "verify"
  /\ tool' = Idle
  /\ attested' = IF ~SuitePasses[tool.under] THEN attested
                 ELSE IF whole THEN [digest |-> DigestOf[tree], complete |-> TRUE]
                 ELSE NoRecord
  /\ ran' = IF SuitePasses[tool.under] THEN ran \cup {DigestOf[tool.under]} ELSE ran
  /\ UNCHANGED <<tree, acts, signoff, files, started, pack, checked, cut, signed>>

-----------------------------------------------------------------------------
(* emit_hb05_evidence.py: the matrices one after another, then the verdict.*)
StartEvidence ==
  /\ Start([name |-> "evidence", scripts |-> << >>, sdk |-> NoVersion,
            size |-> NoVersion])
  /\ UNCHANGED checked

SettledScript(c) ==
  CASE c = "current-current-sdk" ->
         SdkLegScript(SuitePasses[tree], attested, DigestOf[tree])
    [] c = "core-size" -> CoreSizeScript(LocOf[tree], Documented[tree], signoff)

Settled == {"current-current-sdk", "core-size"}

Troubles(scripts) ==
  Cardinality({x \in UNION {{m} \X DOMAIN scripts[m] : m \in DOMAIN scripts} :
                 x[2] \notin Settled /\ scripts[x[1]][x[2]] # <<"passed">>})

ScriptsOf(m) ==
  {[c \in Cases[m] |-> IF c \in Settled THEN SettledScript(c) ELSE s[c]] :
     s \in [Cases[m] -> OrdinaryScripts(m)]}

RunMatrix ==
  /\ tool.name = "evidence"
  /\ Cardinality(DOMAIN tool.scripts) < Len(MatrixOrder)
  /\ LET m == MatrixOrder[Cardinality(DOMAIN tool.scripts) + 1] IN
     \E s \in ScriptsOf(m) :
       /\ tool' = [tool EXCEPT
            !.scripts = [n \in DOMAIN @ \cup {m} |-> IF n = m THEN s ELSE @[n]],
            !.sdk = IF m = "cross-era" THEN tree ELSE @,
            !.size = IF m = "isolation" THEN tree ELSE @]
       /\ Troubles(tool'.scripts) <= MaxTroubles
  /\ UNCHANGED <<tree, acts, attested, signoff, files, started, pack, checked,
                 cut, ran, signed>>

EmitPack ==
  /\ tool.name = "evidence"
  /\ Cardinality(DOMAIN tool.scripts) = Len(MatrixOrder)
  /\ pack' = [scripts |-> tool.scripts, sdk |-> tool.sdk, size |-> tool.size]
  /\ tool' = Idle
  /\ UNCHANGED <<tree, acts, attested, signoff, files, started, checked, cut,
                 ran, signed>>

-----------------------------------------------------------------------------
(* build_release.py *)
StartBuild(check) ==
  /\ Start([name |-> "build", check |-> check, builds |-> << >>, written |-> 0])
  /\ IF check THEN vouched' = FALSE /\ seen' = {tree} ELSE UNCHANGED checked

Build ==
  /\ tool.name = "build"
  /\ Len(tool.builds) < 2
  /\ tool' = [tool EXCEPT !.builds = Append(@, tree)]
  /\ UNCHANGED <<tree, acts, attested, signoff, files, started, pack, checked,
                 cut, ran, signed>>

Built == tool.name = "build" /\ Len(tool.builds) = 2

(* Mutated form: the committed checksums never gate. *)
PassesReproducible(builds, committed) == builds[1] = builds[2]

(* The verdict under --check; no committed checksums is no drift.          *)
Passes(builds, committed) ==
  builds[1] = builds[2] /\ committed \in {builds[1], NoVersion}

FinishCheck ==
  /\ Built /\ tool.check
  /\ vouched' = Passes(tool.builds, files["SHA256SUMS"])
  /\ tool' = Idle
  /\ UNCHANGED <<tree, acts, attested, signoff, files, started, pack, seen, cut,
                 ran, signed>>

(* Mutated form: each file is taken from the latest build. *)
WriteLatest ==
  /\ Built /\ ~tool.check
  /\ tool.written < Len(ReleaseFiles)
  /\ files' = [files EXCEPT ![ReleaseFiles[tool.written + 1]] =
                 IF tool.written = 0 THEN tool.builds[1] ELSE tool.builds[2]]
  /\ tool' = [tool EXCEPT !.written = @ + 1]
  /\ vouched' = FALSE
  /\ UNCHANGED <<tree, acts, attested, signoff, started, pack, seen, cut, ran,
                 signed>>

(* Without --check the files are rewritten from the first build, whatever  *)
(* the comparison said.                                                    *)
WriteNext ==
  /\ Built /\ ~tool.check
  /\ tool.written < Len(ReleaseFiles)
  /\ files' = [files EXCEPT ![ReleaseFiles[tool.written + 1]] = tool.builds[1]]
  /\ tool' = [tool EXCEPT !.written = @ + 1]
  /\ vouched' = FALSE
  /\ UNCHANGED <<tree, acts, attested, signoff, started, pack, seen, cut, ran,
                 signed>>

FinishWrite ==
  /\ Built /\ ~tool.check
  /\ tool.written = Len(ReleaseFiles)
  /\ tool' = Idle
  /\ cut' = FALSE
  /\ UNCHANGED <<tree, acts, attested, signoff, files, started, pack, checked,
                 ran, signed>>

(* A tool is interrupted, or a build fails. *)
Interrupt ==
  /\ tool # Idle
  /\ tool' = Idle
  /\ cut' = (cut \/ (tool.name = "build" /\ tool.written > 0))
  /\ UNCHANGED <<tree, acts, attested, signoff, files, started, pack, checked,
                 ran, signed>>

Next ==
  \/ \E v \in Versions : Edit(v)
  \/ \E complete \in BOOLEAN : Sign(complete)
  \/ StartVerify
  \/ \E whole \in BOOLEAN : Record(whole)
  \/ StartEvidence
  \/ RunMatrix
  \/ EmitPack
  \/ \E check \in BOOLEAN : StartBuild(check)
  \/ Build
  \/ FinishCheck
  \/ WriteNext
  \/ FinishWrite
  \/ Interrupt

Spec == Init /\ [][Next]_vars

-----------------------------------------------------------------------------
Judged == pack # NoPack
Reports ==
  [m \in DOMAIN pack.scripts |->
     [c \in DOMAIN pack.scripts[m] |-> VerdictOf(pack.scripts[m][c])]]
Adjudication == Adjudicate(Reports)

(* Ready to publish, no residual risk and no step of any case gone wrong   *)
(* are one and the same: nothing that failed, raised, was held or was left *)
(* out comes through the verdicts, and nothing clean is held back          *)
(* (release.py, LEVELS and collect_residual_risks).                        *)
PublishMeansClean ==
  Judged =>
    LET clean == \A m \in Matrices : \A c \in Cases[m] :
                   Range(pack.scripts[m][c]) = {"passed"} IN
    /\ ("ready_to_publish" \in Adjudication.ready) <=> clean
    /\ Adjudication.risks = {} <=> clean

(* The levels are computed apart and still nest: what may be published may *)
(* be reviewed and used (release.py, LEVELS).                              *)
LevelsNest ==
  (Judged /\ "ready_to_publish" \in Adjudication.ready)
    => Adjudication.ready = Levels /\ PackOk(Reports)

(* No approval is inherited: what clears the SDK leg is a run of the suite *)
(* on the very sources that were judged, and what clears an overrun is an  *)
(* operator's acceptance of that very size, however the tree has moved     *)
(* since (sdk_attestation.py, isolation.py).                               *)
ApprovalIsExact ==
  Judged =>
    /\ Reports["cross-era"]["current-current-sdk"] = "PASS"
         => DigestOf[pack.sdk] \in ran
    /\ (Reports["isolation"]["core-size"] = "PASS" /\ LocOf[pack.size] > Budget)
         => LocOf[pack.size] \in signed

(* A passing --check vouches for the committed checksums, if there are     *)
(* any: as long as nothing is rewritten, they are those of the tree at     *)
(* some moment since the check began, though the tree was edited during    *)
(* the check or after it.  For the other release files, which it does not  *)
(* read, it vouches unless a rewrite of them has been cut short - a case   *)
(* that it passes (build_release.py, run).                                 *)
CheckMeansCommitted ==
  vouched =>
    /\ files["SHA256SUMS"] \in seen \cup {NoVersion}
    /\ ~cut => \A f \in Range(ReleaseFiles) : files[f] \in seen \cup {NoVersion}

(* The release files are about one build, unless a rewrite was cut short   *)
(* and none has been completed since.                                      *)
FilesAgree ==
  (tool = Idle /\ ~cut) => \A f, g \in Range(ReleaseFiles) : files[f] = files[g]

(* "With the SDK importable the contract is re-derived from it here and    *)
(* now" (cross_era.py): if it agrees, the leg is proven.                   *)
InstalledSdkSettlesTheLeg ==
  (Judged /\ SdkInstalled /\ SuitePasses[pack.sdk])
    => Reports["cross-era"]["current-current-sdk"] = "PASS"
=============================================================================
