----------------------------- MODULE ReleaseGate -----------------------------
(***************************************************************************)
(* From the checks of a conformance case to the three readiness levels     *)
(* (verdicts.py, release.py), with the two cases that are settled by a     *)
(* record rather than by a check: the official-SDK leg, by the transcript  *)
(* of a run that took place elsewhere (sdk_attestation.py), and the core's *)
(* size, by an operator's signoff (isolation.py).                          *)
(*                                                                         *)
(* What a case does to its verdict is its script, a sequence of steps: a   *)
(* check that passed or failed, unsupported(), hold(), or an exception,    *)
(* which ends it.                                                          *)
(***************************************************************************)
EXTENDS SequencesExt, Naturals

CONSTANTS
  Cases,          \* matrix -> the ids of its cases
  NoRecord,       \* no record on disk, or one that does not parse
  Ceiling, Budget,
  SdkInstalled    \* the official SDK imports where the matrices run

Matrices == DOMAIN Cases
Verdicts == {"PASS", "FAIL", "UNSUPPORTED", "HOLD"}
Steps == {"passed", "failed", "unsupported", "hold", "raised"}

ASSUME GateAssumption ==
  /\ Budget \in Nat /\ Ceiling \in Nat /\ Budget <= Ceiling
  /\ SdkInstalled \in BOOLEAN

(* The cases that the levels name exist: CASES of cross_era.py,            *)
(* identity_matrix.py, cleanroom.py, measurement.py and isolation.py.      *)
ASSUME CasesAssumption ==
  /\ {"cross-era", "identity-binding", "clean-room", "measurement", "isolation"}
       \subseteq DOMAIN Cases
  /\ {"current-current-sdk", "downgrade-confusion"} \subseteq Cases["cross-era"]
  /\ {"gates-convergence", "policy-gap-divergence"}
       \subseteq Cases["identity-binding"]
  /\ {"no-link", "bidirectional-interop"} \subseteq Cases["clean-room"]
  /\ {"bytes", "hint-flood"} \subseteq Cases["measurement"]
  /\ {"boundaries", "no-leaks", "core-size"} \subseteq Cases["isolation"]

-----------------------------------------------------------------------------
(* Case and MatrixReport *)

(* check(), unsupported(), hold(), and run_cases() when the case raises.   *)
After(verdict, step) ==
  CASE step = "failed"      -> IF verdict = "PASS" THEN "FAIL" ELSE verdict
    [] step = "unsupported" -> "UNSUPPORTED"
    [] step = "hold"        -> "HOLD"
    [] step = "raised"      -> "FAIL"
    [] OTHER                -> verdict

(* Mutated form: what the case said so far is its verdict though it raised.*)
VerdictSoFar(script) ==
  FoldLeft(After, "PASS", SelectSeq(script, LAMBDA s : s # "raised"))

VerdictOf(script) == FoldLeft(After, "PASS", script)

(* A set of reports maps each matrix to its cases, and those to verdicts.  *)
Having(reports, matrix, verdict) ==
  {c \in DOMAIN reports[matrix] : reports[matrix][c] = verdict}

Clears(verdict) == verdict \in {"PASS", "UNSUPPORTED"}

ReportOk(report) == \A c \in DOMAIN report : Clears(report[c])

-----------------------------------------------------------------------------
(* Levels.  A predicate that cannot be evaluated, for want of a matrix, is *)
(* an unmet criterion.                                                     *)

(* Mutated form: only failures count, what was never settled does not. *)
NoneFailed(reports, verdict, matrices) ==
  matrices \subseteq DOMAIN reports
    /\ \A m \in matrices : Having(reports, m, "FAIL") = {}

None(reports, verdict, matrices) ==
  matrices \subseteq DOMAIN reports
    /\ \A m \in matrices : Having(reports, m, verdict) = {}

CasePassed(reports, matrix, c) ==
  /\ matrix \in DOMAIN reports
  /\ c \in DOMAIN reports[matrix]
  /\ reports[matrix][c] = "PASS"

AllMatrices == {"cross-era", "distributed-runtime", "identity-binding",
                "clean-room", "measurement", "isolation"}

Levels == {"ready_to_dogfood", "ready_for_external_review", "ready_to_publish"}

DogfoodMatrices == {"cross-era", "distributed-runtime", "identity-binding",
                    "isolation"}

(* The criteria a level names, those that are unmet: failures are named by *)
(* their matrix.                                                           *)
Unmet(level, r) ==
  CASE level = "ready_to_dogfood" ->
         {m \in DogfoodMatrices : ~None(r, "FAIL", {m})}
         \cup {c \in {"gates-convergence"} : ~CasePassed(r, "identity-binding", c)}
         \cup {c \in {"boundaries"} : ~CasePassed(r, "isolation", c)}
    [] level = "ready_for_external_review" ->
         {m \in AllMatrices : ~None(r, "FAIL", {m})}
         \cup {c \in {"no-link", "bidirectional-interop"} :
                 ~CasePassed(r, "clean-room", c)}
         \cup {c \in {"bytes", "hint-flood"} : ~CasePassed(r, "measurement", c)}
         \cup {c \in {"no-leaks"} : ~CasePassed(r, "isolation", c)}
    [] level = "ready_to_publish" ->
         {v \in Verdicts \ {"PASS"} : ~None(r, v, AllMatrices)}
         \cup {c \in {"current-current-sdk", "downgrade-confusion"} :
                 ~CasePassed(r, "cross-era", c)}
         \cup {c \in {"core-size"} : ~CasePassed(r, "isolation", c)}
         \cup {c \in {"policy-gap-divergence"} : ~CasePassed(r, "identity-binding", c)}

Ready(level, reports) == Unmet(level, reports) = {}

Severity == [FAIL |-> "blocking", HOLD |-> "decision-required",
             UNSUPPORTED |-> "unproven"]

(* The cases that did not pass, by matrix.                                 *)
Unpassed(reports) ==
  {x \in UNION {{m} \X DOMAIN reports[m] : m \in DOMAIN reports} :
     reports[x[1]][x[2]] # "PASS"}

(* collect_residual_risks() *)
ResidualRisks(reports) ==
  {<<x[1], x[2], Severity[reports[x[1]][x[2]]]>> : x \in Unpassed(reports)}

Adjudicate(reports) ==
  [ready |-> {l \in Levels : Ready(l, reports)},
   risks |-> ResidualRisks(reports)]

-----------------------------------------------------------------------------
(* The cases of the release gate's own matrix that depend on the day's     *)
(* verdicts: the levels can differ, and risks are derived.                 *)

Degraded(reports) ==
  [reports EXCEPT !["cross-era"]["current-current-sdk"] = "UNSUPPORTED"]

LevelsCanDiffer(reports) ==
  LET d == Degraded(reports) IN
  /\ Cardinality({Unmet(l, d) : l \in Levels}) > 1
  /\ ~Ready("ready_to_publish", d)
  /\ Ready("ready_to_dogfood", d)

RisksDerived(reports) ==
  {<<x[1], x[2]>> : x \in ResidualRisks(reports)} = Unpassed(reports)

(* The pack's overall verdict (tools/emit_hb05_evidence.py), where the     *)
(* gate's run of the matrices, which is one of its own, ends as the pack's.*)
PackOk(reports) ==
  /\ \A m \in DOMAIN reports : ReportOk(reports[m])
  /\ LevelsCanDiffer(reports)
  /\ RisksDerived(reports)

-----------------------------------------------------------------------------
(* Records.  An attestation is the digest of the tree it is about, and     *)
(* whether it names everything it must; a signoff is the size it accepts,  *)
(* and likewise.  Both lapse as soon as what they are about moves.         *)

(* Mutated form: any complete record of a run will do. *)
CoversAnyTree(record, digest) == record # NoRecord /\ record.complete

AttestationCovers(record, digest) ==
  record # NoRecord /\ record.complete /\ record.digest = digest

SignoffCovers(record, measured) ==
  record # NoRecord /\ record.complete /\ record.measured = measured

(* current_to_current_over_official_sdk: with the SDK at hand the contract *)
(* is derived from it anew, which raises where they differ; then the       *)
(* revision is looked for in a table that has it one level down.           *)
SdkLegScript(contractAgrees, record, digest) ==
  IF SdkInstalled
  THEN IF contractAgrees THEN <<"passed", "failed">> ELSE <<"raised">>
  ELSE IF AttestationCovers(record, digest) THEN <<"passed">>
       ELSE <<"unsupported">>

(* the_core_stays_within_its_budget; `documented` is docs/loc-budget.md    *)
(* naming the measurement.                                                 *)
CoreSizeScript(measured, documented, signoff) ==
  IF measured > Ceiling THEN <<"passed", "hold">>
  ELSE IF measured <= Budget THEN <<"passed", "passed">>
  ELSE IF ~documented THEN <<"passed", "failed">>
  ELSE IF ~SignoffCovers(signoff, measured) THEN <<"passed", "hold">>
  ELSE <<"passed", "passed">>

(* Every other case checks and may raise; those of the measurement matrix  *)
(* may be held for a threshold after their checks.                         *)
Checking == {<<"passed">>, <<"passed", "failed">>, <<"passed", "raised">>}
Measuring == Checking \cup {<<"passed", "hold">>, <<"failed", "hold">>}

OrdinaryScripts(matrix) == IF matrix = "measurement" THEN Measuring ELSE Checking
=============================================================================
