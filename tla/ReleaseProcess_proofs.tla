------------------------ MODULE ReleaseProcess_proofs ------------------------
(***************************************************************************)
(* What holds of the release decision for every tree, every set of cases   *)
(* and every history of edits, signoffs and interrupted tools.             *)
(*                                                                         *)
(* Argument.  A verdict is a fold over a script.  No script a case can     *)
(* have is longer than two steps, so the fold is unrolled for those        *)
(* (VerdictOfOne, VerdictOfTwo): a case passes if and only if each of its  *)
(* steps did.  The levels are then judged over verdicts alone              *)
(* (PublishIffPassed, NoRiskIffPassed).  The tools are three invariants:   *)
(* what the release files hold while they are rewritten (FilesInv), what   *)
(* the records on disk are evidence of (RecordsInv), and what the matrices *)
(* have said so far (EvidenceInv).                                         *)
(***************************************************************************)
EXTENDS ReleaseProcess, FiniteSetTheorems, TLAPS

-----------------------------------------------------------------------------
(* Verdicts of scripts *)

LEMMA MaxOf ==
  /\ Max({1}) = 1 /\ Max({2}) = 2 /\ Max({1, 2}) = 2
  /\ {1} \ {1} = {} /\ {2} \ {2} = {} /\ {1, 2} \ {2} = {1}
  BY DEF Max

(* FoldLeft chooses the function that folds over sets of positions; it is  *)
(* the one that can be written down.                                       *)
LEMMA VerdictOfOne ==
  ASSUME NEW a
  PROVE  VerdictOf(<<a>>) = After("PASS", a)
<1> DEFINE D == SUBSET {1}
           F(f) == [s \in D |-> IF s = {} THEN "PASS"
                                ELSE After(f[s \ {Max(s)}], <<a>>[Max(s)])]
           g == [s \in D |-> IF s = {} THEN "PASS" ELSE After("PASS", a)]
           it == CHOOSE f : f = F(f)
<1>1. {} \in D /\ {1} \in D /\ \A s \in D : s # {} => s = {1}
  OBVIOUS
<1>2. g = F(g)
  <2>1. ASSUME NEW s \in D, s # {}
        PROVE  g[s] = After(g[s \ {Max(s)}], <<a>>[Max(s)])
    <3>1. s = {1} /\ Max(s) = 1 /\ s \ {Max(s)} = {} /\ <<a>>[Max(s)] = a
      BY <1>1, <2>1, MaxOf
    <3>2. g[{}] = "PASS" /\ g[s] = After("PASS", a)
      BY <1>1, <2>1
    <3> QED BY <3>1, <3>2
  <2> QED BY <2>1
<1>3. it = F(it)
  BY <1>2
<1>4. VerdictOf(<<a>>) = it[{1}]
  <2>1. DOMAIN <<a>> = {1}
    OBVIOUS
  <2> QED BY <2>1 DEF VerdictOf, FoldLeft, MapThenFoldSet
<1> HIDE DEF it
<1>5. \A s \in D : it[s] = IF s = {} THEN "PASS"
                            ELSE After(it[s \ {Max(s)}], <<a>>[Max(s)])
  BY <1>3
<1>6. it[{}] = "PASS" /\ it[{1}] = After(it[{1} \ {Max({1})}], <<a>>[Max({1})])
  BY <1>1, <1>5
<1>7. <<a>>[1] = a 
  OBVIOUS
<1> QED BY <1>4, <1>5, <1>6, <1>7, MaxOf

LEMMA VerdictOfTwo ==
  ASSUME NEW a, NEW b
  PROVE  VerdictOf(<<a, b>>) = After(After("PASS", a), b)
<1> DEFINE D == SUBSET {1, 2}
           seq == <<a, b>>
           F(f) == [s \in D |-> IF s = {} THEN "PASS"
                                ELSE After(f[s \ {Max(s)}], seq[Max(s)])]
           one == After("PASS", a)
           g == [s \in D |-> IF s = {} THEN "PASS"
                             ELSE IF s = {1} THEN one
                             ELSE IF s = {2} THEN After("PASS", b)
                             ELSE After(one, b)]
           it == CHOOSE f : f = F(f)
<1>1. /\ {} \in D /\ {1} \in D /\ {2} \in D /\ {1, 2} \in D
      /\ \A s \in D : s \in {{}, {1}, {2}, {1, 2}}
      /\ {1} # {} /\ {2} # {} /\ {1, 2} # {} /\ {1} # {2} /\ {1, 2} # {1} /\ {1, 2} # {2}
  <2>1. \A s \in D : s \in {{}, {1}, {2}, {1, 2}}
    OBVIOUS
  <2>2. 1 \in {1, 2} /\ 2 \in {1, 2} /\ 1 # 2
    OBVIOUS
  <2> QED BY <2>1, <2>2
<1>2. seq[1] = a /\ seq[2] = b
  OBVIOUS
<1>3. g[{}] = "PASS" /\ g[{1}] = one /\ g[{2}] = After("PASS", b) /\ g[{1, 2}] = After(one, b)
  BY <1>1
<1>4. g = F(g)
  <2>1. ASSUME NEW s \in D, s # {}
        PROVE  g[s] = After(g[s \ {Max(s)}], seq[Max(s)])
    <3> HIDE DEF g, seq
    <3>1. CASE s = {1}
      BY <1>2, <1>3, <3>1, MaxOf
    <3>2. CASE s = {2}
      BY <1>2, <1>3, <3>2, MaxOf
    <3>3. CASE s = {1, 2}
      BY <1>2, <1>3, <3>3, MaxOf
    <3> QED BY <1>1, <2>1, <3>1, <3>2, <3>3
  <2>2. g = [s \in D |-> g[s]]
    OBVIOUS
  <2> HIDE DEF g, seq
  <2> QED BY <1>3, <2>1, <2>2
<1>5. it = F(it)
  BY <1>4
<1>6. VerdictOf(seq) = it[{1, 2}]
  <2>1. DOMAIN seq = {1, 2}
    OBVIOUS
  <2> QED BY <2>1 DEF VerdictOf, FoldLeft, MapThenFoldSet
<1> HIDE DEF it
<1>7. \A s \in D : it[s] = IF s = {} THEN "PASS"
                            ELSE After(it[s \ {Max(s)}], seq[Max(s)])
  BY <1>5
<1>8. it[{}] = "PASS" /\ it[{1}] = After(it[{1} \ {Max({1})}], seq[Max({1})])
  BY <1>1, <1>7
<1>9. it[{1, 2}] = After(it[{1, 2} \ {Max({1, 2})}], seq[Max({1, 2})])
  BY <1>1, <1>7
<1> HIDE DEF seq
<1>10. it[{1, 2}] = After(After("PASS", a), b)
  BY <1>2, <1>7, <1>8, <1>9, MaxOf
<1> QED BY <1>6, <1>10 DEF seq

(* Every script a case of any matrix can have. *)
AllScripts ==
  Measuring \cup {<<"unsupported">>, <<"raised">>, <<"passed", "hold">>,
                 <<"passed", "passed">>}

Passed(script) == Range(script) = {"passed"}

(* A case passes if and only if each of its steps did.                     *)
LEMMA VerdictOfScript ==
  ASSUME NEW s \in AllScripts
  PROVE  /\ VerdictOf(s) \in Verdicts
         /\ VerdictOf(s) = "PASS" <=> Passed(s)
<1>1. ASSUME NEW x, NEW y
      PROVE  /\ Range(<<x>>) = {x}
             /\ Range(<<x, y>>) = {x, y}
  <2>1. DOMAIN <<x>> = {1} /\ DOMAIN <<x, y>> = {1, 2}
    OBVIOUS
  <2>2. <<x>>[1] = x /\ <<x, y>>[1] = x /\ <<x, y>>[2] = y
    OBVIOUS
  <2>3. Range(<<x>>) = {x}
    BY <2>1, <2>2 DEF Range
  <2>4. Range(<<x, y>>) = {x, y}
    BY <2>1, <2>2 DEF Range
  <2> QED BY <2>3, <2>4
<1>2. \A x \in {"unsupported", "raised"} :
        After("PASS", x) \in Verdicts \ {"PASS"} /\ ~Passed(<<x>>)
  BY <1>1 DEF After, Verdicts, Passed
<1>3. \A x \in {"failed", "raised", "hold"} :
        /\ After(After("PASS", "passed"), x) \in Verdicts \ {"PASS"}
        /\ ~Passed(<<"passed", x>>)
  <2>1. \A x \in {"failed", "raised", "hold"} :
          After(After("PASS", "passed"), x) \in Verdicts \ {"PASS"}
    BY DEF After, Verdicts
  <2>2. \A x : {"passed", x} = {"passed"} => x = "passed"
    OBVIOUS
  <2> QED BY <1>1, <2>1, <2>2 DEF Passed
<1>4. /\ After(After("PASS", "failed"), "hold") \in Verdicts \ {"PASS"}
      /\ ~Passed(<<"failed", "hold">>)
  <2>1. After(After("PASS", "failed"), "hold") \in Verdicts \ {"PASS"}
    BY DEF After, Verdicts
  <2>2. {"failed", "hold"} # {"passed"}
    <3>1. "failed" \in {"failed", "hold"} /\ "failed" \notin {"passed"}
      OBVIOUS
    <3> QED BY <3>1
  <2> QED BY <1>1, <2>1, <2>2 DEF Passed
<1>5. /\ After("PASS", "passed") = "PASS" /\ Passed(<<"passed">>)
      /\ After(After("PASS", "passed"), "passed") = "PASS"
      /\ Passed(<<"passed", "passed">>)
  BY <1>1 DEF After, Passed
<1>6. "PASS" \in Verdicts
  BY DEF Verdicts
<1>7. \/ \E x \in {"unsupported", "raised"} : s = <<x>>
      \/ \E x \in {"failed", "raised", "hold"} : s = <<"passed", x>>
      \/ s = <<"failed", "hold">>
      \/ s = <<"passed">>
      \/ s = <<"passed", "passed">>
  BY DEF AllScripts, Measuring, Checking
<1>8. ASSUME NEW x \in {"unsupported", "raised"}, s = <<x>>
      PROVE  VerdictOf(s) \in Verdicts \ {"PASS"} /\ ~Passed(s)
  BY <1>2, <1>8, VerdictOfOne
<1>9. ASSUME NEW x \in {"failed", "raised", "hold"}, s = <<"passed", x>>
      PROVE  VerdictOf(s) \in Verdicts \ {"PASS"} /\ ~Passed(s)
  BY <1>3, <1>9, VerdictOfTwo
<1>10. ASSUME s = <<"failed", "hold">>
       PROVE  VerdictOf(s) \in Verdicts \ {"PASS"} /\ ~Passed(s)
  BY <1>4, <1>10, VerdictOfTwo
<1>11. ASSUME s = <<"passed">>
       PROVE  VerdictOf(s) = "PASS" /\ Passed(s)
  BY <1>5, <1>11, VerdictOfOne
<1>12. ASSUME s = <<"passed", "passed">>
       PROVE  VerdictOf(s) = "PASS" /\ Passed(s)
  BY <1>5, <1>12, VerdictOfTwo
<1> QED BY <1>6, <1>7, <1>8, <1>9, <1>10, <1>11, <1>12

-----------------------------------------------------------------------------
(* The levels, over verdicts *)

(* A report of every case of every matrix. *)
Complete(r) ==
  /\ DOMAIN r = AllMatrices
  /\ \A m \in AllMatrices : DOMAIN r[m] = Cases[m]
  /\ \A m \in AllMatrices : \A c \in Cases[m] : r[m][c] \in Verdicts

AllPass(r) == \A m \in AllMatrices : \A c \in Cases[m] : r[m][c] = "PASS"

LEMMA MatricesNamed == Matrices = AllMatrices /\ Range(MatrixOrder) = AllMatrices
<1>1. DOMAIN MatrixOrder = 1..6
  BY DEF MatrixOrder
<1>2. Range(MatrixOrder) = {MatrixOrder[i] : i \in 1..6}
  BY <1>1 DEF Range
<1>3. \A x : x \in 1..6 <=> x \in {1, 2, 3, 4, 5, 6}
  OBVIOUS
<1>4. Range(MatrixOrder) = AllMatrices
  BY <1>2, <1>3 DEF MatrixOrder, AllMatrices
<1> QED BY <1>4, ProcessAssumption

(* Ready to publish: every case passed, and every case that passes counts. *)
LEMMA PublishIffPassed ==
  ASSUME NEW r, Complete(r)
  PROVE  Ready("ready_to_publish", r) <=> AllPass(r)
<1> DEFINE named ==
             /\ \A c \in {"current-current-sdk", "downgrade-confusion"} :
                  CasePassed(r, "cross-era", c)
             /\ CasePassed(r, "isolation", "core-size")
             /\ CasePassed(r, "identity-binding", "policy-gap-divergence")
<1>1. Ready("ready_to_publish", r) <=>
        (\A v \in Verdicts \ {"PASS"} : None(r, v, AllMatrices)) /\ named
  BY DEF Ready, Unmet
<1>2. (\A v \in Verdicts \ {"PASS"} : None(r, v, AllMatrices)) <=> AllPass(r)
  <2>1. \A v : None(r, v, AllMatrices) <=>
          \A m \in AllMatrices : \A c \in Cases[m] : r[m][c] # v
    BY DEF None, Having, Complete
  <2> QED BY <2>1 DEF AllPass, Complete
<1>3. AllPass(r) => named
  BY CasesAssumption DEF CasePassed, Complete, AllPass, AllMatrices
<1> QED BY <1>1, <1>2, <1>3

(* No residual risk: likewise. *)
LEMMA NoRiskIffPassed ==
  ASSUME NEW r, Complete(r)
  PROVE  /\ ResidualRisks(r) = {} <=> AllPass(r)
         /\ Unpassed(r) = {} <=> AllPass(r)
<1>1. \A x : x \in Unpassed(r) <=>
        \E m \in AllMatrices : \E c \in Cases[m] : x = <<m, c>> /\ r[m][c] # "PASS"
  <2>1. \A x : x \in UNION {{m} \X DOMAIN r[m] : m \in DOMAIN r} <=>
          \E m \in AllMatrices : \E c \in Cases[m] : x = <<m, c>>
    BY DEF Complete
  <2> QED BY <2>1 DEF Unpassed
<1>2. Unpassed(r) = {} <=> AllPass(r)
  BY <1>1 DEF AllPass
<1>3. ResidualRisks(r) = {} <=> Unpassed(r) = {}
  BY DEF ResidualRisks
<1> QED BY <1>2, <1>3

(* What may be published may be used and reviewed.                         *)
LEMMA PassedIsReady ==
  ASSUME NEW r, Complete(r), AllPass(r), NEW level \in Levels
  PROVE  Ready(level, r)
<1>1. \A v, m : v # "PASS" /\ m \in AllMatrices => None(r, v, {m})
  BY DEF None, Having, Complete, AllPass
<1>2. \A m \in AllMatrices : \A c \in Cases[m] : CasePassed(r, m, c)
  BY DEF CasePassed, Complete, AllPass
<1>3. CASE level = "ready_to_dogfood"
  <2>1. {m \in DogfoodMatrices : ~None(r, "FAIL", {m})} = {}
    BY <1>1 DEF DogfoodMatrices, AllMatrices
  <2>2. /\ CasePassed(r, "identity-binding", "gates-convergence")
        /\ CasePassed(r, "isolation", "boundaries")
    BY <1>2, CasesAssumption DEF AllMatrices
  <2> QED BY <1>3, <2>1, <2>2 DEF Ready, Unmet
<1>4. CASE level = "ready_for_external_review"
  <2>1. {m \in AllMatrices : ~None(r, "FAIL", {m})} = {}
    BY <1>1
  <2>2. /\ CasePassed(r, "clean-room", "no-link")
        /\ CasePassed(r, "clean-room", "bidirectional-interop")
        /\ CasePassed(r, "measurement", "bytes")
        /\ CasePassed(r, "measurement", "hint-flood")
        /\ CasePassed(r, "isolation", "no-leaks")
    BY <1>2, CasesAssumption DEF AllMatrices
  <2> QED BY <1>4, <2>1, <2>2 DEF Ready, Unmet
<1>5. CASE level = "ready_to_publish"
  BY <1>5, PublishIffPassed
<1> QED BY <1>3, <1>4, <1>5 DEF Levels

(* Where everything passed, the pack's own verdict is a pass: taking the   *)
(* SDK leg's proof away separates the levels, and no risk is made up.      *)
LEMMA PassedPackOk ==
  ASSUME NEW r, Complete(r), AllPass(r)
  PROVE  PackOk(r)
<1> DEFINE d == Degraded(r)
           leg == "current-current-sdk"
<1>1. /\ DOMAIN d = AllMatrices
      /\ \A m \in AllMatrices \ {"cross-era"} : d[m] = r[m]
      /\ d["cross-era"] = [r["cross-era"] EXCEPT ![leg] = "UNSUPPORTED"]
  BY DEF Degraded, Complete, AllMatrices
<1>2. /\ DOMAIN d["cross-era"] = Cases["cross-era"] /\ leg \in Cases["cross-era"]
      /\ d["cross-era"][leg] = "UNSUPPORTED"
      /\ \A c \in Cases["cross-era"] : d["cross-era"][c] \in {"PASS", "UNSUPPORTED"}
  <2>1. leg \in Cases["cross-era"] /\ "cross-era" \in AllMatrices
    BY CasesAssumption DEF AllMatrices
  <2>2. DOMAIN r["cross-era"] = Cases["cross-era"]
    BY <2>1 DEF Complete
  <2> QED BY <1>1, <2>1, <2>2 DEF AllPass
<1> HIDE DEF d
<1>3. ~Ready("ready_to_publish", d)
  <2>1. ~CasePassed(d, "cross-era", leg)
    BY <1>2 DEF CasePassed
  <2> QED BY <2>1 DEF Ready, Unmet
<1>4. Ready("ready_to_dogfood", d)
  <2>1. \A m \in AllMatrices : None(d, "FAIL", {m})
    BY <1>1, <1>2 DEF None, Having, Complete, AllPass
  <2>2. {m \in DogfoodMatrices : ~None(d, "FAIL", {m})} = {}
    BY <2>1 DEF DogfoodMatrices, AllMatrices
  <2>3. /\ CasePassed(d, "identity-binding", "gates-convergence")
        /\ CasePassed(d, "isolation", "boundaries")
    BY <1>1, CasesAssumption DEF CasePassed, Complete, AllPass, AllMatrices
  <2> QED BY <2>2, <2>3 DEF Ready, Unmet
<1>5. Cardinality({Unmet(l, d) : l \in Levels}) > 1
  <2> DEFINE U == {Unmet(l, d) : l \in Levels}
             a == Unmet("ready_to_publish", d)
             b == Unmet("ready_to_dogfood", d)
             e == Unmet("ready_for_external_review", d)
  <2>1. a # b
    BY <1>3, <1>4 DEF Ready
  <2>2. U = ({a} \cup {b}) \cup {e}
    BY DEF Levels
  <2> HIDE DEF a, b, e
  <2>3. IsFiniteSet({a} \cup {b})
    BY FS_Singleton, FS_AddElement
  <2> HIDE DEF U
  <2>4. IsFiniteSet(U) /\ a \in U /\ b \in U
    <3>1. IsFiniteSet(({a} \cup {b}) \cup {e})
      BY <2>3, FS_AddElement
    <3> QED BY <2>2, <3>1
  <2>5. Cardinality(U) # 0 /\ Cardinality(U) # 1
    BY <2>1, <2>4, FS_EmptySet, FS_Singleton
  <2>6. Cardinality(U) \in Nat
    BY <2>4, FS_CardinalityType
  <2>7. Cardinality(U) > 1
    BY <2>5, <2>6
  <2> QED BY <2>7 DEF U
<1>6. LevelsCanDiffer(r)
  BY <1>3, <1>4, <1>5 DEF LevelsCanDiffer, d
<1>7. RisksDerived(r)
  <2>1. ResidualRisks(r) = {} /\ Unpassed(r) = {}
    BY NoRiskIffPassed
  <2> QED BY <2>1 DEF RisksDerived
<1>8. \A m \in DOMAIN r : ReportOk(r[m])
  BY DEF ReportOk, Clears, Complete, AllPass
<1> QED BY <1>6, <1>7, <1>8 DEF PackOk

-----------------------------------------------------------------------------
(* The invariants of the tools *)

(* The release files, and where a rewrite of them stands: what it has      *)
(* written is from its first build, and before it has written anything     *)
(* they agree unless an earlier one was cut short.                         *)
FilesInv ==
  /\ tree \in Versions
  /\ files \in [Range(ReleaseFiles) -> Versions \cup {NoVersion}]
  /\ tool.name = "build" =>
       /\ tool \in [name : {"build"}, check : BOOLEAN, builds : Seq(Versions),
                    written : 0..Len(ReleaseFiles)]
       /\ tool.written > 0 =>
            /\ ~tool.check
            /\ Len(tool.builds) = 2
            /\ \A i \in 1..tool.written : files[ReleaseFiles[i]] = tool.builds[1]
  /\ ~cut /\ (tool.name = "build" => tool.written = 0) =>
       \A f, g \in Range(ReleaseFiles) : files[f] = files[g]

(* What a check has built it has built since it began, and what it vouched *)
(* for is on disk as long as nothing is rewritten.                         *)
CheckInv ==
  /\ (tool.name = "build" /\ tool.check) =>
       tree \in seen /\ \A i \in 1..Len(tool.builds) : tool.builds[i] \in seen
  /\ (tool.name = "build" /\ tool.written > 0) => ~vouched
  /\ vouched => files["SHA256SUMS"] \in seen \cup {NoVersion}

(* A record on disk that is complete is evidence of what has happened, and *)
(* the tree stands still while the suite runs.                             *)
RecordsInv ==
  /\ (attested # NoRecord /\ attested.complete) => attested.digest \in ran
  /\ (signoff # NoRecord /\ signoff.complete) => signoff.measured \in signed
  /\ tool.name = "verify" => tool.under = tree

(* The matrices, in their order, that have run.                            *)
Prefix(k) == {MatrixOrder[i] : i \in 1..k}

(* What they have said: one script of every case. *)
Scripted(scripts) ==
  \A m \in DOMAIN scripts :
    /\ DOMAIN scripts[m] = Cases[m]
    /\ \A c \in Cases[m] : scripts[m][c] \in AllScripts

EvidenceInv ==
  /\ tool.name = "evidence" =>
       /\ DOMAIN tool = {"name", "scripts", "sdk", "size"}
       /\ \E k \in 0..6 : DOMAIN tool.scripts = Prefix(k)
       /\ Scripted(tool.scripts)
  /\ Judged => DOMAIN pack.scripts = AllMatrices /\ Scripted(pack.scripts)

(* What passed for want of nothing but a record had one.                   *)
Approved(scripts, sdk, size) ==
  /\ ("cross-era" \in DOMAIN scripts
        /\ Passed(scripts["cross-era"]["current-current-sdk"]))
       => DigestOf[sdk] \in ran
  /\ ("isolation" \in DOMAIN scripts
        /\ Passed(scripts["isolation"]["core-size"]) /\ LocOf[size] > Budget)
       => LocOf[size] \in signed

ApprovalInv ==
  /\ tool.name = "evidence" => Approved(tool.scripts, tool.sdk, tool.size)
  /\ Judged => Approved(pack.scripts, pack.sdk, pack.size)

-----------------------------------------------------------------------------
(* The release files *)

LEMMA FourFiles ==
  /\ Len(ReleaseFiles) = 4
  /\ Range(ReleaseFiles) = {ReleaseFiles[i] : i \in 1..4}
  /\ \A i, j \in 1..4 : ReleaseFiles[i] = ReleaseFiles[j] => i = j
  /\ "SHA256SUMS" \in Range(ReleaseFiles)
<1>1. Len(ReleaseFiles) = 4 /\ DOMAIN ReleaseFiles = 1..4
  BY DEF ReleaseFiles
<1>2. Range(ReleaseFiles) = {ReleaseFiles[i] : i \in 1..4}
  BY <1>1 DEF Range
<1>3. \A i \in 1..4 : i \in {1, 2, 3, 4}
  OBVIOUS
<1>4. \A i, j \in 1..4 : ReleaseFiles[i] = ReleaseFiles[j] => i = j
  BY <1>3 DEF ReleaseFiles
<1>5. ReleaseFiles[1] = "SHA256SUMS" /\ 1 \in 1..4
  BY DEF ReleaseFiles
<1> QED BY <1>1, <1>2, <1>4, <1>5

LEMMA FilesInit == Init => FilesInv
  BY FourFiles, ProcessAssumption DEF Init, FilesInv, Idle

(* One file more is rewritten. *)
LEMMA WriteKeepsFiles ==
  ASSUME FilesInv, WriteNext
  PROVE  FilesInv'
<1> DEFINE f == ReleaseFiles[tool.written + 1]
           b == tool.builds[1]
<1>1. /\ tool \in [name : {"build"}, check : BOOLEAN, builds : Seq(Versions),
                   written : 0..4]
      /\ tool.name = "build" /\ Len(tool.builds) = 2 /\ ~tool.check
      /\ tool.written < 4
      /\ UNCHANGED <<tree, cut>>
  BY FourFiles DEF FilesInv, WriteNext, Built
<1>2. f \in Range(ReleaseFiles) /\ b \in Versions
  <2>1. tool.written + 1 \in 1..4
    BY <1>1
  <2>2. 1 \in 1..Len(tool.builds) /\ tool.builds \in Seq(Versions)
    BY <1>1
  <2> QED BY <2>1, <2>2, FourFiles
<1>3. files' = [files EXCEPT ![f] = b] /\ tool' = [tool EXCEPT !.written = @ + 1]
  BY DEF WriteNext
<1>4. files' \in [Range(ReleaseFiles) -> Versions \cup {NoVersion}]
  BY <1>2, <1>3 DEF FilesInv
<1>5. /\ tool' \in [name : {"build"}, check : BOOLEAN, builds : Seq(Versions),
                    written : 0..4]
      /\ tool'.name = "build" /\ tool'.builds = tool.builds
      /\ tool'.check = tool.check /\ tool'.written = tool.written + 1
  BY <1>1, <1>3
<1>6. \A i \in 1..tool'.written : files'[ReleaseFiles[i]] = tool'.builds[1]
  <2> SUFFICES ASSUME NEW i \in 1..(tool.written + 1)
               PROVE  files'[ReleaseFiles[i]] = b
    BY <1>5
  <2>1. i \in 1..4 /\ tool.written + 1 \in 1..4
    BY <1>1
  <2>2. ReleaseFiles[i] \in Range(ReleaseFiles)
    BY <2>1, FourFiles
  <2>3. CASE i = tool.written + 1
    BY <1>2, <1>3, <2>3 DEF FilesInv
  <2>4. CASE i # tool.written + 1
    <3>1. i \in 1..tool.written /\ tool.written > 0
      BY <1>1, <2>4
    <3>2. files[ReleaseFiles[i]] = b
      BY <1>1, <3>1 DEF FilesInv
    <3>3. ReleaseFiles[i] # f
      BY <2>1, <2>4, FourFiles
    <3> QED BY <1>3, <2>2, <3>2, <3>3 DEF FilesInv
  <2> QED BY <2>3, <2>4
<1>7. tool'.written # 0
  BY <1>1, <1>5
<1> QED
  BY <1>1, <1>4, <1>5, <1>6, <1>7, FourFiles DEF FilesInv

(* A rewrite that comes to its end has written them all. *)
LEMMA FinishKeepsFiles ==
  ASSUME FilesInv, FinishWrite
  PROVE  FilesInv'
<1>1. \A i \in 1..4 : files[ReleaseFiles[i]] = tool.builds[1]
  BY FourFiles DEF FilesInv, FinishWrite, Built
<1>2. \A f, g \in Range(ReleaseFiles) : files[f] = files[g]
  BY <1>1, FourFiles
<1> QED BY <1>2 DEF FilesInv, FinishWrite, Idle

LEMMA FilesKept == FilesInv /\ [Next]_vars => FilesInv'
<1> SUFFICES ASSUME FilesInv, [Next]_vars PROVE FilesInv'
  OBVIOUS
<1>1. ASSUME NEW v \in Versions, Edit(v) PROVE FilesInv'
  BY <1>1 DEF FilesInv, Edit
<1>2. ASSUME NEW c \in BOOLEAN, Sign(c) PROVE FilesInv'
  BY <1>2 DEF FilesInv, Sign
<1>3. ASSUME NEW t, Start(t), t.name # "build" PROVE FilesInv'
  BY <1>3 DEF FilesInv, Start, Idle
<1>4. ASSUME NEW w \in BOOLEAN, Record(w) PROVE FilesInv'
  BY <1>4 DEF FilesInv, Record, Idle
<1>5. CASE RunMatrix
  <2>1. tool.name = "evidence" /\ tool'.name = tool.name
    BY <1>5 DEF RunMatrix
  <2> QED BY <1>5, <2>1 DEF FilesInv, RunMatrix, Idle
<1>6. CASE EmitPack
  BY <1>6 DEF FilesInv, EmitPack, Idle
<1>7. ASSUME NEW check \in BOOLEAN, StartBuild(check) PROVE FilesInv'
  <2>1. /\ tool' \in [name : {"build"}, check : BOOLEAN, builds : Seq(Versions),
                      written : 0..Len(ReleaseFiles)]
        /\ tool'.name = "build" /\ tool'.written = 0
    BY <1>7, FourFiles DEF StartBuild, Start
  <2> QED BY <1>7, <2>1 DEF FilesInv, StartBuild, Start, Idle
<1>8. CASE Build
  <2>0. /\ tool \in [name : {"build"}, check : BOOLEAN, builds : Seq(Versions),
                     written : 0..4]
        /\ tool.name = "build" /\ ~(tool.written > 0) /\ tree \in Versions
        /\ tool' = [tool EXCEPT !.builds = Append(@, tree)]
    BY <1>8, FourFiles DEF FilesInv, Build
  <2>1. /\ tool' \in [name : {"build"}, check : BOOLEAN, builds : Seq(Versions),
                      written : 0..Len(ReleaseFiles)]
        /\ tool'.written = tool.written /\ tool.written = 0
        /\ tool.name = "build"
    <3>1. Append(tool.builds, tree) \in Seq(Versions)
      BY <2>0
    <3>2. tool.written = 0 /\ Len(ReleaseFiles) = 4
      BY <2>0, FourFiles
    <3>3. tool'.written = tool.written
      BY <2>0
    <3>4. tool' \in [name : {"build"}, check : BOOLEAN, builds : Seq(Versions),
                     written : 0..4]
      BY <2>0, <3>1
    <3> QED BY <2>0, <3>2, <3>3, <3>4
  <2> QED BY <1>8, <2>1 DEF FilesInv, Build, Idle
<1>9. CASE FinishCheck
  <2>1. tool.written = 0
    BY <1>9, FourFiles DEF FilesInv, FinishCheck, Built
  <2> QED BY <1>9, <2>1 DEF FilesInv, FinishCheck, Built, Idle
<1>10. CASE WriteNext
  BY <1>10, WriteKeepsFiles
<1>11. CASE FinishWrite
  BY <1>11, FinishKeepsFiles
<1>12. CASE Interrupt
  <2>1. tool.name = "build" => tool.written \in Nat
    BY FourFiles DEF FilesInv
  <2>2. ~cut' => ~cut /\ (tool.name = "build" => tool.written = 0)
    <3>1. ~cut' => ~cut /\ ~(tool.name = "build" /\ tool.written > 0)
      BY <1>12, Zenon DEF Interrupt
    <3>2. tool.written \in Nat /\ ~(tool.written > 0) => tool.written = 0
      OBVIOUS
    <3> QED BY <2>1, <3>1, <3>2
  <2>3. tool' = Idle /\ tool'.name # "build"
    BY <1>12 DEF Interrupt, Idle
  <2> QED BY <1>12, <2>2, <2>3 DEF FilesInv, Interrupt
<1>13. CASE UNCHANGED vars
  BY <1>13 DEF FilesInv, vars
<1> QED
  BY <1>1, <1>2, <1>3, <1>4, <1>5, <1>6, <1>7, <1>8, <1>9, <1>10, <1>11,
     <1>12, <1>13
     DEF Next, StartVerify, StartEvidence

(* The release files are about one build, unless a rewrite of them was cut *)
(* short (build_release.py, the writes at the end of run).                 *)
THEOREM FilesAlwaysAgree == Spec => []FilesAgree
<1>1. FilesInv => FilesAgree
  BY DEF FilesInv, FilesAgree, Idle
<1> QED BY <1>1, FilesInit, FilesKept, PTL DEF Spec

LEMMA CheckKept == FilesInv /\ CheckInv /\ [Next]_vars => CheckInv'
<1> SUFFICES ASSUME FilesInv, CheckInv, [Next]_vars PROVE CheckInv'
  OBVIOUS
<1>1. ASSUME NEW v \in Versions, Edit(v) PROVE CheckInv'
  BY <1>1 DEF CheckInv, Edit
<1>2. ASSUME NEW c \in BOOLEAN, Sign(c) PROVE CheckInv'
  BY <1>2 DEF CheckInv, Sign, checked
<1>3. CASE StartVerify \/ StartEvidence
  <2>1. tool'.name # "build" /\ UNCHANGED <<files, vouched, seen>>
    BY <1>3 DEF StartVerify, StartEvidence, Start, checked
  <2> QED BY <2>1 DEF CheckInv
<1>4. ASSUME NEW check \in BOOLEAN, StartBuild(check) PROVE CheckInv'
  <2>1. /\ tool'.name = "build" /\ tool'.check = check
        /\ tool'.builds = << >> /\ tool'.written = 0
        /\ UNCHANGED <<tree, files>>
    BY <1>4 DEF StartBuild, Start
  <2>2. CASE check
    <3>1. ~vouched' /\ tree' \in seen'
      BY <1>4, <2>1, <2>2 DEF StartBuild
    <3>2. \A i \in 1..Len(tool'.builds) : tool'.builds[i] \in seen'
      BY <2>1
    <3> QED BY <2>1, <3>1, <3>2 DEF CheckInv
  <2>3. CASE ~check
    <3>1. UNCHANGED <<vouched, seen>>
      BY <1>4, <2>3 DEF StartBuild, checked
    <3> QED BY <2>1, <2>3, <3>1 DEF CheckInv
  <2> QED BY <2>2, <2>3
<1>5. CASE RunMatrix
  <2>1. tool'.name = "evidence" /\ UNCHANGED <<files, vouched, seen>>
    BY <1>5 DEF RunMatrix, checked
  <2> QED BY <2>1 DEF CheckInv
<1>6. CASE \/ EmitPack \/ FinishWrite \/ Interrupt
           \/ \E w \in BOOLEAN : Record(w)
  <2>1. tool'.name # "build" /\ UNCHANGED <<files, vouched, seen>>
    BY <1>6 DEF EmitPack, FinishWrite, Interrupt, Record, Idle, checked
  <2> QED BY <2>1 DEF CheckInv
<1>7. CASE Build
  <2>1. /\ tool.name = "build" /\ tool.builds \in Seq(Versions)
        /\ tool' = [tool EXCEPT !.builds = Append(@, tree)]
        /\ tool \in [name : {"build"}, check : BOOLEAN, builds : Seq(Versions),
                     written : 0..Len(ReleaseFiles)]
        /\ UNCHANGED <<tree, files, vouched, seen>>
    BY <1>7 DEF FilesInv, Build, checked
  <2>2. /\ tool'.name = "build" /\ tool'.check = tool.check
        /\ tool'.written = tool.written
        /\ Len(tool'.builds) = Len(tool.builds) + 1 /\ Len(tool.builds) \in Nat
        /\ tool'.builds[Len(tool.builds) + 1] = tree
        /\ \A i \in 1..Len(tool.builds) : tool'.builds[i] = tool.builds[i]
    BY <2>1 DEF FilesInv
  <2>3. tool.check => \A i \in 1..Len(tool'.builds) : tool'.builds[i] \in seen
    <3> SUFFICES ASSUME tool.check, NEW i \in 1..(Len(tool.builds) + 1)
                 PROVE  tool'.builds[i] \in seen
      BY <2>2
    <3>1. CASE i = Len(tool.builds) + 1
      BY <2>1, <2>2, <3>1 DEF CheckInv
    <3>2. CASE i # Len(tool.builds) + 1
      <4>1. i \in 1..Len(tool.builds)
        BY <2>2, <3>2
      <4> QED BY <2>1, <2>2, <4>1 DEF CheckInv
    <3> QED BY <3>1, <3>2
  <2> QED BY <2>1, <2>2, <2>3 DEF CheckInv
<1>8. CASE FinishCheck
  <2>1. /\ tool.name = "build" /\ tool.check /\ Len(tool.builds) = 2
        /\ tool'.name # "build"
        /\ vouched' = Passes(tool.builds, files["SHA256SUMS"])
        /\ UNCHANGED <<files, seen>>
    BY <1>8 DEF FinishCheck, Built, Idle
  <2>2. tool.builds[1] \in seen
    <3>1. 1 \in 1..Len(tool.builds)
      BY <2>1
    <3> QED BY <2>1, <3>1 DEF CheckInv
  <2> QED BY <2>1, <2>2 DEF CheckInv, Passes
<1>9. CASE WriteNext
  <2>1. ~vouched' /\ tool.name = "build" /\ ~tool.check
        /\ tool' = [tool EXCEPT !.written = @ + 1]
    BY <1>9 DEF WriteNext, Built
  <2>2. tool'.check = tool.check
    BY <2>1 DEF FilesInv
  <2> QED BY <2>1, <2>2 DEF CheckInv
<1>10. CASE UNCHANGED vars
  BY <1>10 DEF CheckInv, vars, checked
<1> QED
  BY <1>1, <1>2, <1>3, <1>4, <1>5, <1>6, <1>7, <1>8, <1>9, <1>10 DEF Next

(* A check that passed vouches for the committed checksums until a rewrite,*)
(* and for the files beside them unless an earlier rewrite was cut short,  *)
(* however the tree is edited during the check and after it.               *)
THEOREM CheckVouchesForTree == Spec => []CheckMeansCommitted
<1>1. Init => FilesInv /\ CheckInv
  BY FilesInit DEF Init, CheckInv, Idle
<1>2. FilesInv /\ CheckInv /\ [Next]_vars => (FilesInv /\ CheckInv)'
  BY FilesKept, CheckKept
<1>3. FilesInv /\ CheckInv => CheckMeansCommitted
  <2> SUFFICES ASSUME FilesInv, CheckInv, vouched
               PROVE  /\ files["SHA256SUMS"] \in seen \cup {NoVersion}
                      /\ ~cut => \A f \in Range(ReleaseFiles) :
                                   files[f] \in seen \cup {NoVersion}
    BY DEF CheckMeansCommitted
  <2>1. files["SHA256SUMS"] \in seen \cup {NoVersion}
    BY DEF CheckInv
  <2>2. tool.name = "build" => tool.written = 0
    <3>1. tool.name = "build" => tool.written \in Nat /\ ~(tool.written > 0)
      BY FourFiles DEF FilesInv, CheckInv
    <3>2. tool.written \in Nat /\ ~(tool.written > 0) => tool.written = 0
      OBVIOUS
    <3> QED BY <3>1, <3>2
  <2>3. ASSUME ~cut, NEW f \in Range(ReleaseFiles)
        PROVE  files[f] \in seen \cup {NoVersion}
    <3>1. files[f] = files["SHA256SUMS"]
      BY <2>2, <2>3, FourFiles DEF FilesInv
    <3> QED BY <2>1, <3>1
  <2> QED BY <2>1, <2>3
<1> QED BY <1>1, <1>2, <1>3, PTL DEF Spec

-----------------------------------------------------------------------------
(* The matrices *)

LEMMA NextPrefix ==
  ASSUME NEW k \in 0..5
  PROVE  /\ Prefix(k + 1) = Prefix(k) \cup {MatrixOrder[k + 1]}
         /\ MatrixOrder[k + 1] \notin Prefix(k)
<1>1. \A i, j \in 1..6 : MatrixOrder[i] = MatrixOrder[j] => i = j
  <2>1. \A i \in 1..6 : i \in {1, 2, 3, 4, 5, 6}
    OBVIOUS
  <2> QED BY <2>1 DEF MatrixOrder
<1>2. /\ k + 1 \in 1..6
      /\ \A i \in 1..k : i \in 1..6 /\ i # k + 1
      /\ \A i : i \in 1..(k + 1) <=> i \in 1..k \/ i = k + 1
  OBVIOUS
<1>3. Prefix(k + 1) = Prefix(k) \cup {MatrixOrder[k + 1]}
  BY <1>2 DEF Prefix
<1>4. MatrixOrder[k + 1] \notin Prefix(k)
  BY <1>1, <1>2 DEF Prefix
<1> QED BY <1>3, <1>4

LEMMA PrefixSize ==
  /\ \A k \in 0..6 : Cardinality(Prefix(k)) = k
  /\ Prefix(0) = {} /\ Prefix(6) = AllMatrices
  /\ Len(MatrixOrder) = 6
<1>1. Prefix(0) = {}
  BY DEF Prefix
<1>2. IsFiniteSet(Prefix(0)) /\ Cardinality(Prefix(0)) = 0
  BY <1>1, FS_EmptySet
<1>3. ASSUME NEW k \in 0..5, IsFiniteSet(Prefix(k)), Cardinality(Prefix(k)) = k
      PROVE  IsFiniteSet(Prefix(k + 1)) /\ Cardinality(Prefix(k + 1)) = k + 1
  <2>1. /\ Prefix(k + 1) = Prefix(k) \cup {MatrixOrder[k + 1]}
        /\ MatrixOrder[k + 1] \notin Prefix(k)
    BY NextPrefix
  <2> HIDE DEF Prefix
  <2>2. /\ IsFiniteSet(Prefix(k) \cup {MatrixOrder[k + 1]})
        /\ Cardinality(Prefix(k) \cup {MatrixOrder[k + 1]}) = k + 1
    BY <1>3, <2>1, FS_AddElement
  <2> QED BY <2>1, <2>2
<1> DEFINE P(k) == IsFiniteSet(Prefix(k)) /\ Cardinality(Prefix(k)) = k
<1>4. P(0) /\ \A k \in 0..5 : P(k) => P(k + 1)
  BY <1>2, <1>3
<1> HIDE DEF P
<1>5. P(0) /\ P(1) /\ P(2) /\ P(3) /\ P(4) /\ P(5) /\ P(6)
  <2>1. P(0) => P(0 + 1)
    BY <1>4
  <2>2. P(1) => P(1 + 1)
    BY <1>4
  <2>3. P(2) => P(2 + 1)
    BY <1>4
  <2>4. P(3) => P(3 + 1)
    BY <1>4
  <2>5. P(4) => P(4 + 1)
    BY <1>4
  <2>6. P(5) => P(5 + 1)
    BY <1>4
  <2> QED BY <1>4, <2>1, <2>2, <2>3, <2>4, <2>5, <2>6
<1>6. \A k \in 0..6 : k \in {0, 1, 2, 3, 4, 5, 6}
  OBVIOUS
<1>7. \A k \in 0..6 : Cardinality(Prefix(k)) = k
  BY <1>5, <1>6 DEF P
<1>8. Prefix(6) = AllMatrices /\ Len(MatrixOrder) = 6
  <2>1. DOMAIN MatrixOrder = 1..6 /\ Len(MatrixOrder) = 6
    BY DEF MatrixOrder
  <2>2. Range(MatrixOrder) = Prefix(6)
    BY <2>1 DEF Range, Prefix
  <2> QED BY <2>1, <2>2, MatricesNamed
<1> QED BY <1>1, <1>7, <1>8

(* A matrix has one script of every case; the settled ones are as settled. *)
LEMMA ScriptsOfMatrix ==
  ASSUME NEW m, NEW s \in ScriptsOf(m)
  PROVE  /\ DOMAIN s = Cases[m]
         /\ \A c \in Cases[m] : s[c] \in AllScripts
         /\ \A c \in Cases[m] \cap Settled : s[c] = SettledScript(c)
<1>1. PICK o \in [Cases[m] -> OrdinaryScripts(m)] :
        s = [c \in Cases[m] |-> IF c \in Settled THEN SettledScript(c) ELSE o[c]]
  BY DEF ScriptsOf
<1>2. \A c \in Settled : SettledScript(c) \in AllScripts
  <2>1. SettledScript("current-current-sdk") \in AllScripts
    BY DEF SettledScript, SdkLegScript, AllScripts, Measuring, Checking
  <2>2. SettledScript("core-size") \in AllScripts
    BY DEF SettledScript, CoreSizeScript, AllScripts, Measuring, Checking
  <2> QED BY <2>1, <2>2 DEF Settled
<1>3. OrdinaryScripts(m) \subseteq AllScripts
  BY DEF OrdinaryScripts, AllScripts, Measuring
<1> QED BY <1>1, <1>2, <1>3

(* The next matrix of the order runs. *)
LEMMA MatrixRuns ==
  ASSUME EvidenceInv, RunMatrix
  PROVE  \E k \in 0..5 : \E s \in ScriptsOf(MatrixOrder[k + 1]) :
           LET m == MatrixOrder[k + 1] IN
           /\ DOMAIN tool.scripts = Prefix(k)
           /\ tool'.name = "evidence"
           /\ DOMAIN tool' = DOMAIN tool
           /\ tool'.scripts = [n \in Prefix(k) \cup {m} |->
                                IF n = m THEN s ELSE tool.scripts[n]]
           /\ tool'.sdk = IF m = "cross-era" THEN tree ELSE tool.sdk
           /\ tool'.size = IF m = "isolation" THEN tree ELSE tool.size
<1>1. PICK k \in 0..6 : DOMAIN tool.scripts = Prefix(k)
  BY DEF EvidenceInv, RunMatrix
<1>2. Cardinality(DOMAIN tool.scripts) = k /\ k \in 0..5
  <2>1. Cardinality(DOMAIN tool.scripts) = k
    BY <1>1, PrefixSize
  <2>2. k < 6
    BY <2>1, PrefixSize DEF RunMatrix
  <2> QED BY <2>1, <2>2
<1> DEFINE m == MatrixOrder[Cardinality(DOMAIN tool.scripts) + 1]
<1>3. PICK s \in ScriptsOf(m) :
        tool' = [tool EXCEPT
            !.scripts = [n \in DOMAIN @ \cup {m} |-> IF n = m THEN s ELSE @[n]],
            !.sdk = IF m = "cross-era" THEN tree ELSE @,
            !.size = IF m = "isolation" THEN tree ELSE @]
  BY DEF RunMatrix
<1>4. tool.name = "evidence" /\ DOMAIN tool = {"name", "scripts", "sdk", "size"}
  BY DEF EvidenceInv, RunMatrix
<1> HIDE DEF m
<1>5. /\ tool'.name = "evidence"
      /\ DOMAIN tool' = DOMAIN tool
      /\ tool'.scripts = [n \in DOMAIN tool.scripts \cup {m} |->
                           IF n = m THEN s ELSE tool.scripts[n]]
      /\ tool'.sdk = IF m = "cross-era" THEN tree ELSE tool.sdk
      /\ tool'.size = IF m = "isolation" THEN tree ELSE tool.size
  BY <1>3, <1>4
<1>6. m = MatrixOrder[k + 1]
  BY <1>2 DEF m
<1> QED BY <1>1, <1>2, <1>3, <1>5, <1>6

LEMMA EvidenceInit == Init => EvidenceInv
  BY DEF Init, EvidenceInv, Judged, Idle

LEMMA EvidenceKept == EvidenceInv /\ [Next]_vars => EvidenceInv'
<1> SUFFICES ASSUME EvidenceInv, [Next]_vars PROVE EvidenceInv'
  OBVIOUS
<1>1. ASSUME UNCHANGED pack, tool' = tool \/ tool'.name # "evidence"
      PROVE  EvidenceInv'
  BY <1>1 DEF EvidenceInv, Judged
<1>2. ASSUME NEW t, Start(t), t.name # "evidence" PROVE EvidenceInv'
  BY <1>2 DEF EvidenceInv, Start, Judged
<1>3. CASE StartEvidence
  <2>1. /\ tool'.name = "evidence" /\ DOMAIN tool' = {"name", "scripts", "sdk", "size"}
        /\ tool'.scripts = << >> /\ ~Judged'
    BY <1>3 DEF StartEvidence, Start, Judged
  <2>2. DOMAIN tool'.scripts = {} /\ 0 \in 0..6
    BY <2>1
  <2> QED BY <2>1, <2>2, PrefixSize DEF EvidenceInv, Scripted
<1>4. CASE RunMatrix
  <2>1. PICK k \in 0..5 : \E s \in ScriptsOf(MatrixOrder[k + 1]) :
          /\ DOMAIN tool.scripts = Prefix(k)
          /\ tool'.name = "evidence"
          /\ DOMAIN tool' = DOMAIN tool
          /\ tool'.scripts = [n \in Prefix(k) \cup {MatrixOrder[k + 1]} |->
                IF n = MatrixOrder[k + 1] THEN s ELSE tool.scripts[n]]
    BY <1>4, MatrixRuns
  <2>2. DOMAIN tool'.scripts = Prefix(k + 1) /\ k + 1 \in 0..6
    BY <2>1, NextPrefix
  <2>3. tool.name = "evidence" /\ pack' = pack
    BY <1>4 DEF RunMatrix
  <2>4. Scripted(tool'.scripts)
    <3>1. PICK s \in ScriptsOf(MatrixOrder[k + 1]) :
            tool'.scripts = [n \in Prefix(k) \cup {MatrixOrder[k + 1]} |->
              IF n = MatrixOrder[k + 1] THEN s ELSE tool.scripts[n]]
      BY <2>1
    <3> QED BY <2>1, <2>3, <3>1, ScriptsOfMatrix DEF EvidenceInv, Scripted
  <2> QED BY <2>1, <2>2, <2>3, <2>4 DEF EvidenceInv, Judged
<1>5. CASE EmitPack
  <2>1. PICK k \in 0..6 : DOMAIN tool.scripts = Prefix(k)
    BY <1>5 DEF EvidenceInv, EmitPack
  <2>2. DOMAIN tool.scripts = AllMatrices
    BY <1>5, <2>1, PrefixSize DEF EmitPack
  <2> QED BY <1>5, <2>2 DEF EvidenceInv, EmitPack, Idle
<1>6. CASE Build
  <2>1. tool'.name # "evidence"
    BY <1>6 DEF Build
  <2> QED BY <1>1, <1>6, <2>1 DEF Build
<1>7. CASE WriteNext
  <2>1. tool'.name # "evidence"
    BY <1>7 DEF WriteNext, Built
  <2> QED BY <1>1, <1>7, <2>1 DEF WriteNext
<1>8. CASE \/ \E w \in BOOLEAN : Record(w)
           \/ FinishCheck \/ FinishWrite \/ Interrupt
  <2>1. tool' = Idle /\ pack' = pack
    BY <1>8 DEF Record, FinishCheck, FinishWrite, Interrupt
  <2> QED BY <1>1, <2>1 DEF Idle
<1>9. CASE \/ \E v \in Versions : Edit(v)
           \/ \E c \in BOOLEAN : Sign(c)
           \/ UNCHANGED vars
  BY <1>1, <1>9 DEF Edit, Sign, vars
<1> QED
  BY <1>2, <1>3, <1>4, <1>5, <1>6, <1>7, <1>8, <1>9
     DEF Next, StartVerify, StartBuild

THEOREM EvidenceInvariant == Spec => []EvidenceInv
  BY EvidenceInit, EvidenceKept, PTL DEF Spec

(* What is adjudicated is a verdict of every case, and they all passed     *)
(* exactly if every step of every case did.                                *)
LEMMA ReportsComplete ==
  ASSUME EvidenceInv, Judged
  PROVE  /\ Complete(Reports)
         /\ AllPass(Reports) <=>
              \A m \in Matrices : \A c \in Cases[m] : Passed(pack.scripts[m][c])
<1>1. DOMAIN pack.scripts = AllMatrices /\ Scripted(pack.scripts)
  BY DEF EvidenceInv
<1>2. /\ DOMAIN Reports = AllMatrices
      /\ \A m \in AllMatrices :
           /\ DOMAIN Reports[m] = Cases[m]
           /\ \A c \in Cases[m] : Reports[m][c] = VerdictOf(pack.scripts[m][c])
  BY <1>1 DEF Reports, Scripted
<1>3. \A m \in AllMatrices : \A c \in Cases[m] : pack.scripts[m][c] \in AllScripts
  BY <1>1 DEF Scripted
<1>4. \A m \in AllMatrices : \A c \in Cases[m] :
        /\ Reports[m][c] \in Verdicts
        /\ Reports[m][c] = "PASS" <=> Passed(pack.scripts[m][c])
  BY <1>2, <1>3, VerdictOfScript
<1> QED BY <1>2, <1>4, MatricesNamed DEF Complete, AllPass

(* Ready to publish, no residual risk and nothing gone wrong in any case   *)
(* are one and the same, whatever the cases are and do (release.py).       *)
THEOREM PublishedIsClean == Spec => []PublishMeansClean
<1>1. EvidenceInv => PublishMeansClean
  <2> SUFFICES ASSUME EvidenceInv, Judged
               PROVE  LET clean == \A m \in Matrices : \A c \in Cases[m] :
                                     Range(pack.scripts[m][c]) = {"passed"} IN
                      /\ ("ready_to_publish" \in Adjudication.ready) <=> clean
                      /\ Adjudication.risks = {} <=> clean
    BY DEF PublishMeansClean
  <2>1. /\ "ready_to_publish" \in Adjudication.ready <=> Ready("ready_to_publish", Reports)
        /\ Adjudication.risks = ResidualRisks(Reports)
    BY DEF Adjudication, Adjudicate, Levels
  <2> QED
    BY <2>1, ReportsComplete, PublishIffPassed, NoRiskIffPassed DEF Passed
<1> QED BY <1>1, EvidenceInvariant, PTL

(* What may be published may be reviewed and used, and the pack that says  *)
(* so passes itself (release.py, LEVELS, computed apart).                  *)
THEOREM LevelsAlwaysNest == Spec => []LevelsNest
<1>1. EvidenceInv => LevelsNest
  <2> SUFFICES ASSUME EvidenceInv, Judged, "ready_to_publish" \in Adjudication.ready
               PROVE  Adjudication.ready = Levels /\ PackOk(Reports)
    BY DEF LevelsNest
  <2>1. Adjudication.ready = {l \in Levels : Ready(l, Reports)}
    BY DEF Adjudication, Adjudicate
  <2>2. Complete(Reports) /\ AllPass(Reports)
    BY <2>1, ReportsComplete, PublishIffPassed
  <2>3. \A l \in Levels : Ready(l, Reports)
    BY <2>2, PassedIsReady
  <2> QED BY <2>1, <2>2, <2>3, PassedPackOk
<1> QED BY <1>1, EvidenceInvariant, PTL

-----------------------------------------------------------------------------
(* The approvals *)

LEMMA RecordsInit == Init => RecordsInv
  BY DEF Init, RecordsInv, Idle

(* The suite's record is made of the tree the suite ran on, if nobody      *)
(* edits in between; an interrupted write leaves none.                     *)
LEMMA RecordsKept ==
  ASSUME ~EditsDuringTests, RecordsInv, [Next]_vars
  PROVE  RecordsInv' /\ ran \subseteq ran' /\ signed \subseteq signed'
<1>1. ASSUME NEW v \in Versions, Edit(v) PROVE RecordsInv' /\ UNCHANGED <<ran, signed>>
  BY <1>1 DEF RecordsInv, Edit
<1>2. ASSUME NEW c \in BOOLEAN, Sign(c)
      PROVE  RecordsInv' /\ ran' = ran /\ signed \subseteq signed'
  <2>1. /\ signoff' = [measured |-> LocOf[tree], complete |-> c]
        /\ signed' = IF c THEN signed \cup {LocOf[tree]} ELSE signed
        /\ UNCHANGED <<attested, ran, tool, tree>>
    BY <1>2 DEF Sign
  <2>2. signoff'.complete => signoff'.measured \in signed'
    BY <2>1
  <2> QED BY <2>1, <2>2 DEF RecordsInv
<1>3. CASE StartVerify
  BY <1>3 DEF RecordsInv, StartVerify, Start
<1>4. ASSUME NEW t, Start(t), t.name # "verify"
      PROVE  RecordsInv' /\ UNCHANGED <<ran, signed>>
  BY <1>4 DEF RecordsInv, Start
<1>5. ASSUME NEW whole \in BOOLEAN, Record(whole)
      PROVE  RecordsInv' /\ ran \subseteq ran' /\ signed' = signed
  <2>1. /\ tool.under = tree /\ UNCHANGED <<tree, signoff, signed>>
        /\ tool' = Idle
    BY <1>5 DEF RecordsInv, Record
  <2>2. CASE ~SuitePasses[tool.under]
    BY <1>5, <2>1, <2>2 DEF RecordsInv, Record, Idle
  <2>3. CASE SuitePasses[tool.under] /\ whole
    BY <1>5, <2>1, <2>3 DEF RecordsInv, Record, Idle
  <2>4. CASE SuitePasses[tool.under] /\ ~whole
    BY <1>5, <2>1, <2>4 DEF RecordsInv, Record, Idle
  <2> QED BY <2>2, <2>3, <2>4
<1>6. CASE RunMatrix \/ Build \/ WriteNext
  <2>1. /\ tool'.name = tool.name /\ tool.name \in {"evidence", "build"}
        /\ UNCHANGED <<attested, signoff, ran, signed>>
    <3>1. CASE RunMatrix
      BY <3>1 DEF RunMatrix
    <3>2. CASE Build
      BY <3>2 DEF Build
    <3>3. CASE WriteNext
      BY <3>3 DEF WriteNext, Built
    <3> QED BY <1>6, <3>1, <3>2, <3>3
  <2> QED BY <2>1 DEF RecordsInv
<1>7. CASE EmitPack \/ FinishCheck \/ FinishWrite \/ Interrupt
  BY <1>7 DEF RecordsInv, EmitPack, FinishCheck, FinishWrite, Interrupt, Idle
<1>8. CASE UNCHANGED vars
  BY <1>8 DEF RecordsInv, vars
<1> QED
  BY <1>1, <1>2, <1>3, <1>4, <1>5, <1>6, <1>7, <1>8
     DEF Next, StartEvidence, StartBuild

(* What a script settled by a record says, the record says.                *)
LEMMA SettledByRecord ==
  ASSUME RecordsInv, tree \in Versions
  PROVE  /\ Passed(SettledScript("current-current-sdk")) => DigestOf[tree] \in ran
         /\ (Passed(SettledScript("core-size")) /\ LocOf[tree] > Budget)
              => LocOf[tree] \in signed
<1>1. \A x : Passed(<<"passed", x>>) => x = "passed"
  <2> SUFFICES ASSUME NEW x, Passed(<<"passed", x>>) PROVE x = "passed"
    OBVIOUS
  <2>1. DOMAIN <<"passed", x>> = {1, 2} /\ <<"passed", x>>[2] = x
    OBVIOUS
  <2>2. x \in Range(<<"passed", x>>)
    BY <2>1 DEF Range
  <2> QED BY <2>2 DEF Passed
<1>2. \A x : Passed(<<x>>) => x = "passed"
  <2> SUFFICES ASSUME NEW x, Passed(<<x>>) PROVE x = "passed"
    OBVIOUS
  <2>1. DOMAIN <<x>> = {1} /\ <<x>>[1] = x
    OBVIOUS
  <2>2. x \in Range(<<x>>)
    BY <2>1 DEF Range
  <2> QED BY <2>2 DEF Passed
<1>3. Passed(SettledScript("current-current-sdk"))
        => AttestationCovers(attested, DigestOf[tree])
  BY <1>1, <1>2 DEF SettledScript, SdkLegScript
<1>4. LocOf[tree] \in Nat /\ Budget \in Nat
  BY ProcessAssumption, GateAssumption
<1>5. (Passed(SettledScript("core-size")) /\ LocOf[tree] > Budget)
        => SignoffCovers(signoff, LocOf[tree])
  <2>1. SettledScript("core-size")
          = CoreSizeScript(LocOf[tree], Documented[tree], signoff)
    BY DEF SettledScript
  <2> QED BY <1>1, <1>4, <2>1 DEF CoreSizeScript
<1> QED BY <1>3, <1>5 DEF RecordsInv, AttestationCovers, SignoffCovers

LEMMA ApprovalKept ==
  ASSUME ~EditsDuringTests, tree \in Versions, RecordsInv, EvidenceInv,
         ApprovalInv, [Next]_vars
  PROVE  ApprovalInv'
<1>0. ran \subseteq ran' /\ signed \subseteq signed'
  BY RecordsKept
<1>1. \A scripts, sdk, size : Approved(scripts, sdk, size) => Approved(scripts, sdk, size)'
  BY <1>0 DEF Approved
<1>2. ASSUME pack' = pack \/ pack' = NoPack,
             tool' = tool \/ tool'.name # "evidence"
      PROVE  ApprovalInv'
  <2>1. Judged' => Judged /\ pack' = pack
    BY <1>2 DEF Judged
  <2> QED BY <1>1, <1>2, <2>1 DEF ApprovalInv
<1>3. CASE StartEvidence
  <2>1. tool'.scripts = << >> /\ ~Judged'
    BY <1>3 DEF StartEvidence, Start, Judged
  <2>2. DOMAIN tool'.scripts = {}
    BY <2>1
  <2> QED BY <2>1, <2>2 DEF ApprovalInv, Approved
<1>4. CASE RunMatrix
  <2>1. PICK k \in 0..5 : \E s \in ScriptsOf(MatrixOrder[k + 1]) :
          LET m == MatrixOrder[k + 1] IN
          /\ DOMAIN tool.scripts = Prefix(k)
          /\ tool'.scripts = [n \in Prefix(k) \cup {m} |->
                               IF n = m THEN s ELSE tool.scripts[n]]
          /\ tool'.sdk = IF m = "cross-era" THEN tree ELSE tool.sdk
          /\ tool'.size = IF m = "isolation" THEN tree ELSE tool.size
    BY <1>4, MatrixRuns
  <2> DEFINE m == MatrixOrder[k + 1]
  <2>2. PICK s \in ScriptsOf(m) :
          /\ DOMAIN tool.scripts = Prefix(k)
          /\ tool'.scripts = [n \in Prefix(k) \cup {m} |->
                               IF n = m THEN s ELSE tool.scripts[n]]
          /\ tool'.sdk = IF m = "cross-era" THEN tree ELSE tool.sdk
          /\ tool'.size = IF m = "isolation" THEN tree ELSE tool.size
    BY <2>1
  <2>3. /\ UNCHANGED <<pack, ran, signed>>
        /\ Approved(tool.scripts, tool.sdk, tool.size)
    BY <1>4 DEF RunMatrix, ApprovalInv
  <2> HIDE DEF m
  <2>4. m = "cross-era" => s["current-current-sdk"] = SettledScript("current-current-sdk")
    BY ScriptsOfMatrix, CasesAssumption DEF Settled
  <2>5. m = "isolation" => s["core-size"] = SettledScript("core-size")
    BY ScriptsOfMatrix, CasesAssumption DEF Settled
  <2>6. ("cross-era" \in DOMAIN tool'.scripts
          /\ Passed(tool'.scripts["cross-era"]["current-current-sdk"]))
          => DigestOf[tool'.sdk] \in ran'
    <3>1. CASE m = "cross-era"
      BY <2>2, <2>3, <2>4, <3>1, SettledByRecord
    <3>2. CASE m # "cross-era"
      BY <2>2, <2>3, <3>2 DEF Approved
    <3> QED BY <3>1, <3>2
  <2>7. ("isolation" \in DOMAIN tool'.scripts
          /\ Passed(tool'.scripts["isolation"]["core-size"])
          /\ LocOf[tool'.size] > Budget)
          => LocOf[tool'.size] \in signed'
    <3>1. CASE m = "isolation"
      BY <2>2, <2>3, <2>5, <3>1, SettledByRecord
    <3>2. CASE m # "isolation"
      BY <2>2, <2>3, <3>2 DEF Approved
    <3> QED BY <3>1, <3>2
  <2> QED BY <2>3, <2>6, <2>7 DEF ApprovalInv, Approved, Judged
<1>5. CASE EmitPack
  <2>1. /\ tool.name = "evidence" /\ tool'.name # "evidence"
        /\ pack'.scripts = tool.scripts /\ pack'.sdk = tool.sdk
        /\ pack'.size = tool.size
    BY <1>5 DEF EmitPack, Idle
  <2> QED BY <1>0, <2>1 DEF ApprovalInv, Approved
<1>6. CASE Build \/ WriteNext
  <2>1. tool'.name = tool.name /\ tool.name = "build" /\ pack' = pack
    <3>1. CASE Build
      BY <3>1 DEF Build
    <3>2. CASE WriteNext
      BY <3>2 DEF WriteNext, Built
    <3> QED BY <1>6, <3>1, <3>2
  <2> QED BY <1>2, <2>1
<1>7. CASE \/ \E w \in BOOLEAN : Record(w)
           \/ FinishCheck \/ FinishWrite \/ Interrupt
  <2>1. tool' = Idle /\ pack' = pack
    BY <1>7 DEF Record, FinishCheck, FinishWrite, Interrupt
  <2> QED BY <1>2, <2>1 DEF Idle
<1>8. CASE \/ \E v \in Versions : Edit(v)
           \/ \E c \in BOOLEAN : Sign(c)
           \/ UNCHANGED vars
  BY <1>2, <1>8 DEF Edit, Sign, vars
<1>9. CASE StartVerify \/ \E check \in BOOLEAN : StartBuild(check)
  <2>1. tool'.name # "evidence" /\ pack' = NoPack
    BY <1>9 DEF StartVerify, StartBuild, Start
  <2> QED BY <1>2, <2>1
<1> QED
  BY <1>3, <1>4, <1>5, <1>6, <1>7, <1>8, <1>9 DEF Next

(* What clears the SDK leg is a run of the suite on the very sources that  *)
(* were judged, and what clears an overrun an acceptance of that very      *)
(* size, provided nobody edits while the suite runs (sdk_attestation.py,   *)
(* attestation_covers; isolation.py, signoff_covers).                      *)
THEOREM ApprovalAlwaysExact ==
  ASSUME ~EditsDuringTests
  PROVE  Spec => []ApprovalIsExact
<1> DEFINE Inv == FilesInv /\ RecordsInv /\ EvidenceInv /\ ApprovalInv
<1>1. Init => Inv
  <2>1. Init => ApprovalInv
    BY DEF Init, ApprovalInv, Judged, Idle
  <2> QED BY <2>1, FilesInit, RecordsInit, EvidenceInit
<1>2. Inv /\ [Next]_vars => Inv'
  <2> SUFFICES ASSUME Inv, [Next]_vars PROVE Inv'
    OBVIOUS
  <2>1. tree \in Versions
    BY DEF FilesInv
  <2>2. ApprovalInv'
    BY <2>1, ApprovalKept
  <2>3. FilesInv' /\ EvidenceInv' /\ RecordsInv'
    BY FilesKept, EvidenceKept, RecordsKept
  <2> QED BY <2>2, <2>3
<1>3. Inv => ApprovalIsExact
  <2> SUFFICES ASSUME EvidenceInv, ApprovalInv, Judged
               PROVE  /\ Reports["cross-era"]["current-current-sdk"] = "PASS"
                           => DigestOf[pack.sdk] \in ran
                      /\ (Reports["isolation"]["core-size"] = "PASS"
                           /\ LocOf[pack.size] > Budget)
                           => LocOf[pack.size] \in signed
    BY DEF ApprovalIsExact
  <2>1. DOMAIN pack.scripts = AllMatrices /\ Scripted(pack.scripts)
    BY DEF EvidenceInv
  <2>2. \A m \in AllMatrices : \A c \in Cases[m] :
          Reports[m][c] = "PASS" => Passed(pack.scripts[m][c])
    BY <2>1, VerdictOfScript DEF Reports, Scripted
  <2>3. /\ "cross-era" \in AllMatrices /\ "isolation" \in AllMatrices
        /\ "current-current-sdk" \in Cases["cross-era"]
        /\ "core-size" \in Cases["isolation"]
    BY CasesAssumption DEF AllMatrices
  <2> QED BY <2>1, <2>2, <2>3 DEF ApprovalInv, Approved
<1> HIDE DEF Inv
<1> QED BY <1>1, <1>2, <1>3, PTL DEF Spec
=============================================================================
