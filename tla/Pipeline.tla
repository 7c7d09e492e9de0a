------------------------------ MODULE Pipeline ------------------------------
(***************************************************************************)
(* The roles a run goes through and the verdict each agent reaches on the  *)
(* evidence it is given.  What an agent reads - acceptance criteria,       *)
(* test output, findings - is text; here it is what the verdicts tell      *)
(* apart.                                                                  *)
(***************************************************************************)
EXTENDS Sequences

CONSTANT AllowMissingTests   \* runtime.codex.allow_missing_tests

ASSUME PipelineAssumption == AllowMissingTests \in BOOLEAN

(* PIPELINES, for the run types that come near code and for planning.      *)
RunType == {"feature", "bug", "review", "release", "planning"}

(* Seeded fault: a feature's tests run before the code is written.         *)
PipelineTestsFirst(type) ==
  CASE type = "feature"  -> <<"product", "ux", "qa", "development", "security", "reviewer">>
    [] type = "bug"      -> <<"qa", "development", "reviewer">>
    [] type = "review"   -> <<"reviewer", "qa", "security">>
    [] type = "release"  -> <<"release", "qa", "security">>
    [] type = "planning" -> <<"project_manager", "product">>

PipelineForRunType(type) ==
  CASE type = "feature"  -> <<"product", "ux", "development", "qa", "security", "reviewer">>
    [] type = "bug"      -> <<"qa", "development", "reviewer">>
    [] type = "review"   -> <<"reviewer", "qa", "security">>
    [] type = "release"  -> <<"release", "qa", "security">>
    [] type = "planning" -> <<"project_manager", "product">>

Roles(type) == {PipelineForRunType(type)[i] : i \in DOMAIN PipelineForRunType(type)}

-----------------------------------------------------------------------------
(* QA.  analyzeQaVerification() gives every acceptance criterion a status; *)
(* a set of statuses is what is left of them, {} when there is no          *)
(* criterion.                                                              *)
Criteria == SUBSET {"pass", "fail", "unknown"}

(* The project's tests passed, failed or timed out, do not exist, or were  *)
(* not run because the run has no working tree.                            *)
TestResult == {"passed", "failed", "blocked"}
Tests == TestResult \cup {"none"}

(* noTestInfraSoftPass().                                                  *)
SoftPass(tests) == AllowMissingTests /\ tests = "blocked"

(* The blockers of the acceptance criteria that survive the soft pass.     *)
AcceptanceBlocked(criteria, tests) ==
  \/ criteria = {}
  \/ "fail" \in criteria
  \/ "unknown" \in criteria /\ ~SoftPass(tests)

TestsBlocked(tests) == tests \in {"failed", "blocked"} /\ ~SoftPass(tests)

(* The test-plan of QaAgent.execute(): whether it says ready for review,   *)
(* and then whether every criterion was seen to pass.                      *)
QaVerdictValue == {"none", "ready", "unproven", "blocked"}

(* Seeded fault: the result of the tests does not block the report.        *)
QaVerdictOnCriteria(criteria, tests) ==
  CASE AcceptanceBlocked(criteria, tests) -> "blocked"
    [] ~AcceptanceBlocked(criteria, tests) /\ "unknown" \in criteria -> "unproven"
    [] OTHER -> "ready"

QaVerdict(criteria, tests) ==
  CASE AcceptanceBlocked(criteria, tests) \/ TestsBlocked(tests) -> "blocked"
    [] ~AcceptanceBlocked(criteria, tests) /\ ~TestsBlocked(tests)
         /\ "unknown" \in criteria -> "unproven"
    [] OTHER -> "ready"

-----------------------------------------------------------------------------
(* The reviewer.  A critical finding counts as a high one.                 *)
Findings == SUBSET {"low", "medium", "high"}
ReviewVerdictValue == {"none", "approve", "minor", "changes"}

ReviewVerdict(findings) ==
  CASE findings = {} -> "approve"
    [] findings = {"low"} -> "minor"
    [] OTHER -> "changes"

(* Security.  Findings count when they are high or critical and not        *)
(* mitigated.                                                              *)
SecurityVerdictValue == {"none", "clear", "open"}
SecurityVerdict(unresolvedHigh) == IF unresolvedHigh THEN "open" ELSE "clear"

(* The ok of an agent's output, by its verdict.                            *)
QaOk(verdict) == verdict \in {"ready", "unproven"}
ReviewOk(verdict) == verdict \in {"approve", "minor"}
SecurityOk(verdict) == verdict = "clear"

-----------------------------------------------------------------------------
(* Seeded fault: a report that is there is taken for an approval.          *)
EvidenceOnFile(qa, review, security) ==
  qa \in {"ready", "unproven"} /\ review # "none" /\ security # "open"

(* validateAgentEvidence() as delivery calls it: of the run's artifacts    *)
(* delivery hands over the reports of these three agents only, so no       *)
(* artifact is left that could ask for a security review.                  *)
EvidenceSuffices(qa, review, security) ==
  qa = "ready" /\ review = "approve" /\ security # "open"

=============================================================================
